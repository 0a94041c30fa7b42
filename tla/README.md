# A TLA+ model of nclav

nclav reconciles a directory of YAML files (enclaves, each with partitions,
exports and imports) against clouds. An HTTP server keeps one record per enclave
in a store; `apply`, `diff` and `destroy` are requests to it. This directory
models the parts of the server whose correctness depends on the order of things:
what is stored when, what a crash or a failing call leaves behind, what two
requests do to each other. Paths are relative to `src/`, those that begin with
`nclav-` to `src/crates/`.

Contents: [1 the system](#1-the-system), [2 the modules](#2-the-modules),
[3 module by module](#3-module-by-module), [4 the runs](#4-the-runs),
[5 what is proved](#5-what-is-proved), [6 disagreements](#6-where-documents-and-code-disagree),
[7 limits](#7-what-is-left-out-and-why), [8 plan](#8-plan).

To check: `tlc -config <cfg> <module>` for each run of section 4, `tlapm <M>.tla`
for each module of section 5.

## 1 The system

| component | state it keeps | operations | what is hard |
|---|---|---|---|
| reconciler (`nclav-reconciler`) | none between requests; a snapshot of the store, one record in memory and a report during one | `reconcile()`: load, validate, list, diff, tear down removed enclaves, provision, wire imports | runs for minutes with dozens of awaits; no lock, no transaction; any await may be its last |
| API (`nclav-api`) | the shared `Arc<dyn StateStore>` and driver registry | reconcile, dry run, delete enclave / partition, Terraform state and lock, IaC runs, orphans, status, graph, events | requests are concurrent tasks; a client that hangs up drops the future |
| store (`nclav-store`) | enclave records, audit events, Terraform states and locks, IaC runs | `StateStore`, three implementations: memory, redb, PostgreSQL | read-modify-write over several transactions; implementations that differ |
| Terraform backend (`nclav-driver/src/terraform.rs`) | a workspace directory per partition; a child process | provision, teardown, observe; `run_tf` | a subprocess that talks back to the server's state endpoints, a timeout, a log that must be kept |
| drivers (`gcp.rs`, `azure.rs`, `aws.rs`, `local.rs`) | nothing of their own; the cloud's state through REST calls | provision / teardown of enclaves and partitions, exports, imports, observe, listing orphans | many-step provisioning that must resume after a partial failure; operations polled with a bound; read-modify-write of IAM policies |
| graph (`nclav-graph`) | none | `validate`: dangling references, access control, types, cycles, topological order | imports in two places, five kinds of target, duplicate ids |
| config (`nclav-config`) | none | load the YAML directory into domain types | what it passes over in silence is torn down |
| CLI (`nclav-cli`) | a token file | serve, apply, diff, status, graph, destroy, iac runs, orphans | mostly a client |

**Interactions.** Requests share the store and the cloud and nothing else. The
reconciler calls the loader, then `validate()`, then the store, the drivers and
the Terraform backend, all by `await`. The Terraform child process calls back
over HTTP: the API's state endpoints, which call the store. Nothing but the
state lock of one partition excludes anything else.

**What makes each part correct.**

- *Reconciler and destroy endpoints*: nothing exists in a cloud that the store
  does not know of; a record that says Active is true; a report without errors
  means convergence; nothing a request did is silently undone; every request
  ends, and repeated applies converge whatever happened before.
- *Terraform backend*: one child at a time works on a partition's state; the
  state blob tracks what exists; the run record says what the caller was told;
  jobs end.
- *Store*: each call takes effect at once or not at all; where the code does not
  give that (two calls on one enclave that overlap), what can be lost is what the
  other call changed, and nothing else.
- *Graph*: what is accepted is sound, the order puts exporters first, what is
  refused is refused for a reason.
- *Loader*: nothing that is declared is missed, whatever the listing order, and
  nothing that is declared is torn down.
- *Drivers*: a handle stamped complete is never a lie, however often
  provisioning was cut short; what cannot be found by name is made once; an IAM
  policy keeps what everybody put into it, but for what changed under a writer; an import that counts as wired is
  connected to what its export names.
- *Orphan scan*: what a teardown left behind is reported, and nothing that has a
  record is.

`PROJECT.json` lists the components with their status, and the hazards with the
line at which each bites and the properties that would catch it.

## 2 The modules

| module | models | uses |
|---|---|---|
| `Reconciler` | `reconcile()`, `delete_enclave`, `delete_partition` as requests over one store and one cloud, with commits, failing calls, dropped requests and server restarts | `ResourceLifecycle` |
| `ResourceLifecycle` | abstract: what a partition's `ProvisioningStatus` promises about its resources | |
| `TerraformRun` | `provision`, `teardown`, `run_tf`, the state endpoints, and the child processes between them | |
| `StateStore` | abstract: a store whose calls happen at once (the in-memory store's behaviour) | |
| `StoreBackend` | redb's and PostgreSQL's calls, as transactions | `StateStore` |
| `EnclaveGraph` | `validate()` | |
| `ConfigLoader` | `load_enclaves()`, and which enclaves `reconcile()` then tears down | |
| `GcpEnclave` | the GCP driver's `provision_enclave` and `teardown_enclave` | |
| `GcpIam` | the GCP driver's partitions: service accounts and role bindings | |
| `AwsEnclave` | the AWS driver's enclaves and partitions | |
| `AzureEnclave` | the Azure driver's enclaves and partitions | |
| `CloudWiring` | exports and imports of the GCP, Azure and AWS drivers, from one apply to the next | |
| `OrphanScan` | `nclav orphans` with applies and destroys going on meanwhile | `CloudWiring` |
| `MC...` | constants of the TLC instances | the module of that name |
| `ReconcilerProofs`, `TerraformProofs`, `StoreProofs`, `ConfigProofs`, `GcpProofs`, `AwsProofs`, `AzureProofs`, `WiringProofs` | theorems and proofs | their module, `TLAPS` |

How they fit together: `Reconciler` takes a store call to be one step; its own calls,
`upsert_enclave` and `delete_enclave`, are one transaction in each store, and
`StoreBackend` shows what a partition call (`delete_partition`) is when another call on
the enclave comes between its two. `Reconciler`
takes `terraform apply` to be one step, which `TerraformRun` opens; it takes
`provision_enclave` to be one step that may fail half way, which `GcpEnclave`,
`AwsEnclave` and `AzureEnclave` open; it takes exporting and importing to be one
step each, which `CloudWiring` opens; it takes the loaded YAML to be valid and the order to put
exporters first, which is what `EnclaveGraph` shows; and which enclaves are
removed is what `ConfigLoader` says.

Definitions named `..._faulty` are variants of the definition that follows them,
each with a plausible bug (a guard dropped, a step skipped, a value not reset).
No specification uses them. Substituted for the definition they stand beside,
each makes one property of one run fail: they show that the property says
something about the code.

## 3 Module by module

### Reconciler

State: the YAML in Git (`listed`, `conf`), the registered drivers, the `store`
(one `EnclaveState` per enclave), what exists in the cloud (`project`, `sa`,
`res`), the partitions whose `workspace` directory is on the server's disk, those
whose Terraform state is `locked` by a run that is gone, and per request its program counter, its snapshot (`existing_map`), its
copy of the record it works on (`mem`), and what is left to do (`run`).

Each action is the code between two awaits that touch the store or the cloud.

| actions | code |
|---|---|
| `LoadYaml`, `ListStore` | steps 1–4 of `reconcile()`: load, validate, `list_enclaves`, diff |
| `RemoveEnclave`, `TerraformDestroy`, `TeardownPartition`, `TeardownEnclave`, `Forget` | step 6 (removed enclaves); the same steps are the body of `delete_enclave` and `delete_partition`, begun by `DestroyEnclave` and `DestroyPartition` |
| `SkipEnclave`, `EnclaveBegin`, `ProvisionEnclave`, `EnclaveError` | step 7 for an enclave, up to its partitions |
| `SkipPartition`, `PartitionBegin`, `ProvisionPartition`, `SaveHandle`, `TerraformApply` | step 7 for a partition |
| `ProvisionExport`, `SaveEnclave` | step 7, the rest |
| `ReadImporter`, `WireImport`, `SaveImporter`, `Finish` | step 8 |
| `Commit`, `AbortRequest`, `Restart`, `ForceUnlock` | somebody edits the YAML; a store call fails or the client hangs up, perhaps with Terraform in the middle (`CutApply`, `CutDestroy`); the server dies and comes back, perhaps without a driver or on an empty disk; an operator deletes a lock |

A configuration is a version number per partition, so `compute_desired_hash` is
the version; a handle is a boolean; outputs are the version that produced them.
`TerraformDestroy` is a success without a run where the workspace directory is missing,
and an error where the state is locked; `TerraformApply` is an error there too, and
so is any run without a project. `ProvisionEnclave` may return the complete handle of a
project that is gone; `TeardownPartition` may say Ok and leave the account, role or
identity (section 6). `torn` is a history variable: the partitions a teardown has
touched since they were last applied or forgotten. The code never stores
`Deleting`, so a record of such a partition may say Active of what is half
destroyed; the properties exempt exactly these (section 6).

`ResourceLifecycle` is the abstract specification of one partition: none →
Provisioning → Active ↔ Updating, Error from anything in flight; resources
change only while the record is in flight, the record turns Active only to say
what then exists, a failure keeps the hash of the last success.
`PartitionLifecycle` says that every partition of `Reconciler` implements it.

### TerraformRun

State: per job the task in the server (`job`), its child process (`child`) and
its run record (`runs`); the partition's `lock` and `state` in the store, the
resources that exist (`cloud`), the `workspace` directory. The whole of
`provision()` and `teardown()` is there: spawn `init`, `apply`, `output` (or
`destroy`), collect the log until the pipes close or 30 minutes pass, drain,
kill, decide, `write_run`. The child is external: it follows the protocol of
Terraform's HTTP backend, which `run_tf`'s `-backend-config` sets up — lock,
get, work, put, unlock — and retries a call whose reply is lost. `LockState`,
`SelectHolder`, `GetState`, `PutState`, `UnlockState`, `ForceUnlock`,
`DeleteState` are the endpoints of `handlers.rs` with the stores' calls in them; the
store may fail in each, so that a child may have made what it could not put, and still
unlock and end. `unsaved` remembers such a child, and one that died with its put to come.
Where the stores differ (a lock found held; deleting a state) each has a
disjunct; an instance with both `Backends` allows every mixture, which contains
the behaviours of each. A dropped request and a crash leave the child running.

### StateStore and StoreBackend

`StateStore` is the trait as the in-memory store keeps it. `StoreBackend` has
the calls of redb and PostgreSQL: `upsert_enclave` and `delete_enclave` are one
transaction; `upsert_partition` and `delete_partition` read the enclave's record
in one and write it back in another (`Begin`, `Read`, `Save`), and a caller may
be dropped in between. Calls overlap in any way: nothing in the server keeps them
apart. `missed` remembers, for a caller that has read, what others have changed in the
record since. `AtomicUnlessOvertaken` is the abstract specification, with
`Contract == INSTANCE StateStore` as the refinement mapping (the table is the same; a
partition call takes effect at `Save`) and one more kind of step: a call that was
overtaken may put back what it has missed (`OvertakenSave`), and that is all it may do
wrong.

### EnclaveGraph

`Check` is one iteration of `validate()`'s loop over the enclaves — required
outputs, export types, imports of the enclave and of its partitions — with the
errors and the wiring it pushes; `Reject`, `Cycle` and `Accept` are what follows.
`LastOf` and `First` keep what the code does with duplicates: a `HashMap` keeps
the last, `find()` takes the first. petgraph is external: `toposort` returns some
order that respects the edges (`Orders`). The properties are stated without any
of these, from what an import and an export mean.

### ConfigLoader

`collect_enclaves` one directory at a time, with a stack of directories left to
visit; the system lists a directory in any order. A directory is what its
`config.yml` is good for (`FileKinds`). `Compare` is what `reconcile()` concludes:
an enclave of the store that was not loaded is torn down. Whether `validate()`
refuses is left open here. `WalkInv` says of the walk that it visits each directory once and
leaves out only what is below an enclave. That `Parent` is a tree is assumed in a form
that holds for every finite tree: each set of directories has one whose parent is
outside. The names are chosen apart from `EnclaveGraph`'s, so that `ConfigProofs` can
extend both.

### GcpEnclave and GcpIam

`GcpEnclave` is `provision_enclave` from its early return (`Look`) through
project, billing, APIs, service account, network, subnet and DNS, one request to
the cloud per action, `teardown_enclave`, and the cloud around them: projects
that stay pending deletion, operations that go on after the driver has stopped
waiting and may then fail, requests carried out whose reply is lost. `left`
remembers operations nobody waits for any more; `torn` a project deleted while
its handle is still recorded. `GcpIam` is `provision_partition` and
`teardown_partition` with the two read-modify-writes of
`ensure_iam_role_binding`, an operator who edits the same policy, and reads that
fail (`GetFails`: an error counts as an empty policy). All of these come between a
call's read and its write, and an account may be deleted there. `meant` is what
everybody granted; `missed` are the bindings of which the policy that a call has read
is wrong by now, `harmed` those that were so when it wrote them back. The names of the two modules are chosen
apart, so that `GcpProofs` can extend both.

### AwsEnclave

`provision_enclave` (account of the organization, move, network, subnets, zone),
`provision_partition` (role, policy), and their teardown. Nothing is looked up
before it is made: an account that exists is refused, so what is made inside is
made once. `made` counts the things without a name. After the role Terraform runs, and
its handle replaces the driver's in the record (`phandle`): a teardown that finds it, or
that cannot enter the account, passes the role over with Ok (`TearDown`, `PassOver`),
and `delete_partition` and `delete_enclave` drop the record whatever failed.

### AzureEnclave

`provision_enclave` is a row of PUTs: subscription (through an alias), management
group, resource group, identity, and as configured network, zone and the link
between them; a call that was cut short starts again from the first. `at` is the
step and `polling` whether the call is in `wait_for_operation` there. `PutDone`,
`PutAccepted`, `PutConflict` are the replies 200/201, 202 and 409 of a step of
`arm_put_and_wait`; `Polled` keeps what a polled PUT returns, which is the
operation and not the resource, and so why there is a `GetNetwork`.
`provision_partition` makes an identity and grants it a role; `teardown_partition`,
`teardown_enclave` and both callers of the latter (a reconcile, which an error
ends, and `delete_enclave`, which it does not) are there, and so is the handle that
Terraform's success puts in place of the driver's. The cloud finishes what
it has begun or fails to, purges a cancelled subscription, and refuses what needs
something that is missing (`Accepts`). `early` holds what the driver took for done
while it was pending, `denied` says that granting the role has failed.

### CloudWiring

One export of one partition and one import of it. `ProvisionExport` is step 7's
call with the three drivers' answers (`GcpExport` makes a new handle every time,
`AzureExport` and `AwsExport` return the one there is); `WireImport` is step 8's,
whose course through the cloud depends on the driver and on the type of the export
(`ImportOf`): for GCP address, forwarding rule and record, or a subscription; for
Azure an endpoint, its interface and a record; for AWS nothing. Around them: the
partition's record, what Terraform replaces, the lock that a run cut short leaves and
against which every later one fails, an operator who removes it (`ForceUnlock`) or
destroys the partition or its enclave, and the configurations as far as these calls look at
them (`cfg`). A service is the number it was made under, so that a handle which
names one that is gone can be told from one that does not.

### OrphanScan

`list_orphans` reads all records (`ListEnclaves`), then asks each driver
(`AskCloud`) for the resources whose partition was not in the record it had read.
It is composed with `CloudWiring`, whose steps go on between the two (`Meanwhile`):
the partition looked for is the exporting one. `Exit` is the command's status.
`held` and `left` remember what was true from the first step to the last, which is
all that a scan without a lock can be held to.

## 4 The runs

States are distinct states; a run takes from two seconds to two minutes.

| run | states | what it shows |
|---|---|---|
| `rec_serial` | 562,352 | requests that do not overlap: the record stays true (`SerialInv`), things are recorded before they exist, a clean report means convergence, no record goes without an error while its project or the resources in its workspace stay, what a request has done so far is in the store and in the cloud (`LoopInv`), and each partition implements `ResourceLifecycle`; every request ends, and every declared partition whose state is not locked and whose project is there ends up Active at its YAML's version |
| `tf_safe` | 1,002,075 | two overlapping jobs: mutual exclusion, no lost state, a state blob that is wrong only of puts that were not stored, truthful run records, an unlock is the owner's, and a job whose child does not hang returns |
| `store_overlap` | 94,686 | the persistent stores implement the atomic one, but for a call that was overtaken between its transactions, which undoes what it missed and nothing else |
| `config_load` | 459,323 | the walk passes over nothing but what is below an enclave; every outermost enclave is loaded once or the load fails as a whole; only what no file names is torn down |
| `graph_order` | 374,796 | what is accepted is sound and in order, what is refused is refused for cause |
| `gcp_enclave` | 10,913 | a complete handle is real, every enclave settles |
| `iam_overlap` | 866,860 | the policy is what everybody made of it and a reported binding is there, but for bindings that changed between a call's read and its write, or that a failed read hid |
| `aws_enclave` | 63,243 | no second network, subnet or zone; no account of two enclaves; handles, the driver's and Terraform's, and roles are real |
| `azure_enclave` | 228,804 | a complete handle is real, a partition's identity exists and can act, every enclave settles |
| `orphan_scan` | 2,102,495 | a wired import is connected; GCP's exports catch up with what Terraform replaced once no lock is left; imports are wired in the end; the scan reports what was left all along and nothing that was recorded all along |
| `rec_revert` | violated | a failed update that is reverted stays half applied, and apply reports nothing |
| `tf_hang` | violated | a hung process is not killed |

**Bounds.** Every bound is a constant named `Max...` and appears in guards only
(a commit, a fault, an edit needs room), so a run never stops in the middle of
the code's own steps.

- `rec_serial`: an exporter and an importer, one partition each, two versions of
  the YAML, one fault anywhere (a failure, a cut-off request, a crash that may lose the
  workspaces, a lock left behind), a server that may come back without a driver. Two
  enclaves are needed for the order, for the return from the middle of a loop, and
  for imports; one fault is enough to reach every error path, and a second failure
  begins from a state the first has left, which the proof of `SerialInv` covers for
  every number. More faults add nothing to a property about what happens after the
  last of them.
- `rec_revert`: the smallest instance in which it happens.
- `tf_safe`: two jobs, either kind each, two faults — a crash and something it
  leaves behind — both kinds of store, hangs, and an operator.
- `store_overlap`: one enclave, two partitions, two values, two callers: what one
  caller misses is an upsert or delete by the other, of the record or of a partition.
  PostgreSQL and redb differ in the reply about a missing record, which the table does
  not depend on.
- `config_load`: five directories, three deep: an enclave with two partitions below
  a directory that may itself be one, and a sibling; each file of any kind; a store that
  also has an enclave no file names.
- `graph_order`: every configuration of up to two enclaves, and of three that
  import at most one thing each (duplicate ids, self-imports, cycles of each
  length); every kind of target, missing outputs, duplicate exports.
- `gcp_enclave`: four faults and four edits, enough to cut a call short, lose a
  reply, remove and add the enclave twice.
- `iam_overlap`: two partitions whose calls and teardowns interleave in any way, two
  bindings of the operator's, two faults, three edits.
- `aws_enclave`: two enclaves whose ids derive one account name; five faults.
- `azure_enclave`: three faults and three edits: a call cut short and resumed, a lost
  reply, and the enclave removed and added again with another configuration. The
  identity is given the subscription's id (`HasInput`); the proofs cover both cases.
- `orphan_scan`: all three clouds and all three types of export; two faults, each of
  which may leave a lock, and two edits, so that a service is replaced twice, an import is cut short and taken up
  again with another target, and a destroy leaves something behind. The scan may
  be repeated without bound.

`CHECK_DEADLOCK FALSE` stands where the system really may stop: `validate()` and
the loader return; Terraform jobs are finite; an instance of a driver that has used
its edits is done. `orphan_scan` can always go on, and deadlock is checked there.

**Fairness.** `Reconciler`: each request's next step is weakly fair (Tokio polls
a task that can go on; calls to drivers and stores have time limits and so
return), and so is somebody calling apply, as a pipeline does. Commits, failures,
restarts and destroys are not. A step that must happen is never assumed to
succeed: a fault may take its place while the bound lasts. `TerraformRun`: the
server's steps, the 30-minute timer, and the steps of a child that does not hang.
Hanging is possible at any time. `GcpEnclave`: the driver's steps, applies and
teardowns, and the cloud completing or purging what it has begun — not the
absence of failures. `AzureEnclave`: the same, with the partition's apply.
`CloudWiring`: the steps of an apply, applies themselves, and the cloud finishing
what is pending; neither edits nor faults, nor a scan, nor an operator who removes a
lock. The runs of the other modules check safety only.

**Exemptions, and why each property needs its own.** Each is a fact of the code, and
what the property would say without it is in section 6.
- `torn` (`Reconciler`, `GcpEnclave`, `AwsEnclave`, `AzureEnclave`), `ptorn`: a teardown
  that stopped half way.
- `workspace` in `NoSilentForget` and `LoopInv` (`Destroyed`): a server without the
  partition's directory never looked for its resources. The same properties say nothing
  of service accounts, roles and identities, which a teardown may leave with Ok.
- `Blocked` in `EventuallyApplied`, `<>[]~ locked` in `ExportsCatchUp`: a lock that
  nobody deletes; and, for the first, a project that is gone under a complete handle.
- `Unsaved` in `StateTellsTruth`: a put to come or one that was never stored, because the
  child died or the store failed.
- `missed` (`StoreBackend`), `harmed` (`GcpIam`): what changed between a read and the
  write that rests on it, or what a failed read hid. The properties name exactly what is
  exposed: the rest of the record, or of the policy, is held to.
- `left`: an operation the driver gave up on. `early`: one it took for done. `kept`: an
  endpoint of another target that a driver found and kept. `denied`: a role whose request
  failed. `forced`: an operator has opened a lock or deleted a state.

`TypeOK` of `Reconciler`, `TerraformRun`, `StoreBackend`, `EnclaveGraph`, `AwsEnclave` and
`AzureEnclave`, `IamTypeOK` and `LoaderTypeOK` are proved (section 5) and no longer among the runs' properties.
`CloudWiring` states its own; the part of it the proofs need is `WiringTyped`.

## 5 What is proved

By TLAPS, for every value of the constants that satisfies the `ASSUME`s of the
module, and so for any number of enclaves, partitions, requests, jobs, faults
and commits:

| theorem | module | says |
|---|---|---|
| `TypeCorrect` | `ReconcilerProofs` | `TypeOK`, requests overlapping or not |
| `SerialCorrect` | `ReconcilerProofs` | `~Overlap` ⇒ `[]SerialInv`, of which `ActiveIsApplied` is a conjunct |
| `CreatedIsRecorded` | `ReconcilerProofs` | `~Overlap` ⇒ `RecordedBeforeCreated` |
| `CopyCorrect`, `TeardownCorrect`, `LoopCorrect` | `ReconcilerProofs` | `~Overlap` ⇒ `[]LoopInv`, and its first two conjuncts by themselves |
| `LifecycleImplemented` | `ReconcilerProofs` | `~Overlap` ⇒ `PartitionLifecycle`: every partition implements `ResourceLifecycle` |
| `ForgottenIsGone` | `ReconcilerProofs` | `~Overlap` ⇒ `NoSilentForget` |
| `CleanReportTrue` | `ReconcilerProofs` | `~Overlap` and `~Reverts` ⇒ `ConvergedWhenClean` |
| `TerraformTyped`, `LockExcludes`, `PutsLoseNothing`, `StateIsTruth` | `TerraformProofs` | `TypeOK`, `OneWriter`, `NoLostState`, `StateTellsTruth` |
| `RunsTellTruth`, `OwnerReleases` | `TerraformProofs` | `RunsTruthful`, `ReleasedByOwner` |
| `UndoesOnlyTheMissed`, `StoreTyped` | `StoreProofs` | `AtomicUnlessOvertaken`, however calls overlap; `TypeOK` of `StoreBackend` |
| `LoaderTyped`, `WalkCorrect`, `AllLoaded`, `DeclaredStays` | `ConfigProofs` | `LoaderTypeOK`, `WalkInv`, `LoadsThemAll`, `TornOnlyIfUndeclared`, for any finite directory tree |
| `GraphTyped`, `AcceptedIsSound`, `ImportersFollow`, `RefusalsCaused` | `ConfigProofs` | `TypeOK`, `AcceptedSound`, `ExportersFirst`, `RefusedForCause`, for any configurations of any size |
| `GcpTyped` | `GcpProofs` | `TypeOK` of `GcpEnclave` |
| `GcpCorrect`, `CompleteReal` | `GcpProofs` | `Distinct` ⇒ `[]GcpInv`, `CompleteIsReal` |
| `PolicyKept`, `GrantsAreEnsured`, `IamTyped` | `GcpProofs` | `PolicyIsMeant`, `Ensured`, `IamTypeOK`, however calls, teardowns and edits interleave |
| `NothingTwice`, `CompleteReal`, `RoleReal`, `AwsTyped` | `AwsProofs` | `MadeOnce`, `CompleteIsReal`, `RoleIsReal`, `TypeOK` of `AwsEnclave` |
| `CompleteReal`, `IdentityReal`, `AzureTyped` | `AzureProofs` | `CompleteIsReal`, `IdentityIsReal`, `TypeOK` of `AzureEnclave` |
| `ImportsConnected`, `ScanTellsTruth` | `WiringProofs` | `WiredIsConnected`, `ScanTells` |

**The arguments.**

*Serial requests.* `ActiveIsApplied` is not inductive: `SaveEnclave` stores a
copy that was made many awaits ago. `SerialInv` adds, for each request: the
record it works on is stored and in flight while a driver works
(`BookedEnclave`, `BookedPartition`), its snapshot is still the store's content
for the enclaves it has not come to (`FreshSnapshot`), and its copy tells the
truth as the store does (`TruthfulCopy`) — all of which need that no other
request is in flight (`AtMostOne`). The lemma `Alone` reduces a step to its own
request; there is one lemma per stage (teardown, enclave, partition, imports,
environment) with one step per action. `SerialInv` is checked by TLC in
`rec_serial` as it is proved. `RecordedBeforeCreated` follows from it. The
hypothesis `~Overlap` is not one the server enforces (section 6).

*What a request has done so far.* `SerialInv` says that a record tells the truth, not
that a request has done its work; `LoopInv` does. Its conjuncts:
- `CopiesFollow`: the whole records that `provision_enclave` and the partition loop
  write back agree with the store on every partition but the one in hand, which is
  ahead of it by the outcome of one call (`AheadBy`). So each write moves at most one
  partition by one step of `ResourceLifecycle`, and the refinement follows: every
  step maps to a step of it or to a stutter, for all partitions at once.
- `TeardownsEmpty`: a teardown without errors has no project and no Terraform resources
  left of what it has passed over, but where there was no workspace (`Destroyed`), by
  the stage it is in. `delete_enclave` goes on after errors,
  so each disjunct is "an error is reported, or its turn is to come, or it is gone".
- `BehindInv`, without reverts: what is recorded is older than what any request
  loaded, or is a success at that very version. That is why skipping a partition
  whose hash is the YAML's leaves an Active one. With reverts it is false, and so is
  the theorem: that is what `rec_revert` shows.
- `ApplyInv`, without reverts: an apply without errors has a record for no enclave
  it was to remove and has passed (`Unwanted`), and every enclave passed is active,
  its declared partitions at their versions, its export and its imports there (`Done`,
  `Converging`); what it loaded does not change under it (`Scope`).

`CleanReportTrue` is `LoopInv` read at the last step, `Finish`.

*The lock.* `OneWriter` needs `SpawnFree` (a job spawns only where its earlier
child has ended), since a child that is spawned anew must not be in its section.
`ReadsCurrent` (what a child read is the state until it puts) rests on `OneWriter`.
`Truth` says of the state blob, and of what a child is about to put, that they are wrong
only of puts that were never stored (`PutsTellTruth`); it also needs that a child whose
put was not stored has failed (`UnsavedFailed`), so that its job spawns no other, and that
only `apply` and `destroy` work on the state (`Workers`). Together they are `LockInv`.
Nothing is assumed of how jobs overlap.

*The run records.* A record exists only of a job that is done, and a verdict that is
`ok` by the time it is written stands on a child that exited with 0 before the
30 minutes were over (`RunsKept`); a child that has exited stays so until its job
spawns another, which a job with a verdict does not (`ExitedStay`).

*The store.* What a caller has read is still the record, but for what it has missed
(`Fresh`). So a `Save` that has missed nothing is the atomic call, and any other differs
from it in what it has missed (`SameRecord`, `Changed`); `Begin`, `Read` and `Drop`
stutter. Nothing is assumed of how calls overlap.

*The loader.* The stack holds sets of directories that are disjoint and of which none is
above another, above or below what was found, or below an enclave (`WalkApart`). So a
directory that is taken off it is found at most once, and what replaces it, its
subdirectories, is again apart: that rests on the lemmas about the tree (`NoCircle`,
`ChildBetween`, `TopAbove`), which follow from `Ancestors` being the least set closed
under `Parent` and from the tree's assumption, without induction. `NothingMissed` says
what is left to do: an outermost enclave is found, or it or a directory above it is
on the stack. A stack that is empty leaves the first.

*The graph.* Every place checked without an error has only good imports
(`GraphInv`), each of which is a wire; an order respects the edges; with unique
ids the edges are the imports. That an order has every place is that an injection
of a finite set into itself is onto. For `RefusedForCause`, each error and each wire comes
of an enclave of the configuration (`Caused`), and with unique ids and names a sound and
typed enclave has no error (`SoundIsClean`); what remains is that a graph without a
circle has an order (`OrderExists`). In place of an induction: of the beginnings of an
order (`Beginnings`) take a longest; were a place left out, one of those left would have
no edge from another of them, and could come next (`GoesOn`).

*GCP enclaves.* `CompleteIsReal` speaks of a handle written at the end of six steps, some
of which the driver stops waiting for. So `GcpInv` says of each call: what it has
passed is ready, or in `left`; once billing is linked its project is active
(`Progress`); and an operation that is pending is the one waited for or is in `left`
(`Attended`), so an operation that fails later spoils only what the handle is not
held to. The lemma `AdvanceDoes` is that going to the next wanted step passes no
wanted one over, which needs the least element of a set of numbers (`Least`, by
`WFMin`). `Distinct` says that no two enclaves derive one project id; the driver does not
check it (`gcp.rs:227`), and where it is false a teardown of the one deletes the project
of the other, so the theorems need it.

*IAM.* The policy that a call has read is the policy, but for what it has missed
(`ReadIsCurrent`). With it `PolicyIsMeant` and `Ensured` are inductive: a write harms only
what it has missed, and every change of a binding that everybody knows of takes it out
of `harmed` again.

*AWS.* What is in an account was put there by calls of the enclave whose request
made it, since nobody else learns its id; so the invariant says of each call what it
has made (`CallOK`), of each account that it is empty before it exists (`AccountOK`),
and of each record when it is written (`RecordOK`, `RoleOK`). A step of one enclave
leaves what is said of the others because it changes only an account it has made or
is making (`ItsAccount`, `OthersKeep`): that is why enclaves may derive one name. A role
is lost only by a teardown from the driver's handle, which `ptorn` marks; whose handle it
is afterwards does not matter to `RoleOK`.

*Azure.* `CompleteIsReal` is about what a call has made by the time it returns, so
the invariant (`Truth`) says at each step what has been made before it (`CallOK`),
but for what is in `early`; that only a call of an incomplete handle provisions, and
that a cancelled subscription under a recorded handle is in `torn` (`RecordsOK`).

*Wiring.* While an import is made its handle is missing and its export's handle stays
(`ImportOK`): the export is written in step 7 of the same request, and requests run
one at a time. So what a wait ends with is what was asked for, and what comes after
it has `Reached` an endpoint of the right target. `PointOK` ties each step to a cloud
and a type of export, which is why an A record is there only where the last import
has written it (`RecordOK`).

*The scan.* What was recorded all along is in what was read (`ScanInv`), so it is not
reported; what was left all along is still there when the cloud is asked and not in
what was read, so it is. Nothing is assumed of the steps between the two.

**Only model-checked.** Every safety property that a passing run checks is proved as well.
What is left to TLC is liveness: `RequestsEnd`, `EventuallyApplied`, `JobsEnd`, `Settles`
of `GcpEnclave` and of `AzureEnclave`, `ExportsCatchUp`, `ImportsEnd`. TLAPS has no
rules for fairness and `ENABLED`. The two findings (section 6) are TLC's as well.

## 6 Where documents and code disagree

Two have a run of their own: `rec_revert` and `tf_hang` (`PROJECT.json`,
"findings", with quotations). The others were met while the
modules were written. Each is what the definitions named here do, and why a
property above is worded as it is.

*Reconciler and API*
- Of two reconciles that overlap the later write is to fail because its
  `generation` is stale (`docs/prd/README.md:437`); nothing compares `generation`
  when a record is written, and the later write replaces the earlier one's, also with a
  snapshot taken before the earlier one began (`reconcile.rs:253`): `EnclaveBegin` of an
  instance with `Overlap`. No property can hold against that; the theorems about
  `Reconciler` have `~Overlap` as a hypothesis, and say what holds of a request that is
  alone.
- Destroying runs `terraform destroy` (`docs/prd/PARTITIONS.md:351`,
  `docs/enclave-yaml.md:128`, `docs/cli-reference.md:131`); without the workspace directory
  it does not, and the record is dropped with nothing reported (`terraform.rs:223`):
  `TerraformDestroy`, `Destroyed`.
- What `terraform apply` returns replaces the driver's handle of the partition
  (`reconcile.rs:372`); only GCP's account is carried over (`:360`). On AWS and Azure
  the handle of an applied partition names no account and no subscription, so
  `teardown_partition` skips with Ok (`aws.rs:1550`, `azure.rs:1067`) and the role or
  identity stays, against `docs/prd/AWS.md:135` and `docs/prd/AZURE.md:161`:
  `TeardownPartition`, `AwsEnclave.TearDown`, `AzureEnclave.TearDownPartition`.
- A service account that cannot be deleted is a warning and Ok (`gcp.rs:1163`); a
  failed AssumeRole likewise (`aws.rs:1557`): `TeardownPartition`, `PassOver`.
- A complete handle of a project, account or subscription that is gone is returned as
  it is (`gcp.rs:719`, `aws.rs:1297`, `azure.rs:804`), the enclave is Active and its
  partitions fail with every apply: `ProvisionEnclave`, `Blocked`.
- `nclav-store/src/state.rs:37` defines `Deleting`; nothing stores it. A destroy
  that dies half way leaves an Active record, and later applies skip the
  partition because its hash matches (`torn`).
- A crash between `provision_enclave` and the next upsert
  (`nclav-reconciler/src/reconcile.rs:262`) leaves no handle; `destroy` then skips every
  teardown, deletes the record and reports nothing (`NoSilentForget` speaks of
  records that have a handle).
- Imports are wired after every partition was provisioned, so the first apply
  passes `{{ alias.key }}` through as it stands (`reconcile.rs:303`;
  `docs/prd/PARTITIONS.md:131` says resolved before provisioning runs).
- The export of a partition that failed is wired with no outputs
  (`reconcile.rs:409`), and a wired import is never looked at again (`:472`), also
  after its export has come to name another service: `Rewires`.
- A partition removed from an enclave's YAML is never torn down.
- Changing an enclave's `cloud:` gives the old cloud's handle to the new driver.
- `{{ nclav_enclave_id }}` and `{{ nclav_partition_id }}` are documented and not
  provided.

*Terraform*
- A provision whose `terraform output` fails leaves no `IacRun`
  (`nclav-driver/src/terraform.rs:189`; `docs/prd/PARTITIONS.md:321` "every
  Terraform invocation"): `AfterFailure` goes to `done`.
- A lock request repeated because its reply was lost is refused on account of its
  own lock, which then stays (`nclav-store/src/store.rs:47` says "by a different
  holder").
- A run that dies between its lock and its unlock leaves the lock, and every later
  apply or destroy of the partition fails until an operator deletes it
  (`handlers.rs:410`): `Blocked`, `CloudWiring.locked`.
- A put that the store fails is a 500 (`handlers.rs:397`), after which the child unlocks
  all the same: what it has made is tracked nowhere (`unsaved`).

*Store*
- `upsert_partition` and `delete_partition` lose a record written between their
  two transactions, and revive an enclave deleted there (`redb_store.rs:127`);
  `generation` is never compared: `OvertakenSave`.
- `delete_partition` of an enclave without a record is Ok in redb and
  `EnclaveNotFound` in PostgreSQL (`postgres_store.rs:217`): `Missing`.

*Loader and graph*
- A `config.yml` that does not parse as an enclave (a missing `region`, a port over
  65535) is passed over, and its live enclave torn down (`loader.rs:58`;
  `docs/enclave-yaml.md:128` promises that for removal only): `Descend`,
  `FileKinds` "broken".
- `is_auth_compatible` (`nclav-domain/src/types.rs:89`) is called from tests only.
- An export whose target partition does not exist is accepted
  (`validate.rs:70`); `ExportTarget::Partition` permits nobody (`:188`); two files
  of one id put it twice into the order, the first without edges (`:115`).

*GCP*
- Polling stops after 1220 s, not after 58 minutes (`gcp.rs:317`,
  `docs/prd/GCP.md:492`).
- A network or subnet that exists is not waited for, so a create that timed out and
  then fails is never repeated although the handle says complete (`gcp.rs:909`,
  `docs/prd/GCP.md:506`): `left`.
- The early return takes a project pending deletion for provisioned (`gcp.rs:719`).
- Different ids may derive one project id, which is then adopted and deleted for
  both (`gcp.rs:227`). The derived names do not always meet the rules their
  comments state (`gcp.rs:225`, `:628`, `azure.rs:748`).
- An IAM policy is written back without its etag (`gcp.rs:424`), so what anybody granted
  or revoked since the read is undone; a failed read counts as an empty policy (`:411`),
  so all it had is dropped: `harmed`. Failed bindings are passed over (`:1103`).
- `docs/prd/GCP.md:213` polls a deleted project, `:537` has checks of the network
  and the account in `observe_enclave`, and an export adjusts Cloud Run ingress;
  none is in the code, and nothing calls `observe_*`.

- A forwarding rule or a subscription that exists is taken for the one asked for,
  whatever it leads to (`gcp.rs:1436`, `:1515`): `kept`.
- An http import of an export with authentication other than `none` makes no call,
  and counts as wired also when the export's outputs are empty.

*Azure*
- A PUT answered 200 or 201 is taken for done (`azure.rs:505`) though the resource may
  still be pending: `early`. What a polled PUT returns is the operation, so the id
  of a polled network is the operation's, or is asked for with a GET whose status is
  not looked at (`:868`); without an id the link is not made and the handle is
  complete all the same.
- A complete handle is returned at once (`:804`), whatever the YAML asks for by now.
- A role that cannot be granted is a warning (`:1038`), and nothing tries again:
  `denied`.
- A polled private endpoint names no interface, so its record gives the placeholder
  `10.0.0.0` (`:1319`–`1340`): `EndpointPolled`.

*AWS and Azure, exports*
- An export that has a handle keeps it (`aws.rs:1583`, `azure.rs:1105`), also when
  Terraform has replaced the service it names or, on AWS, when the partition had no
  outputs yet: `ExportsCatchUp` is about GCP only, and `ImportsEnd` assumes that the
  export names a service that stays.

*Orphans*
- `remaining_resources` and `nclav orphans` take a query that failed for an empty
  answer (GCP, Azure), or leave the enclave out (AWS); an empty array does not
  mean a clean teardown (`docs/prd/PARTITIONS.md:360`). Only the first page of an
  answer is read. `ScanTells` asks for `asked`.
- Enclaves are scanned by their records: what a destroyed enclave left behind is in
  no scan (`docs/prd/PARTITIONS.md:165` "across all partitions"): `Unrecorded`.

*AWS*
- A role that is already gone fails its own teardown (`aws.rs:1152`;
  `docs/prd/AWS.md:233`); the record goes all the same (`Detach`, `ForgetPartition`).
- `nclav_account_id` reaches `provision_partition` only if the partition declares
  it as an input (`reconcile.rs:543`; `docs/prd/AWS.md:113`): `HasInput`.
- `context_vars` reads `partition_role_arn` from the enclave's handle, where it
  never is.

## 7 What is left out, and why

- **Data.** Hashes, handles, outputs, templates and labels are abstracted as
  section 3 says. An enclave's own hash and `desired` copy, and audit events, steer
  nothing: a failing `append_event` is one of the failures of `AbortRequest`.
- **`Reconciler`**: an enclave's cloud is fixed. A Terraform process that outlives
  its request is in `TerraformRun`, not here. Store calls are one step. Passing runs
  have `Overlap` and `Reverts` false: with either true the properties fail (section
  6). Stores are persistent.
- **`TerraformRun`**: the files of a workspace are one flag; the log's content,
  `observe`, and the number of resources (one per job) are left out.
- **`GcpEnclave`**: labels (best effort, read only by the orphan scan); the undelete
  and the wait for it are one step; the steps an enclave wants do not change. It
  assumes of the cloud that a subnet or a zone needs a network that is ready. One
  call of an enclave at a time.
- **`GcpIam`** assumes that the cloud drops a deleted account from every binding.
- **`AwsEnclave`**: the identity's role, which is like the partition's; one partition
  of each enclave.
- **`AzureEnclave`** assumes of the cloud that it takes a resource only into an active
  subscription and a ready group, that purging empties it, and that deleting an
  identity takes its role with it. Whether a further apply would use the network of an
  earlier configuration is not looked at; tokens and derived names are left out.
- **`CloudWiring`**: applies do not overlap, and the importing enclave is not torn
  down. Templates, and the outputs an import passes on, are the service they name.
- **`OrphanScan`**: one enclave and one partition; labels are there.
- **Polling.** What a wait may end with is modelled where it is called; the fixed list
  of delays, and so how long a wait lasts, is not.
- **Not modelled.** The local driver (keeps nothing); `observe_*`, which only tests
  call, and `list_partition_resources`, which asks what the orphan scan asks
  of one partition; derived names; the CLI's token file; routing and the other
  read-only endpoints; request signing, XML and JSON; the bootstrap Terraform
  modules, images and sample YAML.

## 8 Plan

Written, in this order, the most important behaviour first: `Reconciler` with
`ResourceLifecycle`, `TerraformRun`, `StoreBackend` with `StateStore`,
`EnclaveGraph`, `ConfigLoader`, `GcpEnclave`, `GcpIam`, `AwsEnclave`,
`AzureEnclave`, `CloudWiring`, `OrphanScan`; and the proofs of section 5.

Next, models:
1. A change of `cloud:` in `Reconciler`, which hands the old cloud's handle to the
   new driver.
2. Polling and derived names (length, first character, two ids of one name) as pure
   algorithms.
3. The CLI's token (`commands.rs:696–740`): reuse, file, environment.

Next, proofs: of what the models above will add. For the modules there are, the proofs
of the safety properties are complete.
