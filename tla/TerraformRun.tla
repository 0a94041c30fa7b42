---------------------------- MODULE TerraformRun ----------------------------
(***************************************************************************)
(* TerraformBackend and the state endpoints it points Terraform at, for    *)
(* one partition: nclav's jobs (calls of provision() and teardown()), the  *)
(* child processes they spawn, and the lock and state blob those children  *)
(* keep in nclav's own store over HTTP.                                    *)
(*                                                                         *)
(* The Terraform binary is not part of the repository: a child follows the *)
(* HTTP backend's protocol as run_tf's backend-config sets it up -- lock,  *)
(* get, work, put, unlock --, fails when a call of it fails, but unlocks   *)
(* all the same, and creates resources only when none of those the state   *)
(* tracks exists.                                                          *)
(***************************************************************************)
EXTENDS Integers, FiniteSets

CONSTANTS
  Job,         \* invocations of provision() or teardown(), in any overlap
  Kinds,       \* a subset of {"provision", "teardown"}
  Backends,    \* the stores it may be run on: "atomic" (memory, redb), "postgres"
  Hangs,       \* may a child stop for ever?
  Operator,    \* does somebody force-unlock or delete the state?
  MaxFaults    \* bound: failed commands and calls, lost replies, aborts, crashes

ASSUME RunAssumption ==
  /\ Kinds \subseteq {"provision", "teardown"}
  /\ Backends \subseteq {"atomic", "postgres"}
  /\ Hangs \in BOOLEAN /\ Operator \in BOOLEAN
  /\ MaxFaults \in Nat

NoOne == "no one"
ASSUME NoOneAssumption == NoOne \notin Job

VARIABLES
  workspace,  \* does the partition's workspace directory exist?
  job, child, \* per job: the task in the server, the process it spawned
  runs,       \* per job: the status of its IacRun record, or "none"
  lock,       \* the job whose child's ID the lock record carries
  state,      \* the state blob: the resources it tracks
  cloud,      \* the resources that exist, each named after its creator
  forced,     \* history: has an operator intervened?
  faults

vars == <<workspace, job, child, runs, lock, state, cloud, forced, faults>>
serverVars == <<lock, state, forced>>

Cmd == {"init", "apply", "output", "destroy"}

JobRec == [pc : {"new", "spawn", "collect", "drain", "decide", "record", "done", "gone"},
           kind : Kinds \cup {"none"}, cmd : Cmd, late : BOOLEAN,
           verdict : {"none", "ok", "err"}]
ChildRec == [pc : {"none", "init", "lock", "select", "get", "work", "put", "unlock",
                   "output", "exited", "dead"},
             hung : BOOLEAN, read : SUBSET Job, code : {0, 1},
             unsaved : BOOLEAN]  \* history: it ended without its put being stored

NewJob  == [pc |-> "new", kind |-> "none", cmd |-> "init", late |-> FALSE,
            verdict |-> "none"]
NoChild == [pc |-> "none", hung |-> FALSE, read |-> {}, code |-> 0, unsaved |-> FALSE]

Killed(c) == [c EXCEPT !.pc = "dead", !.unsaved = c.unsaved \/ c.pc = "put"]

TypeOK ==
  /\ workspace \in BOOLEAN /\ forced \in BOOLEAN /\ faults \in 0 .. MaxFaults
  /\ job \in [Job -> JobRec] /\ child \in [Job -> ChildRec]
  /\ runs \in [Job -> {"none", "succeeded", "failed"}]
  /\ lock \in Job \cup {NoOne}
  /\ state \subseteq Job /\ cloud \subseteq Job

Init ==
  /\ workspace = FALSE
  /\ job = [j \in Job |-> NewJob] /\ child = [j \in Job |-> NoChild]
  /\ runs = [j \in Job |-> "none"]
  /\ lock = NoOne /\ state = {} /\ cloud = {}
  /\ forced = FALSE /\ faults = 0

Fault   == faults < MaxFaults /\ faults' = faults + 1
NoFault == UNCHANGED faults

SetJob(j, rec)   == job' = [job EXCEPT ![j] = rec]
SetChild(j, rec) == child' = [child EXCEPT ![j] = rec]

Return(j, v) == SetJob(j, [job[j] EXCEPT !.pc = "done", !.verdict = v])

----------------------------------------------------------------------------
(* provision() and teardown() in the server. *)

\* Writing the workspace may fail before Terraform is ever invoked.
BeginProvision(j) ==
  /\ job[j].pc = "new" /\ "provision" \in Kinds
  /\ workspace' = TRUE
  /\ \/ /\ NoFault
        /\ SetJob(j, [job[j] EXCEPT !.pc = "spawn", !.kind = "provision", !.cmd = "init"])
     \/ /\ Fault
        /\ SetJob(j, [job[j] EXCEPT !.pc = "done", !.kind = "provision", !.verdict = "err"])
  /\ UNCHANGED <<child, runs, serverVars, cloud>>

\* Without a workspace there is nothing to destroy.
BeginTeardown(j) ==
  /\ job[j].pc = "new" /\ "teardown" \in Kinds
  /\ SetJob(j, IF workspace
               THEN [job[j] EXCEPT !.pc = "spawn", !.kind = "teardown", !.cmd = "destroy"]
               ELSE [job[j] EXCEPT !.pc = "done", !.kind = "teardown", !.verdict = "ok"])
  /\ UNCHANGED <<workspace, child, runs, serverVars, cloud, faults>>

FirstStep(cmd) == CASE cmd = "init"   -> "init"
                    [] cmd = "output" -> "output"
                    [] OTHER          -> "lock"

\* After a failed command or a failed spawn: write_run, then an error -- but an
\* error of `output' returns at once.
AfterFailureRetry_faulty(q) ==
  IF q.cmd = "destroy" THEN [q EXCEPT !.pc = "spawn"]
                       ELSE [q EXCEPT !.pc = "record", !.verdict = "err"]

AfterFailure(q) ==
  IF q.cmd = "output" THEN [q EXCEPT !.pc = "done", !.verdict = "err"]
                      ELSE [q EXCEPT !.pc = "record", !.verdict = "err"]

Spawn(j) ==
  /\ job[j].pc = "spawn"
  /\ \/ /\ NoFault
        /\ SetChild(j, [NoChild EXCEPT !.pc = FirstStep(job[j].cmd)])
        /\ SetJob(j, [job[j] EXCEPT !.pc = "collect"])
     \/ /\ Fault
        /\ SetJob(j, AfterFailure(job[j]))
        /\ UNCHANGED child
  /\ UNCHANGED <<workspace, runs, serverVars, cloud>>

Ended(j) == child[j].pc \in {"exited", "dead"}

\* The receiver ends when both pipes are closed, or after 30 minutes.
Collected(j) ==
  /\ job[j].pc = "collect"
  /\ Ended(j)
  /\ SetJob(j, [job[j] EXCEPT !.pc = "drain"])
  /\ UNCHANGED <<workspace, child, runs, serverVars, cloud, faults>>

TimedOut(j) ==
  /\ job[j].pc = "collect"
  /\ ~ Ended(j)
  /\ SetJob(j, [job[j] EXCEPT !.pc = "drain", !.late = TRUE])
  /\ UNCHANGED <<workspace, child, runs, serverVars, cloud, faults>>

\* The reader tasks are awaited before the kill: they end with the pipes, that
\* is, with the child.
PipesClosed(j) == Ended(j)

Drained(j) ==
  /\ job[j].pc = "drain"
  /\ PipesClosed(j)
  /\ child' = IF job[j].late /\ ~ Ended(j)
              THEN [child EXCEPT ![j] = Killed(child[j])] ELSE child
  /\ SetJob(j, [job[j] EXCEPT !.pc = "decide"])
  /\ UNCHANGED <<workspace, runs, serverVars, cloud, faults>>

SucceededIfQuiet_faulty(j) == child[j].code = 0

\* The command counts as done if it exited with 0 in time.
Succeeded(j) == child[j].pc = "exited" /\ child[j].code = 0 /\ ~ job[j].late

Decide(j) ==
  /\ job[j].pc = "decide"
  /\ SetJob(j,
       IF ~ Succeeded(j) THEN AfterFailure(job[j])
       ELSE CASE job[j].cmd = "init"    -> [job[j] EXCEPT !.pc = "spawn", !.cmd = "apply"]
              [] job[j].cmd = "apply"   -> [job[j] EXCEPT !.pc = "spawn", !.cmd = "output"]
              [] job[j].cmd = "output"  -> [job[j] EXCEPT !.pc = "record", !.verdict = "ok"]
              [] job[j].cmd = "destroy" -> [job[j] EXCEPT !.pc = "record", !.verdict = "ok"])
  /\ UNCHANGED <<workspace, child, runs, serverVars, cloud, faults>>

RunStatus(j) == IF job[j].verdict = "ok" THEN "succeeded" ELSE "failed"

\* write_run; an error of upsert_iac_run is only logged.
Record(j) ==
  /\ job[j].pc = "record"
  /\ \/ /\ NoFault
        /\ runs' = [runs EXCEPT ![j] = RunStatus(j)]
     \/ /\ Fault
        /\ UNCHANGED runs
  /\ SetJob(j, [job[j] EXCEPT !.pc = "done"])
  /\ UNCHANGED <<workspace, child, serverVars, cloud>>

Active(j) == job[j].pc \notin {"new", "done", "gone"}

\* The request is dropped.  The child is not: nothing sets kill_on_drop, and the
\* reader tasks go on.
DropRequest(j) ==
  /\ Active(j)
  /\ Fault
  /\ SetJob(j, [job[j] EXCEPT !.pc = "gone"])
  /\ UNCHANGED <<workspace, child, runs, serverVars, cloud>>

\* The server dies and comes back; a child whose pipes broke may die with it.
\* With an ephemeral disk (a Cloud Run container) all do, and the workspaces go.
Crash(killed) ==
  /\ Fault
  /\ \/ UNCHANGED workspace
     \/ killed = Job /\ workspace' = FALSE
  /\ job' = [j \in Job |-> IF Active(j) THEN [job[j] EXCEPT !.pc = "gone"] ELSE job[j]]
  /\ child' = [j \in Job |-> IF j \in killed /\ child[j].pc # "none" /\ ~ Ended(j)
                             THEN Killed(child[j]) ELSE child[j]]
  /\ UNCHANGED <<runs, serverVars, cloud>>

----------------------------------------------------------------------------
(* The state endpoints, called by the children. *)

Running(j, pc) == child[j].pc = pc /\ ~ child[j].hung

LockFree_faulty == TRUE

LockFree == lock = NoOne

Refused(j) == SetChild(j, [child[j] EXCEPT !.pc = "exited", !.code = 1])

\* lock_tf_state: one transaction in memory and redb; in PostgreSQL the INSERT
\* that takes the lock or finds it held.  The reply may be lost: the child
\* then asks again.
LockState(j) ==
  /\ Running(j, "lock")
  /\ \/ /\ LockFree
        /\ lock' = j
        /\ \/ NoFault /\ SetChild(j, [child[j] EXCEPT !.pc = "get"])
           \/ Fault /\ UNCHANGED child
     \/ /\ ~ LockFree
        /\ UNCHANGED lock /\ NoFault
        /\ \/ "atomic" \in Backends /\ Refused(j)
           \/ "postgres" \in Backends /\ SetChild(j, [child[j] EXCEPT !.pc = "select"])
  /\ UNCHANGED <<workspace, job, runs, state, cloud, forced>>

AfterSelect(j) ==
  IF lock = NoOne THEN [child[j] EXCEPT !.pc = "lock"]
                  ELSE [child[j] EXCEPT !.pc = "exited", !.code = 1]

\* PostgreSQL's second statement reads the holder for the 409; if the lock was
\* released in between the reply is a 500, and the child asks again.
SelectHolder(j) ==
  /\ Running(j, "select")
  /\ SetChild(j, AfterSelect(j))
  /\ UNCHANGED <<workspace, job, runs, serverVars, cloud, faults>>

GetState(j) ==
  /\ Running(j, "get")
  /\ \/ NoFault /\ SetChild(j, [child[j] EXCEPT !.pc = "work", !.read = state])
     \/ Fault /\ SetChild(j, [child[j] EXCEPT !.pc = "unlock", !.code = 1])
  /\ UNCHANGED <<workspace, job, runs, serverVars, cloud>>

StateAfterPutMerged_faulty(j) == state \cup child[j].read

\* put_tf_state overwrites, and looks at no lock.
StateAfterPut(j) == child[j].read

\* The store may fail, before or after it has stored the state: a 500 in both cases,
\* and what the child has done is known to nobody when it was before.
PutState(j) ==
  /\ Running(j, "put")
  /\ \/ /\ NoFault
        /\ state' = StateAfterPut(j)
        /\ SetChild(j, [child[j] EXCEPT !.pc = "unlock"])
     \/ /\ Fault
        /\ state' = StateAfterPut(j)
        /\ SetChild(j, [child[j] EXCEPT !.pc = "unlock", !.code = 1])
     \/ /\ Fault
        /\ UNCHANGED state
        /\ SetChild(j, [child[j] EXCEPT !.pc = "unlock", !.code = 1, !.unsaved = TRUE])
  /\ UNCHANGED <<workspace, job, runs, lock, forced, cloud>>

AfterUnlockAny_faulty(j) == NoOne

\* unlock_tf_state is a no-op on somebody else's lock.
AfterUnlock(j) == IF lock = j THEN NoOne ELSE lock

UnlockState(j) ==
  /\ Running(j, "unlock")
  /\ \/ /\ NoFault
        /\ lock' = AfterUnlock(j)
        /\ SetChild(j, [child[j] EXCEPT !.pc = "exited"])
     \/ /\ Fault
        /\ lock' \in {lock, AfterUnlock(j)}
        /\ SetChild(j, [child[j] EXCEPT !.pc = "exited", !.code = 1])
  /\ UNCHANGED <<workspace, job, runs, state, forced, cloud>>

\* DELETE .../lock without a body.
ForceUnlock ==
  /\ Operator /\ lock # NoOne
  /\ lock' = NoOne /\ forced' = TRUE
  /\ UNCHANGED <<workspace, job, child, runs, state, cloud, faults>>

\* DELETE .../{part}: memory and redb drop the lock with the state, PostgreSQL
\* keeps it.
DeleteState ==
  /\ Operator
  /\ state' = {} /\ forced' = TRUE
  /\ \/ "atomic" \in Backends /\ lock' = NoOne
     \/ "postgres" \in Backends /\ UNCHANGED lock
  /\ UNCHANGED <<workspace, job, child, runs, cloud, faults>>

----------------------------------------------------------------------------
(* What else a child does (external). *)

\* Of what the state tracks, it sees what exists.  `apply' creates what it does not
\* see, `destroy' deletes what it sees; a failure stops it anywhere but it still puts
\* what it has done.
Work(j) ==
  /\ Running(j, "work")
  /\ LET seen == child[j].read \cap cloud
         made == IF seen = {} THEN {j} ELSE {}
         full == IF job[j].cmd = "apply"
                 THEN [cloud |-> cloud \cup made, read |-> seen \cup made]
                 ELSE [cloud |-> cloud \ seen, read |-> {}]
     IN \/ /\ NoFault
           /\ cloud' = full.cloud
           /\ SetChild(j, [child[j] EXCEPT !.pc = "put", !.read = full.read])
        \/ /\ Fault
           /\ \/ /\ cloud' = full.cloud
                 /\ SetChild(j, [child[j] EXCEPT !.pc = "put", !.read = full.read, !.code = 1])
              \/ /\ UNCHANGED cloud
                 /\ SetChild(j, [child[j] EXCEPT !.pc = "put", !.code = 1])
  /\ UNCHANGED <<workspace, job, runs, serverVars>>

\* `init' and `output' do not lock; `output' fails when a declared output is
\* missing.
Simple(j) ==
  /\ Running(j, "init") \/ Running(j, "output")
  /\ \/ NoFault /\ SetChild(j, [child[j] EXCEPT !.pc = "exited"])
     \/ Fault /\ SetChild(j, [child[j] EXCEPT !.pc = "exited", !.code = 1])
  /\ UNCHANGED <<workspace, job, runs, serverVars, cloud>>

Hang(j) ==
  /\ Hangs
  /\ child[j].pc \notin {"none", "exited", "dead"} /\ ~ child[j].hung
  /\ SetChild(j, [child[j] EXCEPT !.hung = TRUE])
  /\ UNCHANGED <<workspace, job, runs, serverVars, cloud, faults>>

----------------------------------------------------------------------------
ServerStep(j) ==
  \/ Spawn(j) \/ Collected(j) \/ Drained(j) \/ Decide(j) \/ Record(j)

ChildStep(j) ==
  \/ Simple(j) \/ LockState(j) \/ SelectHolder(j) \/ GetState(j) \/ Work(j)
  \/ PutState(j) \/ UnlockState(j)

Next ==
  \/ \E j \in Job : \/ BeginProvision(j) \/ BeginTeardown(j) \/ ServerStep(j)
                    \/ TimedOut(j) \/ DropRequest(j) \/ ChildStep(j) \/ Hang(j)
  \/ \E killed \in SUBSET Job : Crash(killed)
  \/ ForceUnlock \/ DeleteState

Spec == Init /\ [][Next]_vars

\* Tokio polls the job, the timer fires, and a child that does not hang goes on.
FairSpec ==
  /\ Spec
  /\ \A j \in Job : /\ WF_vars(ServerStep(j)) /\ WF_vars(TimedOut(j))
                    /\ WF_vars(ChildStep(j))

----------------------------------------------------------------------------
(* Properties. *)

\* Between lock and unlock a child works on the state alone.
InSection(j) == child[j].pc \in {"get", "work", "put", "unlock"}

\* A child in its section owns the lock record, whatever became of the job that
\* spawned it -- so two children never work on the partition at once.
OneWriter == ~ forced => \A j \in Job : InSection(j) => lock = j

\* No update is lost: what a child read is still the state when it has done its
\* work, so its put overwrites nobody's bookkeeping -- also when the requests
\* that spawned the children overlap or are gone.
WorkOnCurrent ==
  \A j \in Job : child[j].pc = "work" /\ child'[j].pc = "put" /\ ~ forced =>
    child[j].read = state
NoLostState == [][WorkOnCurrent]_vars

\* A child that has worked, and whose put is to come or never was stored.
Unsaved(j) == child[j].pc = "put" \/ child[j].unsaved

\* The state blob tells the truth but for unstored puts: a resource it does not track
\* was made by a child that has not stored its put, and only a destroy that has not
\* makes it track one that is gone.  Later runs neither lose more nor hide it.
StateTellsTruth ==
  ~ forced =>
    /\ \A j \in cloud \ state : Unsaved(j)
    /\ state \ cloud # {} => \E j \in Job : Unsaved(j) /\ job[j].cmd = "destroy"

\* What a child does takes a lock away only when it is the owner's unlock: a run
\* whose lock was forced open does not release that of the next run.
OwnersUnlock ==
  lock # NoOne /\ lock' # lock /\ child' # child =>
    child[lock].pc = "unlock" /\ child'[lock].pc = "exited"
ReleasedByOwner == [][OwnersUnlock]_vars

\* The record a job leaves says what its caller was told, and a run that counts
\* as Succeeded really ran to its end in time.
RunsTruthful ==
  \A j \in Job :
    /\ runs[j] = "succeeded" => job[j].verdict = "ok" /\ ~ job[j].late
                                /\ child[j].pc = "exited" /\ child[j].code = 0
    /\ runs[j] = "failed"    => job[j].verdict = "err"

\* Every job ends, unless its child hangs: whatever fails, is lost, forced open or
\* stays locked, provision() and teardown() return.
JobsEnd == \A j \in Job : Active(j) ~> ~ Active(j) \/ child[j].hung

\* PARTITIONS.md, "A 30-minute hard timeout kills a hung process".
HungIsKilled ==
  \A j \in Job : job[j].late /\ child[j].hung ~> Ended(j) \/ job[j].pc = "gone"

=============================================================================
