-------------------------- MODULE TerraformProofs ---------------------------
(***************************************************************************)
(* What holds of TerraformRun for any set of jobs, any store and any       *)
(* number of faults: its types, mutual exclusion of the children's         *)
(* sections, that no put loses an update, and that the state tells the     *)
(* truth.                                                                  *)
(***************************************************************************)
EXTENDS TerraformRun, TLAPS

\* A command is spawned only where no child of the job is left running or dead, and
\* none whose put was not stored: that one has failed or died.
SpawnFree ==
  \A j \in Job : job[j].pc \in {"new", "spawn"} =>
    child[j].pc \in {"none", "exited"} /\ ~ child[j].unsaved
UnsavedFailed ==
  \A j \in Job : child[j].unsaved => child[j].code = 1 \/ child[j].pc = "dead"

\* What a child in its section read is the state until it puts.
ReadsCurrent == ~ forced => \A j \in Job : child[j].pc = "work" => child[j].read = state

\* StateTellsTruth is not inductive as it stands: what a child is about to put must be
\* as true as the state, once that put is stored.
PutsTellTruth ==
  ~ forced => \A j \in Job : child[j].pc = "put" =>
    /\ \A i \in cloud \ child[j].read : child[i].unsaved
    /\ child[j].read \ cloud # {} => \E i \in Job : child[i].unsaved /\ job[i].cmd = "destroy"

Truth == StateTellsTruth /\ PutsTellTruth

\* Only `apply' and `destroy' come to the lock.
Workers ==
  \A j \in Job : child[j].pc \in {"lock", "select", "get", "work", "put", "unlock"} =>
    job[j].cmd \in {"apply", "destroy"}

LockInv == TypeOK /\ OneWriter /\ SpawnFree /\ UnsavedFailed /\ Workers /\ ReadsCurrent /\ Truth

----------------------------------------------------------------------------

\* A job keeps its type when one record replaces another; so does a child.
LEMMA JobTyped ==
  ASSUME TypeOK, NEW j \in Job, NEW rec \in JobRec, SetJob(j, rec)
  PROVE  job' \in [Job -> JobRec]
BY DEF TypeOK, SetJob

LEMMA ChildTyped ==
  ASSUME TypeOK, NEW j \in Job, NEW rec \in ChildRec, SetChild(j, rec)
  PROVE  child' \in [Job -> ChildRec]
BY DEF TypeOK, SetChild

\* The records the actions build are job and child records.
LEMMA JobMoves ==
  ASSUME NEW q \in JobRec
  PROVE  /\ \A p \in {"new", "spawn", "collect", "drain", "decide", "record", "done", "gone"} :
              /\ [q EXCEPT !.pc = p] \in JobRec
              /\ \A c \in Cmd : [q EXCEPT !.pc = p, !.cmd = c] \in JobRec
              /\ \A v \in {"ok", "err"} : [q EXCEPT !.pc = p, !.verdict = v] \in JobRec
         /\ [q EXCEPT !.pc = "drain", !.late = TRUE] \in JobRec
         /\ AfterFailure(q) \in JobRec
<1>1. \A p \in {"new", "spawn", "collect", "drain", "decide", "record", "done", "gone"} :
        /\ [q EXCEPT !.pc = p] \in JobRec
        /\ \A c \in Cmd : [q EXCEPT !.pc = p, !.cmd = c] \in JobRec
        /\ \A v \in {"ok", "err"} : [q EXCEPT !.pc = p, !.verdict = v] \in JobRec
  BY DEF JobRec
<1>2. [q EXCEPT !.pc = "drain", !.late = TRUE] \in JobRec
  BY DEF JobRec
<1> QED BY <1>1, <1>2 DEF AfterFailure

LEMMA ChildMoves ==
  ASSUME NEW c \in ChildRec
  PROVE  /\ \A p \in {"none", "init", "lock", "select", "get", "work", "put", "unlock",
                      "output", "exited", "dead"} :
              /\ [c EXCEPT !.pc = p] \in ChildRec
              /\ \A n \in {0, 1} : [c EXCEPT !.pc = p, !.code = n] \in ChildRec
              /\ \A r \in SUBSET Job :
                   /\ [c EXCEPT !.pc = p, !.read = r] \in ChildRec
                   /\ [c EXCEPT !.pc = p, !.read = r, !.code = 1] \in ChildRec
         /\ [c EXCEPT !.hung = TRUE] \in ChildRec
         /\ [c EXCEPT !.pc = "unlock", !.code = 1, !.unsaved = TRUE] \in ChildRec
         /\ Killed(c) \in ChildRec
<1>1. ASSUME NEW p \in {"none", "init", "lock", "select", "get", "work", "put", "unlock",
                        "output", "exited", "dead"}
      PROVE  /\ [c EXCEPT !.pc = p] \in ChildRec
             /\ \A n \in {0, 1} : [c EXCEPT !.pc = p, !.code = n] \in ChildRec
  BY <1>1 DEF ChildRec
<1>2. ASSUME NEW p \in {"none", "init", "lock", "select", "get", "work", "put", "unlock",
                        "output", "exited", "dead"}, NEW r \in SUBSET Job
      PROVE  /\ [c EXCEPT !.pc = p, !.read = r] \in ChildRec
             /\ [c EXCEPT !.pc = p, !.read = r, !.code = 1] \in ChildRec
  BY <1>2 DEF ChildRec
<1>3. [c EXCEPT !.hung = TRUE] \in ChildRec
      /\ [c EXCEPT !.pc = "unlock", !.code = 1, !.unsaved = TRUE] \in ChildRec
  BY DEF ChildRec
<1>4. Killed(c) \in ChildRec
  <2>1. \A b \in BOOLEAN : [c EXCEPT !.pc = "dead", !.unsaved = b] \in ChildRec
    BY DEF ChildRec
  <2>2. (c.unsaved \/ c.pc = "put") \in BOOLEAN
    OBVIOUS
  <2> QED BY <2>1, <2>2 DEF Killed
<1> QED
  BY <1>1, <1>2, <1>3, <1>4

\* What a kill leaves of a child.
LEMMA KillDoes ==
  ASSUME NEW c \in ChildRec
  PROVE  /\ Killed(c).pc = "dead" /\ Killed(c).read = c.read /\ Killed(c).code = c.code
         /\ Killed(c).unsaved <=> c.unsaved \/ c.pc = "put"
BY DEF Killed, ChildRec

\* The initial state has every part of the invariant: no job has begun.
LEMMA InitInv == Init => LockInv
<1> SUFFICES ASSUME Init PROVE LockInv
  OBVIOUS
<1>1. NewJob \in JobRec /\ NoChild \in ChildRec
  BY DEF NewJob, NoChild, JobRec, ChildRec, Cmd
<1>2. TypeOK
  <2>1. job \in [Job -> JobRec] /\ child \in [Job -> ChildRec]
    <3>1. job = [j \in Job |-> NewJob] /\ child = [j \in Job |-> NoChild]
      BY DEF Init
    <3> QED BY <1>1, <3>1, Zenon
  <2>2. MaxFaults \in Nat
    BY RunAssumption
  <2>3. faults \in 0 .. MaxFaults /\ workspace \in BOOLEAN /\ forced \in BOOLEAN
    <3>1. faults = 0 /\ workspace = FALSE /\ forced = FALSE
      BY DEF Init
    <3>2. workspace \in BOOLEAN /\ forced \in BOOLEAN
      BY <3>1, Zenon
    <3>3. faults \in 0 .. MaxFaults
      BY <2>2, <3>1
    <3> QED BY <3>2, <3>3
  <2>4. runs \in [Job -> {"none", "succeeded", "failed"}]
    BY DEF Init
  <2>5. lock \in Job \cup {NoOne} /\ state \subseteq Job /\ cloud \subseteq Job
    BY DEF Init
  <2> QED BY <2>1, <2>3, <2>4, <2>5 DEF TypeOK
<1>3. \A j \in Job : child[j].pc = "none" /\ ~ child[j].unsaved
  BY DEF Init, NoChild
<1> QED BY <1>2, <1>3 DEF LockInv, Init, OneWriter, InSection, SpawnFree, UnsavedFailed, Workers,
                         ReadsCurrent, Truth, StateTellsTruth, PutsTellTruth

\* Every step of a job, a child, an operator or a crash keeps the types.
LEMMA TypeStep == TypeOK /\ [Next]_vars => TypeOK'
<1> SUFFICES ASSUME TypeOK, [Next]_vars PROVE TypeOK'
  OBVIOUS
<1> DEFINE Rest == /\ workspace' \in BOOLEAN /\ forced' \in BOOLEAN /\ faults' \in 0 .. MaxFaults
                   /\ runs' \in [Job -> {"none", "succeeded", "failed"}]
                   /\ lock' \in Job \cup {NoOne} /\ state' \subseteq Job /\ cloud' \subseteq Job
<1>t. \A j \in Job : job[j] \in JobRec /\ child[j] \in ChildRec
  BY DEF TypeOK
<1>f. ASSUME Fault \/ NoFault PROVE faults' \in 0 .. MaxFaults
  BY <1>f, RunAssumption DEF Fault, NoFault, TypeOK
<1>j. ASSUME NEW j \in Job, NEW rec \in JobRec, SetJob(j, rec), UNCHANGED child, Rest
      PROVE  TypeOK'
  BY <1>j, JobTyped DEF TypeOK
<1>c. ASSUME NEW j \in Job, NEW rec \in ChildRec, SetChild(j, rec), UNCHANGED job, Rest
      PROVE  TypeOK'
  BY <1>c, ChildTyped DEF TypeOK
<1>0. CASE UNCHANGED vars
  BY <1>0 DEF vars, TypeOK
<1> USE DEF serverVars
<1>1. ASSUME NEW j \in Job, BeginProvision(j) PROVE TypeOK'
  <2>1. Rest /\ UNCHANGED child
    BY <1>1, <1>f DEF BeginProvision, TypeOK
  <2>2. \A k \in Kinds : \A c \in Cmd :
          /\ [job[j] EXCEPT !.pc = "spawn", !.kind = k, !.cmd = c] \in JobRec
          /\ [job[j] EXCEPT !.pc = "done", !.kind = k, !.verdict = "err"] \in JobRec
    BY <1>t DEF JobRec
  <2> HIDE DEF Rest
  <2>3. "provision" \in Kinds /\ "init" \in Cmd
    BY <1>1 DEF BeginProvision, Cmd
  <2> QED BY <1>1, <1>j, <2>1, <2>2, <2>3 DEF BeginProvision
<1>2. ASSUME NEW j \in Job, BeginTeardown(j) PROVE TypeOK'
  <2>1. Rest /\ UNCHANGED child
    BY <1>2 DEF BeginTeardown, TypeOK
  <2>2. \A k \in Kinds : \A c \in Cmd :
          /\ [job[j] EXCEPT !.pc = "spawn", !.kind = k, !.cmd = c] \in JobRec
          /\ [job[j] EXCEPT !.pc = "done", !.kind = k, !.verdict = "ok"] \in JobRec
    BY <1>t DEF JobRec
  <2> HIDE DEF Rest
  <2>3. "teardown" \in Kinds /\ "destroy" \in Cmd
    BY <1>2 DEF BeginTeardown, Cmd
  <2> QED BY <1>2, <1>j, <2>1, <2>2, <2>3 DEF BeginTeardown
<1>3. ASSUME NEW j \in Job, Spawn(j) PROVE TypeOK'
  <2>1. Rest
    BY <1>3, <1>f DEF Spawn, TypeOK
  <2>2. [NoChild EXCEPT !.pc = FirstStep(job[j].cmd)] \in ChildRec
    BY DEF NoChild, ChildRec, FirstStep
  <2>3. job' \in [Job -> JobRec]
    BY <1>3, <1>t, JobTyped, JobMoves DEF Spawn
  <2>4. child' \in [Job -> ChildRec]
    BY <1>3, <2>2, ChildTyped DEF Spawn, TypeOK
  <2> QED BY <2>1, <2>3, <2>4 DEF TypeOK
<1>4. ASSUME NEW j \in Job, Collected(j) \/ TimedOut(j) PROVE TypeOK'
  <2>1. Rest /\ UNCHANGED child
    BY <1>4 DEF Collected, TimedOut, TypeOK
  <2> HIDE DEF Rest
  <2> QED BY <1>4, <1>t, <1>j, <2>1, JobMoves DEF Collected, TimedOut
<1>5. ASSUME NEW j \in Job, Drained(j) PROVE TypeOK'
  <2>1. Rest
    BY <1>5 DEF Drained, TypeOK
  <2>2. job' \in [Job -> JobRec]
    BY <1>5, <1>t, JobTyped, JobMoves DEF Drained
  <2>3. child' \in [Job -> ChildRec]
    <3>1. Killed(child[j]) \in ChildRec
      BY <1>t, ChildMoves
    <3> QED BY <1>5, <3>1 DEF Drained, TypeOK
  <2> QED BY <2>1, <2>2, <2>3 DEF TypeOK
<1>6. ASSUME NEW j \in Job, Decide(j) PROVE TypeOK'
  <2>1. Rest /\ UNCHANGED child
    BY <1>6 DEF Decide, TypeOK
  <2>2. \A q \in JobRec : q.cmd \in Cmd
    BY DEF JobRec
  <2>3. \E rec \in JobRec : SetJob(j, rec)
    BY <1>6, <1>t, <2>2, JobMoves DEF Decide, Cmd
  <2> HIDE DEF Rest
  <2> QED BY <1>j, <2>1, <2>3
<1>7. ASSUME NEW j \in Job, Record(j) PROVE TypeOK'
  <2>1. Rest /\ UNCHANGED child
    BY <1>7, <1>f DEF Record, RunStatus, TypeOK
  <2> HIDE DEF Rest
  <2> QED BY <1>7, <1>t, <1>j, <2>1, JobMoves DEF Record
<1>8. ASSUME NEW j \in Job, DropRequest(j) PROVE TypeOK'
  <2>1. Rest /\ UNCHANGED child
    BY <1>8, <1>f DEF DropRequest, TypeOK
  <2> HIDE DEF Rest
  <2> QED BY <1>8, <1>t, <1>j, <2>1, JobMoves DEF DropRequest
<1>9. ASSUME NEW killed \in SUBSET Job, Crash(killed) PROVE TypeOK'
  <2>1. Rest
    BY <1>9, <1>f DEF Crash, TypeOK
  <2>2. \A j \in Job : /\ [job[j] EXCEPT !.pc = "gone"] \in JobRec
                       /\ Killed(child[j]) \in ChildRec
    BY <1>t, JobMoves, ChildMoves
  <2>3. job' \in [Job -> JobRec] /\ child' \in [Job -> ChildRec]
    BY <1>9, <1>t, <2>2 DEF Crash
  <2> QED BY <2>1, <2>3 DEF TypeOK
<1>10. ASSUME NEW j \in Job, LockState(j) PROVE TypeOK'
  <2>1. Rest /\ UNCHANGED job
    BY <1>10, <1>f DEF LockState, TypeOK
  <2>2. child' \in [Job -> ChildRec]
    BY <1>10, <1>t, ChildTyped, ChildMoves DEF LockState, Refused, TypeOK
  <2> QED BY <2>1, <2>2 DEF TypeOK
<1>11. ASSUME NEW j \in Job, SelectHolder(j) \/ GetState(j) PROVE TypeOK'
  <2>1. Rest /\ UNCHANGED job
    BY <1>11, <1>f DEF SelectHolder, GetState, TypeOK
  <2>2. state \in SUBSET Job
    BY DEF TypeOK
  <2> HIDE DEF Rest
  <2> QED BY <1>11, <1>t, <1>c, <2>1, <2>2, ChildMoves DEF SelectHolder, AfterSelect, GetState
<1>12. ASSUME NEW j \in Job, PutState(j) \/ UnlockState(j) PROVE TypeOK'
  <2>1. child[j].read \subseteq Job
    BY <1>t DEF ChildRec
  <2>2. Rest /\ UNCHANGED job
    BY <1>12, <1>f, <2>1 DEF PutState, StateAfterPut, UnlockState, AfterUnlock, TypeOK
  <2> HIDE DEF Rest
  <2> QED BY <1>12, <1>t, <1>c, <2>2, ChildMoves DEF PutState, UnlockState
<1>13. ASSUME NEW j \in Job, Work(j) PROVE TypeOK'
  <2>1. child[j].read \subseteq Job
    BY <1>t DEF ChildRec
  <2>2. Rest /\ UNCHANGED job
    BY <1>13, <1>f, <2>1 DEF Work, TypeOK
  <2>3. \E r \in SUBSET Job : \/ SetChild(j, [child[j] EXCEPT !.pc = "put", !.read = r])
                              \/ SetChild(j, [child[j] EXCEPT !.pc = "put", !.read = r, !.code = 1])
                              \/ SetChild(j, [child[j] EXCEPT !.pc = "put", !.code = 1])
    BY <1>13, <2>1 DEF Work
  <2> HIDE DEF Rest
  <2> QED BY <1>t, <1>c, <2>2, <2>3, ChildMoves
<1>14. ASSUME NEW j \in Job, Simple(j) \/ Hang(j) PROVE TypeOK'
  <2>1. Rest /\ UNCHANGED job
    BY <1>14, <1>f DEF Simple, Hang, TypeOK
  <2> HIDE DEF Rest
  <2> QED BY <1>14, <1>t, <1>c, <2>1, ChildMoves DEF Simple, Hang
<1>15. CASE ForceUnlock \/ DeleteState
  BY <1>15 DEF ForceUnlock, DeleteState, TypeOK
<1> QED
  BY <1>0, <1>1, <1>2, <1>3, <1>4, <1>5, <1>6, <1>7, <1>8, <1>9, <1>10, <1>11, <1>12,
     <1>13, <1>14, <1>15 DEF Next, ServerStep, ChildStep

\* A child's own step is its own, and a failure is not taken back.
LEMMA ChildDoes ==
  ASSUME TypeOK, NEW j \in Job, ChildStep(j) \/ Hang(j)
  PROVE  /\ UNCHANGED job
         /\ \A k \in Job \ {j} : child'[k] = child[k]
         /\ child[j].unsaved => child'[j].unsaved
         /\ child[j].code = 1 => child'[j].code = 1
         /\ child'[j].unsaved => child[j].unsaved \/ child'[j].code = 1
         /\ child[j].pc # "dead"
<1>t. child \in [Job -> ChildRec] /\ child[j] \in ChildRec
  BY DEF TypeOK
<1>1. UNCHANGED job /\ \A k \in Job \ {j} : child'[k] = child[k]
  BY <1>t DEF ChildStep, Simple, LockState, SelectHolder, GetState, Work, PutState,
              UnlockState, Hang, Refused, SetChild, serverVars
<1>2. child[j].pc # "dead"
  BY DEF ChildStep, Simple, LockState, SelectHolder, GetState, Work, PutState,
         UnlockState, Hang, Running
<1>3. \E p, r :
        \/ child'[j] = child[j]
        \/ child'[j] = [child[j] EXCEPT !.pc = p]
        \/ child'[j] = [child[j] EXCEPT !.pc = p, !.code = 1]
        \/ child'[j] = [child[j] EXCEPT !.pc = p, !.read = r]
        \/ child'[j] = [child[j] EXCEPT !.pc = p, !.read = r, !.code = 1]
        \/ child'[j] = [child[j] EXCEPT !.pc = p, !.code = 1, !.unsaved = TRUE]
        \/ child'[j] = [child[j] EXCEPT !.hung = TRUE]
  <2>1. ASSUME NEW rec, SetChild(j, rec) PROVE child'[j] = rec
    BY <1>t, <2>1 DEF SetChild
  <2>2. CASE Simple(j) \/ GetState(j) \/ PutState(j) \/ UnlockState(j) \/ Hang(j)
    BY <2>1, <2>2 DEF Simple, GetState, PutState, UnlockState, Hang
  <2>3. CASE LockState(j) \/ SelectHolder(j)
    BY <2>1, <2>3 DEF LockState, Refused, SelectHolder, AfterSelect
  <2>4. CASE Work(j)
    <3>1. \E r : \/ SetChild(j, [child[j] EXCEPT !.pc = "put", !.read = r])
                 \/ SetChild(j, [child[j] EXCEPT !.pc = "put", !.read = r, !.code = 1])
                 \/ SetChild(j, [child[j] EXCEPT !.pc = "put", !.code = 1])
      BY <2>4 DEF Work
    <3> QED BY <2>1, <3>1
  <2> QED BY <2>2, <2>3, <2>4 DEF ChildStep
<1>4. /\ child[j].unsaved => child'[j].unsaved
      /\ child[j].code = 1 => child'[j].code = 1
      /\ child'[j].unsaved => child[j].unsaved \/ child'[j].code = 1
  BY <1>t, <1>3 DEF ChildRec
<1> QED BY <1>1, <1>2, <1>4

\* The server's own steps touch one job and its child: the child is killed, or a new one is
\* spawned where none runs; a command is chosen only when the last child has stored its put.
LEMMA ServerDoes ==
  ASSUME TypeOK, SpawnFree, UnsavedFailed, NEW j \in Job,
         \/ BeginProvision(j) \/ BeginTeardown(j) \/ ServerStep(j)
         \/ TimedOut(j) \/ DropRequest(j)
  PROVE  /\ UNCHANGED <<lock, state, cloud, forced>>
         /\ \A k \in Job \ {j} : child'[k] = child[k] /\ job'[k] = job[k]
         /\ \/ child'[j] = child[j] \/ child'[j] = Killed(child[j])
            \/ /\ child[j].pc \in {"none", "exited"} /\ ~ child[j].unsaved
               /\ child'[j] = [NoChild EXCEPT !.pc = FirstStep(job[j].cmd)]
         /\ \/ job'[j].cmd = job[j].cmd
            \/ child[j].pc \in {"none", "exited"} /\ ~ child[j].unsaved /\ UNCHANGED child
<1>t. job \in [Job -> JobRec] /\ child \in [Job -> ChildRec] /\ job[j] \in JobRec
  BY DEF TypeOK
<1> USE DEF serverVars
<1>s. UNCHANGED <<lock, state, cloud, forced>>
  BY DEF BeginProvision, BeginTeardown, ServerStep, Spawn, Collected, Drained, Decide, Record,
         TimedOut, DropRequest
<1>o. \A k \in Job \ {j} : child'[k] = child[k] /\ job'[k] = job[k]
  BY <1>t DEF BeginProvision, BeginTeardown, ServerStep, Spawn, Collected, Drained, Decide,
              Record, TimedOut, DropRequest, SetJob, SetChild
<1>e. /\ \A p : [job[j] EXCEPT !.pc = p].cmd = job[j].cmd
      /\ [job[j] EXCEPT !.pc = "drain", !.late = TRUE].cmd = job[j].cmd
      /\ AfterFailure(job[j]).cmd = job[j].cmd
  BY <1>t DEF JobRec, AfterFailure
<1>k. ASSUME NEW rec, SetJob(j, rec), rec.cmd = job[j].cmd PROVE job'[j].cmd = job[j].cmd
  BY <1>t, <1>k DEF SetJob
<1>1. CASE BeginProvision(j) \/ BeginTeardown(j)
  BY <1>1, <1>s, <1>o DEF BeginProvision, BeginTeardown, SpawnFree
<1>2. CASE Decide(j)
  <2>1. UNCHANGED child
    BY <1>2 DEF Decide
  <2>2. CASE Succeeded(j)
    BY <1>s, <1>o, <2>1, <2>2 DEF Succeeded, UnsavedFailed
  <2>3. CASE ~ Succeeded(j)
    BY <1>2, <1>s, <1>o, <1>e, <1>k, <2>1, <2>3 DEF Decide
  <2> QED BY <2>2, <2>3
<1>3. CASE Spawn(j)
  <2>1. child[j].pc \in {"none", "exited"} /\ ~ child[j].unsaved
    BY <1>3 DEF Spawn, SpawnFree
  <2>2. child'[j] = child[j] \/ child'[j] = [NoChild EXCEPT !.pc = FirstStep(job[j].cmd)]
    BY <1>3, <1>t DEF Spawn, SetChild
  <2>3. job'[j].cmd = job[j].cmd
    BY <1>3, <1>e, <1>k DEF Spawn
  <2> QED BY <1>s, <1>o, <2>1, <2>2, <2>3
<1>4. CASE Collected(j) \/ TimedOut(j) \/ Record(j) \/ DropRequest(j)
  <2>1. UNCHANGED child
    BY <1>4 DEF Collected, TimedOut, Record, DropRequest
  <2>2. job'[j].cmd = job[j].cmd
    BY <1>4, <1>e, <1>k DEF Collected, TimedOut, Record, DropRequest
  <2> QED BY <1>s, <1>o, <2>1, <2>2
<1>5. CASE Drained(j)
  <2>1. child'[j] = child[j] \/ child'[j] = Killed(child[j])
    BY <1>5, <1>t DEF Drained
  <2>2. job'[j].cmd = job[j].cmd
    BY <1>5, <1>e, <1>k DEF Drained
  <2> QED BY <1>s, <1>o, <2>1, <2>2
<1> QED BY <1>1, <1>2, <1>3, <1>4, <1>5 DEF ServerStep

\* A crash kills children and lets go of jobs.
LEMMA CrashDoes ==
  ASSUME TypeOK, NEW killed \in SUBSET Job, Crash(killed)
  PROVE  /\ UNCHANGED <<lock, state, cloud, forced>>
         /\ \A k \in Job : child'[k] = child[k] \/ child'[k] = Killed(child[k])
         /\ \A k \in Job : job'[k].cmd = job[k].cmd
<1>1. \A q \in JobRec : [q EXCEPT !.pc = "gone"].cmd = q.cmd
  BY DEF JobRec
<1> QED BY <1>1 DEF Crash, TypeOK, serverVars

\* Only a child that fails or dies leaves its put unstored.
LEMMA UnsavedFailedStep == TypeOK /\ SpawnFree /\ UnsavedFailed /\ [Next]_vars => UnsavedFailed'
<1> SUFFICES ASSUME TypeOK, SpawnFree, UnsavedFailed, [Next]_vars PROVE UnsavedFailed'
  OBVIOUS
<1>k. \A k \in Job : /\ Killed(child[k]).pc = "dead"
                     /\ ~ [NoChild EXCEPT !.pc = FirstStep(job[k].cmd)].unsaved
  BY KillDoes DEF TypeOK, NoChild
<1>0. CASE UNCHANGED child
  BY <1>0 DEF UnsavedFailed
<1>1. ASSUME NEW j \in Job, \/ BeginProvision(j) \/ BeginTeardown(j) \/ ServerStep(j)
                             \/ TimedOut(j) \/ DropRequest(j)
      PROVE  UnsavedFailed'
  <2> SUFFICES ASSUME NEW k \in Job, child'[k].unsaved
               PROVE  child'[k].code = 1 \/ child'[k].pc = "dead"
    BY DEF UnsavedFailed
  <2>1. CASE child'[k] = child[k]
    BY <2>1 DEF UnsavedFailed
  <2>2. CASE child'[k] = Killed(child[k])
    BY <1>k, <2>2
  <2>3. CASE child'[k] = [NoChild EXCEPT !.pc = FirstStep(job[k].cmd)]
    BY <1>k, <2>3
  <2>4. \/ child'[k] = child[k] \/ child'[k] = Killed(child[k])
        \/ child'[k] = [NoChild EXCEPT !.pc = FirstStep(job[k].cmd)]
    BY <1>1, ServerDoes
  <2> QED BY <2>1, <2>2, <2>3, <2>4
<1>2. ASSUME NEW killed \in SUBSET Job, Crash(killed) PROVE UnsavedFailed'
  BY <1>2, <1>k, CrashDoes DEF UnsavedFailed
<1>3. ASSUME NEW j \in Job, ChildStep(j) \/ Hang(j) PROVE UnsavedFailed'
  BY <1>3, ChildDoes DEF UnsavedFailed
<1>4. CASE ForceUnlock \/ DeleteState
  BY <1>0, <1>4 DEF ForceUnlock, DeleteState
<1> QED
  BY <1>0, <1>1, <1>2, <1>3, <1>4 DEF Next, vars

\* A child comes to the lock only by its command, and no command changes under it.
LEMMA WorkersStep == TypeOK /\ SpawnFree /\ UnsavedFailed /\ Workers /\ [Next]_vars => Workers'
<1> SUFFICES ASSUME TypeOK, SpawnFree, UnsavedFailed, Workers, [Next]_vars PROVE Workers'
  OBVIOUS
<1> DEFINE Section == {"lock", "select", "get", "work", "put", "unlock"}
<1>t. \A k \in Job : child[k] \in ChildRec /\ job[k].cmd \in Cmd
  BY DEF TypeOK, JobRec
<1>k. \A k \in Job : /\ Killed(child[k]).pc = "dead"
                     /\ LET fresh == [NoChild EXCEPT !.pc = FirstStep(job[k].cmd)]
                        IN fresh.pc \in Section => job[k].cmd \in {"apply", "destroy"}
  BY <1>t, KillDoes DEF NoChild, FirstStep, Cmd
<1>0. CASE UNCHANGED <<job, child>>
  BY <1>0 DEF Workers
<1>1. ASSUME NEW j \in Job, \/ BeginProvision(j) \/ BeginTeardown(j) \/ ServerStep(j)
                             \/ TimedOut(j) \/ DropRequest(j)
      PROVE  Workers'
  <2> SUFFICES ASSUME NEW k \in Job, child'[k].pc \in Section
               PROVE  job'[k].cmd \in {"apply", "destroy"}
    BY DEF Workers
  <2>1. CASE k # j
    BY <1>1, <2>1, ServerDoes DEF Workers
  <2>2. CASE k = j
    <3>1. job'[k].cmd = job[k].cmd
      BY <1>1, <2>2, ServerDoes
    <3>2. CASE child'[k] = child[k]
      BY <3>1, <3>2 DEF Workers
    <3>3. CASE child'[k] = [NoChild EXCEPT !.pc = FirstStep(job[k].cmd)]
      BY <1>k, <3>1, <3>3
    <3> QED BY <1>1, <1>k, <2>2, <3>2, <3>3, ServerDoes
  <2> QED BY <2>1, <2>2
<1>2. ASSUME NEW killed \in SUBSET Job, Crash(killed) PROVE Workers'
  BY <1>2, <1>k, CrashDoes DEF Workers
<1>3. ASSUME NEW j \in Job, ChildStep(j) \/ Hang(j) PROVE Workers'
  <2>1. UNCHANGED job /\ \A k \in Job \ {j} : child'[k] = child[k]
    BY <1>3, ChildDoes
  <2>2. CASE Simple(j)
    <3>1. \A n \in {0, 1} : /\ [child[j] EXCEPT !.pc = "exited"].pc = "exited"
                            /\ [child[j] EXCEPT !.pc = "exited", !.code = n].pc = "exited"
      BY <1>t DEF ChildRec
    <3>2. \/ child'[j] = [child[j] EXCEPT !.pc = "exited"]
          \/ child'[j] = [child[j] EXCEPT !.pc = "exited", !.code = 1]
      BY <2>2 DEF Simple, SetChild, TypeOK
    <3>3. child'[j].pc = "exited"
      BY <3>1, <3>2
    <3> QED BY <2>1, <3>3 DEF Workers
  <2>3. CASE Hang(j)
    <3>1. child'[j].pc = child[j].pc
      BY <1>t, <2>3 DEF Hang, SetChild, TypeOK, ChildRec
    <3> QED BY <2>1, <3>1 DEF Workers
  <2>4. CASE ~ Simple(j) /\ ~ Hang(j)
    <3>1. child[j].pc \in Section
      BY <1>3, <2>4 DEF ChildStep, LockState, SelectHolder, GetState, Work, PutState, UnlockState,
                        Running
    <3> QED BY <2>1, <3>1 DEF Workers
  <2> QED BY <2>2, <2>3, <2>4
<1>4. CASE ForceUnlock \/ DeleteState
  BY <1>0, <1>4 DEF ForceUnlock, DeleteState
<1> QED
  BY <1>0, <1>1, <1>2, <1>3, <1>4 DEF Next, vars

\* What every step of the server's own does to a child: nothing, a fresh child
\* where none is left, or a death.
LEMMA SpawnFreeStep == TypeOK /\ SpawnFree /\ UnsavedFailed /\ [Next]_vars => SpawnFree'
<1> SUFFICES ASSUME TypeOK, SpawnFree, UnsavedFailed, [Next]_vars PROVE SpawnFree'
  OBVIOUS
<1>t. job \in [Job -> JobRec] /\ child \in [Job -> ChildRec]
  BY DEF TypeOK
<1>q. \A q \in JobRec : \A p \in {"spawn", "collect", "drain", "decide", "record", "done", "gone"} :
        /\ [q EXCEPT !.pc = p].pc = p
        /\ [q EXCEPT !.pc = "drain", !.late = TRUE].pc = "drain"
        /\ \A k, c : [q EXCEPT !.pc = p, !.kind = k, !.cmd = c].pc = p
        /\ \A k, v : [q EXCEPT !.pc = p, !.kind = k, !.verdict = v].pc = p
        /\ \A c : [q EXCEPT !.pc = p, !.cmd = c].pc = p
        /\ \A v : [q EXCEPT !.pc = p, !.verdict = v].pc = p
        /\ AfterFailure(q).pc \in {"done", "record"}
  BY DEF JobRec, AfterFailure
<1>j. ASSUME NEW j \in Job, NEW rec, SetJob(j, rec), UNCHANGED child,
             rec.pc \in {"new", "spawn"} => child[j].pc \in {"none", "exited"} /\ ~ child[j].unsaved
      PROVE  SpawnFree'
  BY <1>j, <1>t DEF SetJob, SpawnFree
<1>0. CASE UNCHANGED vars
  BY <1>0 DEF vars, SpawnFree
<1> USE DEF serverVars
<1>1. ASSUME NEW j \in Job, BeginProvision(j) \/ BeginTeardown(j) PROVE SpawnFree'
  BY <1>1, <1>t, <1>j DEF BeginProvision, BeginTeardown, SpawnFree
<1>3. ASSUME NEW j \in Job, Spawn(j) PROVE SpawnFree'
  <2>1. job'[j].pc \in {"collect", "done", "record"}
    <3>1. SetJob(j, [job[j] EXCEPT !.pc = "collect"]) \/ SetJob(j, AfterFailure(job[j]))
      BY <1>3 DEF Spawn
    <3>2. job[j] \in JobRec
      BY <1>t
    <3>3. [job[j] EXCEPT !.pc = "collect"].pc = "collect"
      BY <3>2 DEF JobRec
    <3>4. AfterFailure(job[j]).pc \in {"done", "record"}
      BY <1>q, <3>2
    <3> QED BY <1>t, <3>1, <3>3, <3>4 DEF SetJob
  <2>2. \A k \in Job \ {j} : job'[k] = job[k] /\ child'[k] = child[k]
    BY <1>3, <1>t DEF Spawn, SetJob, SetChild
  <2> QED BY <2>1, <2>2 DEF SpawnFree
<1>4. ASSUME NEW j \in Job, Collected(j) \/ TimedOut(j) \/ Record(j) \/ DropRequest(j)
      PROVE  SpawnFree'
  <2>1. UNCHANGED child
    BY <1>4 DEF Collected, TimedOut, Record, DropRequest
  <2>2. job'[j].pc \in {"drain", "done", "gone"}
    <3>1. \/ SetJob(j, [job[j] EXCEPT !.pc = "drain"])
          \/ SetJob(j, [job[j] EXCEPT !.pc = "drain", !.late = TRUE])
          \/ SetJob(j, [job[j] EXCEPT !.pc = "done"])
          \/ SetJob(j, [job[j] EXCEPT !.pc = "gone"])
      BY <1>4 DEF Collected, TimedOut, Record, DropRequest
    <3> QED BY <1>t, <3>1 DEF SetJob, JobRec
  <2>3. \A k \in Job \ {j} : job'[k] = job[k]
    BY <1>4, <1>t DEF Collected, TimedOut, Record, DropRequest, SetJob
  <2> QED BY <2>1, <2>2, <2>3 DEF SpawnFree
<1>5. ASSUME NEW j \in Job, Drained(j) PROVE SpawnFree'
  <2>1. job'[j].pc = "decide"
    BY <1>5, <1>t, <1>q DEF Drained, SetJob
  <2>2. \A k \in Job \ {j} : job'[k] = job[k] /\ child'[k] = child[k]
    BY <1>5, <1>t DEF Drained, SetJob
  <2> QED BY <2>1, <2>2 DEF SpawnFree
<1>6. ASSUME NEW j \in Job, Decide(j) PROVE SpawnFree'
  <2>1. UNCHANGED child
    BY <1>6 DEF Decide
  <2>2. job[j] \in JobRec /\ job[j].cmd \in Cmd
    BY <1>t DEF JobRec
  <2>3. \A k \in Job \ {j} : job'[k] = job[k]
    BY <1>6, <1>t DEF Decide, SetJob
  <2>4. CASE ~ Succeeded(j)
    <3>1. SetJob(j, AfterFailure(job[j]))
      BY <1>6, <2>4 DEF Decide
    <3>2. AfterFailure(job[j]).pc \in {"done", "record"}
      BY <1>q, <2>2
    <3>3. job'[j].pc \in {"done", "record"}
      BY <1>t, <3>1, <3>2 DEF SetJob
    <3> QED BY <2>1, <2>3, <3>3 DEF SpawnFree
  <2>5. CASE Succeeded(j)
    <3>1. child[j].pc = "exited" /\ ~ child[j].unsaved
      BY <2>5 DEF Succeeded, UnsavedFailed
    <3> QED BY <2>1, <2>3, <3>1 DEF SpawnFree
  <2> QED BY <2>4, <2>5
<1>9. ASSUME NEW killed \in SUBSET Job, Crash(killed) PROVE SpawnFree'
  <2>1. \A j \in Job : /\ Active(j) => job'[j].pc = "gone"
                       /\ ~ Active(j) => job'[j] = job[j]
    BY <1>9, <1>t, <1>q DEF Crash
  <2>2. \A j \in Job : child'[j] = child[j] \/ child[j].pc \notin {"none", "exited"}
    BY <1>9, <1>t DEF Crash, Ended
  <2> QED BY <2>1, <2>2 DEF SpawnFree, Active
<1>10. ASSUME NEW j \in Job, ChildStep(j) \/ Hang(j) PROVE SpawnFree'
  <2>1. UNCHANGED job /\ child[j].pc \notin {"none", "exited"}
    BY <1>10 DEF ChildStep, Simple, LockState, SelectHolder, GetState, Work, PutState,
                 UnlockState, Hang, Running
  <2>2. \A k \in Job \ {j} : child'[k] = child[k]
    BY <1>10, <1>t DEF ChildStep, Simple, LockState, SelectHolder, GetState, Work, PutState,
                       UnlockState, Hang, Refused, SetChild
  <2> QED BY <2>1, <2>2 DEF SpawnFree
<1>11. CASE ForceUnlock \/ DeleteState
  BY <1>11 DEF ForceUnlock, DeleteState, SpawnFree
<1> QED
  BY <1>0, <1>1, <1>3, <1>4, <1>5, <1>6, <1>9, <1>10, <1>11 DEF Next, ServerStep

----------------------------------------------------------------------------
(* The sections: what OneWriter and ReadsCurrent say of the children, the lock
   and the state. *)

Sections == OneWriter /\ ReadsCurrent
shared   == <<lock, state, forced>>

Outside == {"none", "init", "lock", "select", "output", "exited"}

\* A child that moves outside its section disturbs nobody.
LEMMA OutsideMove ==
  ASSUME Sections, NEW j \in Job, UNCHANGED shared,
         child[j].pc \in Outside, child'[j].pc \in Outside,
         \A k \in Job \ {j} : child'[k] = child[k]
  PROVE  Sections'
BY DEF Sections, shared, Outside, OneWriter, InSection, ReadsCurrent

\* Neither does a death.
LEMMA Deaths ==
  ASSUME Sections, UNCHANGED shared,
         \A k \in Job : child'[k] = child[k] \/ child'[k].pc = "dead"
  PROVE  Sections'
BY DEF Sections, shared, OneWriter, InSection, ReadsCurrent

\* What the server does itself leaves the sections alone.
LEMMA ServerSections ==
  ASSUME TypeOK, SpawnFree, Sections, NEW j \in Job,
         \/ BeginProvision(j) \/ BeginTeardown(j) \/ ServerStep(j)
         \/ TimedOut(j) \/ DropRequest(j)
  PROVE  Sections'
<1>t. child \in [Job -> ChildRec]
  BY DEF TypeOK
<1>1. ASSUME UNCHANGED child, UNCHANGED shared PROVE Sections'
  BY <1>1, Deaths
<1>2. CASE BeginProvision(j) \/ BeginTeardown(j) \/ Collected(j) \/ Decide(j) \/ Record(j)
           \/ TimedOut(j) \/ DropRequest(j)
  BY <1>1, <1>2 DEF BeginProvision, BeginTeardown, Collected, Decide, Record, TimedOut,
                    DropRequest, serverVars, shared
<1>3. CASE Spawn(j)
  <2>1. UNCHANGED shared
    BY <1>3 DEF Spawn, serverVars, shared
  <2>2. child[j].pc \in Outside
    BY <1>3 DEF Spawn, SpawnFree, Outside
  <2>3. CASE UNCHANGED child
    BY <1>1, <2>1, <2>3
  <2>4. CASE SetChild(j, [NoChild EXCEPT !.pc = FirstStep(job[j].cmd)])
    <3>1. child'[j].pc \in Outside /\ \A k \in Job \ {j} : child'[k] = child[k]
      BY <1>t, <2>4 DEF SetChild, NoChild, FirstStep, Outside
    <3> QED BY <2>1, <2>2, <3>1, OutsideMove
  <2> QED BY <1>3, <2>3, <2>4 DEF Spawn
<1>4. CASE Drained(j)
  <2>1. UNCHANGED shared
    BY <1>4 DEF Drained, serverVars, shared
  <2>2. \A k \in Job : child'[k] = child[k] \/ child'[k].pc = "dead"
    <3>1. child' = child \/ child' = [child EXCEPT ![j] = Killed(child[j])]
      BY <1>4 DEF Drained
    <3>2. Killed(child[j]).pc = "dead"
      BY <1>t, KillDoes
    <3> QED BY <1>t, <3>1, <3>2
  <2> QED BY <2>1, <2>2, Deaths
<1> QED BY <1>2, <1>3, <1>4 DEF ServerStep

\* A child's own steps: the lock is free before it enters, and it alone is in
\* its section when it works, puts and unlocks.
LEMMA ChildSections ==
  ASSUME TypeOK, Sections, NEW j \in Job, ChildStep(j) \/ Hang(j)
  PROVE  Sections'
<1>t. child \in [Job -> ChildRec] /\ child[j] \in ChildRec /\ state \subseteq Job
  BY DEF TypeOK
<1>p. ASSUME NEW p, SetChild(j, [child[j] EXCEPT !.pc = p])
      PROVE  child'[j].pc = p /\ \A k \in Job \ {j} : child'[k] = child[k]
  BY <1>t, <1>p DEF SetChild, ChildRec
<1>x. ASSUME NEW p, SetChild(j, [child[j] EXCEPT !.pc = p, !.code = 1])
      PROVE  /\ child'[j].pc = p /\ child'[j].read = child[j].read
             /\ \A k \in Job \ {j} : child'[k] = child[k]
  BY <1>t, <1>x DEF SetChild, ChildRec
<1>r. ASSUME NEW r, \/ SetChild(j, [child[j] EXCEPT !.pc = "put", !.read = r])
                    \/ SetChild(j, [child[j] EXCEPT !.pc = "put", !.read = r, !.code = 1])
      PROVE  /\ child'[j].pc = "put" /\ child'[j].read = r
             /\ \A k \in Job \ {j} : child'[k] = child[k]
  <2>1. CASE SetChild(j, [child[j] EXCEPT !.pc = "put", !.read = r])
    BY <1>t, <2>1 DEF SetChild, ChildRec
  <2>2. CASE SetChild(j, [child[j] EXCEPT !.pc = "put", !.read = r, !.code = 1])
    BY <1>t, <2>2 DEF SetChild, ChildRec
  <2> QED BY <1>r, <2>1, <2>2
<1> USE DEF serverVars
<1>1. CASE Simple(j)
  <2>1. child'[j].pc = "exited" /\ \A k \in Job \ {j} : child'[k] = child[k]
    <3>1. \/ SetChild(j, [child[j] EXCEPT !.pc = "exited"])
          \/ SetChild(j, [child[j] EXCEPT !.pc = "exited", !.code = 1])
      BY <1>1 DEF Simple
    <3> QED BY <3>1, <1>p, <1>x
  <2>2. child[j].pc \in Outside /\ child'[j].pc \in Outside /\ UNCHANGED shared
    BY <1>1, <2>1 DEF Simple, Running, Outside, shared
  <2> QED BY <2>1, <2>2, OutsideMove
<1>2. CASE SelectHolder(j)
  <2>1. /\ child'[j].pc \in {"lock", "exited"}
        /\ \A k \in Job \ {j} : child'[k] = child[k]
    <3>1. \/ SetChild(j, [child[j] EXCEPT !.pc = "lock"])
          \/ SetChild(j, [child[j] EXCEPT !.pc = "exited", !.code = 1])
      BY <1>2 DEF SelectHolder, AfterSelect
    <3> QED BY <1>p, <1>x, <3>1
  <2>2. child[j].pc \in Outside /\ child'[j].pc \in Outside /\ UNCHANGED shared
    BY <1>2, <2>1 DEF SelectHolder, Running, Outside, shared
  <2> QED BY <2>1, <2>2, OutsideMove
<1>3. CASE LockState(j)
  <2>0. child[j].pc = "lock" /\ UNCHANGED <<state, cloud, forced>>
    BY <1>3 DEF LockState, Running
  <2>1. CASE ~ LockFree
    <3>1. /\ child'[j].pc \in {"select", "exited"}
          /\ \A k \in Job \ {j} : child'[k] = child[k]
      <4>1. \/ SetChild(j, [child[j] EXCEPT !.pc = "select"])
            \/ SetChild(j, [child[j] EXCEPT !.pc = "exited", !.code = 1])
        BY <1>3, <2>1 DEF LockState, Refused
      <4> QED BY <1>p, <1>x, <4>1
    <3>2. child[j].pc \in Outside /\ child'[j].pc \in Outside /\ UNCHANGED shared
      BY <1>3, <2>1, <3>1, <2>0 DEF LockState, Outside, shared
    <3> QED BY <3>1, <3>2, OutsideMove
  <2>2. CASE LockFree
    <3>1. lock' = j /\ (child' = child \/ SetChild(j, [child[j] EXCEPT !.pc = "get"]))
      BY <1>3, <2>2 DEF LockState
    <3>2. child'[j].pc \in {"lock", "get"} /\ \A k \in Job \ {j} : child'[k] = child[k]
      BY <1>t, <2>0, <3>1 DEF SetChild, ChildRec
    <3>3. ~ forced => \A k \in Job : ~ InSection(k)
      BY <2>2, NoOneAssumption DEF Sections, OneWriter, LockFree
    <3> QED BY <2>0, <3>1, <3>2, <3>3 DEF Sections, OneWriter, InSection, ReadsCurrent
  <2> QED BY <2>1, <2>2
<1>4. CASE GetState(j)
  <2>1. child[j].pc = "get" /\ UNCHANGED shared
    BY <1>4 DEF GetState, Running, shared
  <2>2. /\ child'[j].pc = "unlock" \/ (child'[j].pc = "work" /\ child'[j].read = state)
        /\ \A k \in Job \ {j} : child'[k] = child[k]
    <3>1. CASE SetChild(j, [child[j] EXCEPT !.pc = "work", !.read = state])
      BY <1>t, <3>1 DEF SetChild, ChildRec
    <3>2. CASE SetChild(j, [child[j] EXCEPT !.pc = "unlock", !.code = 1])
      BY <1>x, <3>2
    <3> QED BY <1>4, <3>1, <3>2 DEF GetState
  <2> QED BY <2>1, <2>2 DEF Sections, OneWriter, InSection, ReadsCurrent, shared
<1>5. CASE Work(j)
  <2>1. child[j].pc = "work" /\ UNCHANGED shared
    BY <1>5 DEF Work, Running, shared
  <2>2. child'[j].pc = "put" /\ \A k \in Job \ {j} : child'[k] = child[k]
    BY <1>5, <1>r, <1>x DEF Work
  <2> QED BY <2>1, <2>2 DEF Sections, OneWriter, InSection, ReadsCurrent, shared
<1>6. CASE PutState(j)
  <2>1. child[j].pc = "put" /\ UNCHANGED <<lock, forced>>
    BY <1>6 DEF PutState, Running
  <2>2. child'[j].pc = "unlock" /\ \A k \in Job \ {j} : child'[k] = child[k]
    <3>1. CASE SetChild(j, [child[j] EXCEPT !.pc = "unlock", !.code = 1, !.unsaved = TRUE])
      BY <1>t, <3>1 DEF SetChild, ChildRec
    <3> QED BY <1>6, <1>p, <1>x, <3>1 DEF PutState
  <2>3. ~ forced => \A k \in Job \ {j} : ~ InSection(k)
    BY <2>1 DEF Sections, OneWriter, InSection
  <2> QED BY <2>1, <2>2, <2>3 DEF Sections, OneWriter, InSection, ReadsCurrent
<1>7. CASE UnlockState(j)
  <2>1. child[j].pc = "unlock" /\ UNCHANGED <<state, forced>>
    BY <1>7 DEF UnlockState, Running
  <2>2. child'[j].pc = "exited" /\ \A k \in Job \ {j} : child'[k] = child[k]
    BY <1>7, <1>p, <1>x DEF UnlockState
  <2>3. ~ forced => \A k \in Job \ {j} : ~ InSection(k)
    BY <2>1 DEF Sections, OneWriter, InSection
  <2> QED BY <2>1, <2>2, <2>3 DEF Sections, OneWriter, InSection, ReadsCurrent
<1>8. CASE Hang(j)
  <2>1. UNCHANGED shared
    BY <1>8 DEF Hang, shared
  <2>2. /\ child'[j].pc = child[j].pc /\ child'[j].read = child[j].read
        /\ \A k \in Job \ {j} : child'[k] = child[k]
    BY <1>8, <1>t DEF Hang, SetChild, ChildRec
  <2> QED BY <2>1, <2>2 DEF Sections, OneWriter, InSection, ReadsCurrent, shared
<1> QED BY <1>1, <1>2, <1>3, <1>4, <1>5, <1>6, <1>7, <1>8 DEF ChildStep

\* A crash and an operator: the one only kills, the other sets `forced'.
LEMMA SectionStep == TypeOK /\ SpawnFree /\ Sections /\ [Next]_vars => Sections'
<1> SUFFICES ASSUME TypeOK, SpawnFree, Sections, [Next]_vars PROVE Sections'
  OBVIOUS
<1>1. CASE UNCHANGED vars
  BY <1>1, Deaths DEF vars, shared
<1>2. ASSUME NEW killed \in SUBSET Job, Crash(killed) PROVE Sections'
  <2>1. UNCHANGED shared
    BY <1>2 DEF Crash, serverVars, shared
  <2>2. \A k \in Job : child[k] \in ChildRec
    BY DEF TypeOK
  <2>3. \A k \in Job : Killed(child[k]).pc = "dead"
    BY <2>2, KillDoes
  <2>4. \A k \in Job : child'[k] = child[k] \/ child'[k].pc = "dead"
    BY <1>2, <2>3 DEF Crash, TypeOK
  <2> QED BY <2>1, <2>4, Deaths
<1>3. CASE ForceUnlock \/ DeleteState
  BY <1>3 DEF ForceUnlock, DeleteState, Sections, OneWriter, ReadsCurrent
<1> QED BY <1>1, <1>2, <1>3, ServerSections, ChildSections DEF Next

----------------------------------------------------------------------------
(* What the state and the puts to come say of the cloud. *)

\* Nothing that leaves state, cloud and puts alone, and forgets no unstored put and no
\* command of its job, makes them untrue.
LEMMA TruthKept ==
  ASSUME TypeOK, Truth, UNCHANGED <<state, cloud, forced>>,
         \A k \in Job : /\ child'[k].pc = "put" => child[k].pc = "put" /\ child'[k].read = child[k].read
                        /\ child[k].unsaved => child'[k].unsaved
                        /\ child[k].pc = "put" => child'[k].pc = "put" \/ child'[k].unsaved
                        /\ Unsaved(k) => job'[k].cmd = job[k].cmd
  PROVE  Truth'
<1>1. \A k \in Job : Unsaved(k) => Unsaved(k)'
  BY DEF Unsaved
<1>2. StateTellsTruth'
  <2>1. cloud \subseteq Job
    BY DEF TypeOK
  <2> QED BY <1>1, <2>1 DEF Truth, StateTellsTruth
<1>3. PutsTellTruth'
  <2> SUFFICES ASSUME ~ forced, NEW j \in Job, child'[j].pc = "put"
               PROVE  /\ \A i \in cloud \ child[j].read : child'[i].unsaved
                      /\ child[j].read \ cloud # {} =>
                           \E i \in Job : child'[i].unsaved /\ job'[i].cmd = "destroy"
    BY DEF PutsTellTruth
  <2>1. /\ \A i \in cloud \ child[j].read : child[i].unsaved
        /\ child[j].read \ cloud # {} => \E i \in Job : child[i].unsaved /\ job[i].cmd = "destroy"
    BY DEF Truth, PutsTellTruth
  <2>2. \A i \in Job : child[i].unsaved => child'[i].unsaved /\ job'[i].cmd = job[i].cmd
    BY DEF Unsaved
  <2>3. cloud \subseteq Job
    BY DEF TypeOK
  <2> QED BY <2>1, <2>2, <2>3
<1> QED BY <1>2, <1>3 DEF Truth

\* The server's own steps forget no unstored put.
LEMMA ServerTruth ==
  ASSUME TypeOK, SpawnFree, UnsavedFailed, Truth, NEW j \in Job,
         \/ BeginProvision(j) \/ BeginTeardown(j) \/ ServerStep(j)
         \/ TimedOut(j) \/ DropRequest(j)
  PROVE  Truth'
<1>1. [NoChild EXCEPT !.pc = FirstStep(job[j].cmd)].pc # "put"
  BY DEF NoChild, FirstStep
<1>2. \A k \in Job : child[k] \in ChildRec
  BY DEF TypeOK
<1>3. UNCHANGED <<state, cloud, forced>>
  BY ServerDoes
<1>4. \A k \in Job : /\ child'[k].pc = "put" => child[k].pc = "put" /\ child'[k].read = child[k].read
                     /\ child[k].unsaved => child'[k].unsaved
                     /\ child[k].pc = "put" => child'[k].pc = "put" \/ child'[k].unsaved
                     /\ Unsaved(k) => job'[k].cmd = job[k].cmd
  <2> SUFFICES ASSUME NEW k \in Job
               PROVE  /\ child'[k].pc = "put" => child[k].pc = "put" /\ child'[k].read = child[k].read
                      /\ child[k].unsaved => child'[k].unsaved
                      /\ child[k].pc = "put" => child'[k].pc = "put" \/ child'[k].unsaved
                      /\ Unsaved(k) => job'[k].cmd = job[k].cmd
    OBVIOUS
  <2>1. Unsaved(k) => job'[k].cmd = job[k].cmd
    BY ServerDoes DEF Unsaved
  <2>2. CASE child'[k] = child[k]
    BY <2>1, <2>2
  <2>3. CASE child'[k] = Killed(child[k])
    BY <1>2, <2>1, <2>3, KillDoes
  <2>4. CASE k = j /\ child[j].pc \in {"none", "exited"} /\ ~ child[j].unsaved
             /\ child'[j] = [NoChild EXCEPT !.pc = FirstStep(job[j].cmd)]
    BY <1>1, <2>1, <2>4
  <2> QED BY <2>2, <2>3, <2>4, ServerDoes
<1> QED BY <1>3, <1>4, TruthKept

\* A child's own: what it puts is what it found, less or more what it did.
LEMMA ChildTruth ==
  ASSUME TypeOK, Workers, Sections, Truth, NEW j \in Job, ChildStep(j) \/ Hang(j)
  PROVE  Truth'
<1>t. child \in [Job -> ChildRec] /\ child[j] \in ChildRec /\ cloud \subseteq Job
  BY DEF TypeOK
<1> USE DEF serverVars
<1>m. UNCHANGED job /\ \A k \in Job \ {j} : child'[k] = child[k]
  BY ChildDoes
<1>o. \A k \in Job \ {j} : child'[k] = child[k]
  BY <1>m
<1>e. ASSUME NEW rec, SetChild(j, rec) PROVE child'[j] = rec
  BY <1>t, <1>e DEF SetChild
<1>1. CASE Simple(j) \/ LockState(j) \/ SelectHolder(j) \/ GetState(j) \/ UnlockState(j)
  <2>0. child[j].unsaved => child'[j].unsaved
    BY <1>1, ChildDoes DEF ChildStep
  <2>1. UNCHANGED <<state, cloud, forced>> /\ child[j].pc # "put"
    BY <1>1 DEF Simple, LockState, SelectHolder, GetState, UnlockState, Running
  <2>2. /\ \A p \in {"exited", "unlock", "get", "select", "lock"} :
             [child[j] EXCEPT !.pc = p].pc # "put" /\ [child[j] EXCEPT !.pc = p, !.code = 1].pc # "put"
        /\ [child[j] EXCEPT !.pc = "work", !.read = state].pc # "put"
    BY <1>t DEF ChildRec
  <2>3. child'[j].pc # "put"
    <3>1. CASE Simple(j) \/ UnlockState(j) \/ GetState(j)
      BY <1>e, <2>2, <3>1 DEF Simple, UnlockState, GetState
    <3>2. CASE LockState(j)
      BY <1>e, <2>1, <2>2, <3>2 DEF LockState, Refused
    <3>3. CASE SelectHolder(j)
      BY <1>e, <2>2, <3>3 DEF SelectHolder, AfterSelect
    <3> QED BY <1>1, <3>1, <3>2, <3>3
  <2> QED BY <1>m, <1>o, <2>0, <2>1, <2>3, TruthKept
<1>2. CASE Hang(j)
  <2>1. UNCHANGED <<state, cloud, forced>>
    BY <1>2 DEF Hang
  <2>2. child'[j] = [child[j] EXCEPT !.hung = TRUE]
    BY <1>2, <1>t DEF Hang, SetChild
  <2>3. child'[j].pc = child[j].pc /\ child'[j].read = child[j].read
        /\ child'[j].unsaved = child[j].unsaved
    BY <1>t, <2>2 DEF ChildRec
  <2> QED BY <1>m, <1>o, <2>1, <2>3, TruthKept
<1>3. CASE Work(j)
  <2> SUFFICES ASSUME ~ forced PROVE Truth'
    BY <1>3 DEF Work, Truth, StateTellsTruth, PutsTellTruth
  <2>1. child[j].pc = "work" /\ UNCHANGED <<lock, state, forced>>
    BY <1>3 DEF Work, Running
  <2>2. child[j].read = state
    BY <2>1 DEF Sections, ReadsCurrent
  <2>3. \A k \in Job \ {j} : child[k].pc # "put"
    BY <2>1 DEF Sections, OneWriter, InSection
  <2>4. /\ \A i \in cloud \ state : child[i].unsaved
        /\ state \ cloud # {} => \E i \in Job : child[i].unsaved /\ job[i].cmd = "destroy"
    BY <1>t, <2>1, <2>3 DEF Truth, StateTellsTruth, Unsaved
  <2> DEFINE seen == state \cap cloud
             made == IF seen = {} THEN {j} ELSE {}
  <2>5. PICK r : /\ child'[j].pc = "put" /\ child'[j].read = r
                 /\ child'[j].unsaved = child[j].unsaved
                 /\ \/ r = state /\ cloud' = cloud
                    \/ job[j].cmd = "apply" /\ r = seen \cup made /\ cloud' = cloud \cup made
                    \/ job[j].cmd # "apply" /\ r = {} /\ cloud' = cloud \ seen
    <3>1. CASE cloud' = cloud /\ SetChild(j, [child[j] EXCEPT !.pc = "put", !.code = 1])
      <4>1. child'[j] = [child[j] EXCEPT !.pc = "put", !.code = 1]
        BY <1>e, <3>1
      <4> QED BY <1>t, <2>2, <3>1, <4>1 DEF ChildRec
    <3>2. ASSUME NEW r, NEW cl, cloud' = cl,
                 \/ SetChild(j, [child[j] EXCEPT !.pc = "put", !.read = r])
                 \/ SetChild(j, [child[j] EXCEPT !.pc = "put", !.read = r, !.code = 1]),
                 \/ job[j].cmd = "apply" /\ r = seen \cup made /\ cl = cloud \cup made
                 \/ job[j].cmd # "apply" /\ r = {} /\ cl = cloud \ seen
          PROVE  /\ child'[j].pc = "put" /\ child'[j].read = r
                 /\ child'[j].unsaved = child[j].unsaved
      <4> HIDE DEF seen, made
      <4>1. \/ child'[j] = [child[j] EXCEPT !.pc = "put", !.read = r]
            \/ child'[j] = [child[j] EXCEPT !.pc = "put", !.read = r, !.code = 1]
        BY <1>e, <3>2
      <4>2. CASE child'[j] = [child[j] EXCEPT !.pc = "put", !.read = r]
        BY <1>t, <4>2 DEF ChildRec
      <4>3. CASE child'[j] = [child[j] EXCEPT !.pc = "put", !.read = r, !.code = 1]
        BY <1>t, <4>3 DEF ChildRec
      <4> QED BY <4>1, <4>2, <4>3
    <3>3. CASE job[j].cmd = "apply"
      <4>1. \/ cloud' = cloud /\ SetChild(j, [child[j] EXCEPT !.pc = "put", !.code = 1])
            \/ /\ cloud' = cloud \cup made
               /\ \/ SetChild(j, [child[j] EXCEPT !.pc = "put", !.read = seen \cup made])
                  \/ SetChild(j, [child[j] EXCEPT !.pc = "put", !.read = seen \cup made, !.code = 1])
        BY <1>3, <2>2, <3>3, Zenon DEF Work
      <4> HIDE DEF seen, made
      <4> QED BY <3>1, <3>2, <3>3, <4>1
    <3>4. CASE job[j].cmd # "apply"
      <4>1. \/ cloud' = cloud /\ SetChild(j, [child[j] EXCEPT !.pc = "put", !.code = 1])
            \/ /\ cloud' = cloud \ seen
               /\ \/ SetChild(j, [child[j] EXCEPT !.pc = "put", !.read = {}])
                  \/ SetChild(j, [child[j] EXCEPT !.pc = "put", !.read = {}, !.code = 1])
        BY <1>3, <2>2, <3>4, Zenon DEF Work
      <4> HIDE DEF seen, made
      <4> QED BY <3>1, <3>2, <3>4, <4>1
    <3> QED BY <3>3, <3>4
  <2>6. Unsaved(j)' /\ \A k \in Job : child'[k].unsaved = child[k].unsaved
    BY <1>o, <2>5 DEF Unsaved
  <2>7. /\ \A i \in cloud' \ r : child[i].unsaved
        /\ r \ cloud' # {} => \E i \in Job : child[i].unsaved /\ job[i].cmd = "destroy"
    BY <2>4, <2>5
  <2>8. /\ \A i \in cloud' \ state : child[i].unsaved \/ i = j
        /\ state \ cloud' # {} => \/ \E i \in Job : child[i].unsaved /\ job[i].cmd = "destroy"
                                 \/ job[j].cmd # "apply"
    BY <2>4, <2>5
  <2>9. StateTellsTruth'
    <3>1. \A i \in Job : child[i].unsaved => Unsaved(i)'
      BY <2>6 DEF Unsaved
    <3>2. cloud' \subseteq Job
      BY <1>t, <2>5
    <3>3. job[j].cmd # "apply" => job[j].cmd = "destroy"
      BY <2>1 DEF Workers
    <3> QED BY <1>m, <2>1, <2>6, <2>8, <3>1, <3>2, <3>3 DEF StateTellsTruth
  <2>10. PutsTellTruth'
    <3>1. \A k \in Job : child'[k].pc = "put" => k = j
      BY <1>o, <2>3
    <3>2. cloud' \subseteq Job
      BY <1>t, <2>5
    <3> QED BY <1>m, <2>5, <2>6, <2>7, <3>1, <3>2 DEF PutsTellTruth
  <2> QED BY <2>9, <2>10 DEF Truth
<1>4. CASE PutState(j)
  <2> SUFFICES ASSUME ~ forced PROVE Truth'
    BY <1>4 DEF PutState, Truth, StateTellsTruth, PutsTellTruth
  <2>1. child[j].pc = "put" /\ UNCHANGED <<lock, forced, cloud>>
    BY <1>4 DEF PutState, Running
  <2>2. \A k \in Job \ {j} : child[k].pc # "put"
    BY <2>1 DEF Sections, OneWriter, InSection
  <2>3. CASE state' = child[j].read /\ child'[j].pc = "unlock"
             /\ child'[j].unsaved = child[j].unsaved
    <3>1. \A k \in Job : child'[k].unsaved = child[k].unsaved /\ child'[k].pc # "put"
      BY <1>o, <2>2, <2>3
    <3>2. /\ \A i \in cloud \ state' : child[i].unsaved
          /\ state' \ cloud # {} => \E i \in Job : child[i].unsaved /\ job[i].cmd = "destroy"
      BY <2>1, <2>3 DEF Truth, PutsTellTruth
    <3> QED BY <1>t, <1>m, <2>1, <3>1, <3>2 DEF Truth, StateTellsTruth, PutsTellTruth, Unsaved
  <2>4. CASE state' = state /\ child'[j].pc = "unlock" /\ child'[j].unsaved
    BY <1>m, <1>o, <2>1, <2>4, TruthKept
  <2>5. \/ state' = child[j].read /\ child'[j].pc = "unlock" /\ child'[j].unsaved = child[j].unsaved
        \/ state' = state /\ child'[j].pc = "unlock" /\ child'[j].unsaved
    <3>1. CASE SetChild(j, [child[j] EXCEPT !.pc = "unlock", !.code = 1, !.unsaved = TRUE])
               /\ state' = state
      BY <1>t, <3>1 DEF SetChild, ChildRec
    <3>2. CASE /\ \/ SetChild(j, [child[j] EXCEPT !.pc = "unlock"])
                  \/ SetChild(j, [child[j] EXCEPT !.pc = "unlock", !.code = 1])
               /\ state' = child[j].read
      <4>1. \/ child'[j] = [child[j] EXCEPT !.pc = "unlock"]
            \/ child'[j] = [child[j] EXCEPT !.pc = "unlock", !.code = 1]
        BY <1>e, <3>2
      <4>2. CASE child'[j] = [child[j] EXCEPT !.pc = "unlock"]
        BY <1>t, <3>2, <4>2 DEF ChildRec
      <4>3. CASE child'[j] = [child[j] EXCEPT !.pc = "unlock", !.code = 1]
        BY <1>t, <3>2, <4>3 DEF ChildRec
      <4> QED BY <4>1, <4>2, <4>3
    <3> QED BY <1>4, <3>1, <3>2 DEF PutState, StateAfterPut
  <2> QED BY <2>3, <2>4, <2>5
<1> QED BY <1>1, <1>2, <1>3, <1>4 DEF ChildStep

LEMMA TruthStep ==
  TypeOK /\ SpawnFree /\ UnsavedFailed /\ Workers /\ Sections /\ Truth /\ [Next]_vars => Truth'
<1> SUFFICES ASSUME TypeOK, SpawnFree, UnsavedFailed, Workers, Sections, Truth, [Next]_vars PROVE Truth'
  OBVIOUS
<1>1. CASE UNCHANGED vars
  BY <1>1, TruthKept DEF vars
<1>2. ASSUME NEW killed \in SUBSET Job, Crash(killed) PROVE Truth'
  <2>1. \A k \in Job : child[k] \in ChildRec
    BY DEF TypeOK
  <2> QED BY <1>2, <2>1, CrashDoes, KillDoes, TruthKept DEF Unsaved
<1>3. CASE ForceUnlock \/ DeleteState
  BY <1>3 DEF ForceUnlock, DeleteState, Truth, StateTellsTruth, PutsTellTruth
<1> QED BY <1>1, <1>2, <1>3, ServerTruth, ChildTruth DEF Next

LEMMA InvStep == LockInv /\ [Next]_vars => LockInv'
BY TypeStep, SpawnFreeStep, UnsavedFailedStep, WorkersStep, SectionStep, TruthStep DEF LockInv, Sections

----------------------------------------------------------------------------
\* Every variable keeps its type, for any jobs, store and number of faults.
THEOREM TerraformTyped == Spec => []TypeOK
<1>1. Init => TypeOK
  BY InitInv DEF LockInv
<1> QED BY <1>1, TypeStep, PTL DEF Spec

LEMMA InvAlways == Spec => []LockInv
BY InitInv, InvStep, PTL DEF Spec

\* Until an operator intervenes, only the owner of the lock record is between
\* its lock and its unlock: two Terraform processes never work on a partition
\* at once, whatever is lost, retried, dropped or restarted.
THEOREM LockExcludes == Spec => []OneWriter
<1>1. LockInv => OneWriter
  BY DEF LockInv
<1> QED BY <1>1, InvAlways, PTL

\* No put overwrites a state its child has not read.
THEOREM PutsLoseNothing == Spec => NoLostState
<1>1. LockInv => WorkOnCurrent
  BY DEF LockInv, ReadsCurrent, WorkOnCurrent
<1> QED BY <1>1, InvAlways, PTL DEF NoLostState

\* Until an operator intervenes, the state blob misses only resources whose makers have
\* not stored their puts, and tracks one that is gone only after a destroy that has not.
THEOREM StateIsTruth == Spec => []StateTellsTruth
<1>1. LockInv => StateTellsTruth
  BY DEF LockInv, Truth
<1> QED BY <1>1, InvAlways, PTL

----------------------------------------------------------------------------
(* The records of the runs. *)

\* A record is written as the job ends, and says what the job was told; a verdict that
\* is `ok' by then stands on a child that ended in time.
RunKept(j) ==
  /\ runs[j] # "none" => job[j].pc = "done"
  /\ job[j].pc = "record" => job[j].verdict \in {"ok", "err"}
  /\ (job[j].pc = "record" \/ runs[j] # "none") /\ job[j].verdict = "ok" =>
       ~ job[j].late /\ child[j].pc = "exited" /\ child[j].code = 0
  /\ runs[j] = "succeeded" => job[j].verdict = "ok"
  /\ runs[j] = "failed" => job[j].verdict = "err"

RunsKept == \A j \in Job : RunKept(j)

\* A child that has exited stays so, unless its job spawns another.
LEMMA ExitedStay ==
  ASSUME TypeOK, NEW j \in Job, ChildStep(j) \/ Hang(j)
  PROVE  UNCHANGED <<job, runs>> /\ \A i \in Job : child[i].pc = "exited" => child'[i] = child[i]
<1>1. UNCHANGED <<job, runs>> /\ child[j].pc # "exited"
  BY DEF ChildStep, Simple, LockState, SelectHolder, GetState, Work, PutState, UnlockState,
         Hang, Running, serverVars
<1>2. UNCHANGED child \/ \E rec : SetChild(j, rec)
  BY DEF ChildStep, Simple, LockState, SelectHolder, GetState, Work, PutState, UnlockState,
         Hang, Refused
<1>3. \A i \in Job : i # j => child'[i] = child[i]
  BY <1>2 DEF SetChild, TypeOK
<1> QED  BY <1>1, <1>3

\* Every step keeps what the records say.
LEMMA RunStep == TypeOK /\ RunsKept /\ [Next]_vars => RunsKept'
<1> SUFFICES ASSUME TypeOK, RunsKept, [Next]_vars PROVE RunsKept'
  OBVIOUS
<1>t. \A j \in Job : job[j] \in JobRec /\ child[j] \in ChildRec
  BY DEF TypeOK
<1>c. ASSUME UNCHANGED <<job, runs>>,
             \A i \in Job : child[i].pc = "exited" => child'[i] = child[i]
      PROVE  RunsKept'
  BY <1>c DEF RunsKept, RunKept
<1>j. ASSUME NEW j \in Job, NEW rec, SetJob(j, rec), UNCHANGED <<child, runs>>,
             rec.pc = "record" => /\ rec.verdict \in {"ok", "err"}
                                  /\ rec.verdict = "ok" => ~ rec.late /\ child[j].pc = "exited"
                                                           /\ child[j].code = 0,
             job[j].pc # "done"
      PROVE  RunsKept'
  <2>1. job'[j] = rec /\ \A i \in Job : i # j => job'[i] = job[i]
    BY <1>j DEF SetJob, TypeOK
  <2>2. runs[j] = "none"
    BY <1>j DEF RunsKept, RunKept
  <2> QED  BY <1>j, <2>1, <2>2 DEF RunsKept, RunKept
<1>f. \A j \in Job : /\ AfterFailure(job[j]).pc \in {"record", "done"}
                     /\ AfterFailure(job[j]).verdict = "err"
  BY <1>t DEF AfterFailure, JobRec
<1>p. \A j \in Job : \A p \in {"collect", "drain", "decide", "done", "gone"} :
        [job[j] EXCEPT !.pc = p].pc # "record" /\ [job[j] EXCEPT !.pc = p, !.late = TRUE].pc # "record"
  BY <1>t DEF JobRec
<1>0. CASE UNCHANGED vars
  BY <1>0, <1>c DEF vars
<1>1. ASSUME NEW j \in Job, BeginProvision(j) \/ BeginTeardown(j) PROVE RunsKept'
  <2>1. PICK rec : SetJob(j, rec) /\ rec.pc # "record"
    <3>1. \A k \in {"provision", "teardown"}, c \in Cmd, v \in {"ok", "err"} :
            /\ [job[j] EXCEPT !.pc = "spawn", !.kind = k, !.cmd = c].pc # "record"
            /\ [job[j] EXCEPT !.pc = "done", !.kind = k, !.verdict = v].pc # "record"
      BY <1>t DEF JobRec
    <3>2. "init" \in Cmd /\ "destroy" \in Cmd
      BY DEF Cmd
    <3>3. CASE BeginProvision(j)
      BY <3>1, <3>2, <3>3 DEF BeginProvision
    <3>4. CASE BeginTeardown(j)
      <4>1. \/ SetJob(j, [job[j] EXCEPT !.pc = "spawn", !.kind = "teardown", !.cmd = "destroy"])
            \/ SetJob(j, [job[j] EXCEPT !.pc = "done", !.kind = "teardown", !.verdict = "ok"])
        BY <3>4, Zenon DEF BeginTeardown
      <4> QED  BY <3>1, <3>2, <4>1
    <3> QED  BY <1>1, <3>3, <3>4
  <2>2. UNCHANGED <<child, runs>> /\ job[j].pc # "done"
    BY <1>1 DEF BeginProvision, BeginTeardown
  <2> QED  BY <1>j, <2>1, <2>2
<1>2. ASSUME NEW j \in Job, Spawn(j) PROVE RunsKept'
  <2>1. CASE SetJob(j, AfterFailure(job[j])) /\ UNCHANGED child
    BY <1>2, <1>f, <1>j, <2>1 DEF Spawn
  <2>2. CASE SetJob(j, [job[j] EXCEPT !.pc = "collect"])
    <3>1. \A i \in Job : i # j => job'[i] = job[i] /\ child'[i] = child[i]
      BY <1>2, <2>2 DEF Spawn, SetJob, SetChild, TypeOK
    <3>2. job'[j].pc = "collect" /\ runs'[j] = "none"
      BY <1>2, <1>t, <2>2 DEF Spawn, SetJob, TypeOK, RunsKept, RunKept, JobRec
    <3>3. UNCHANGED runs
      BY <1>2 DEF Spawn
    <3> QED  BY <3>1, <3>2, <3>3 DEF RunsKept, RunKept
  <2> QED  BY <1>2, <2>1, <2>2 DEF Spawn
<1>3. ASSUME NEW j \in Job, Collected(j) \/ TimedOut(j) PROVE RunsKept'
  BY <1>3, <1>j, <1>p DEF Collected, TimedOut
<1>4. ASSUME NEW j \in Job, Drained(j) PROVE RunsKept'
  <2>1. UNCHANGED <<child, runs>> /\ SetJob(j, [job[j] EXCEPT !.pc = "decide"]) /\ job[j].pc = "drain"
    BY <1>4 DEF Drained, PipesClosed
  <2> QED  BY <1>j, <1>p, <2>1
<1>5. ASSUME NEW j \in Job, Decide(j) PROVE RunsKept'
  <2>1. CASE ~ Succeeded(j)
    BY <1>5, <1>f, <1>j, <2>1 DEF Decide
  <2>2. CASE Succeeded(j)
    <3>1. child[j].pc = "exited" /\ child[j].code = 0 /\ ~ job[j].late
      BY <2>2 DEF Succeeded
    <3>2. \A c \in Cmd : [job[j] EXCEPT !.pc = "spawn", !.cmd = c].pc # "record"
      BY <1>t DEF JobRec
    <3>3. [job[j] EXCEPT !.pc = "record", !.verdict = "ok"].verdict = "ok"
          /\ [job[j] EXCEPT !.pc = "record", !.verdict = "ok"].late = job[j].late
      BY <1>t DEF JobRec
    <3>4. PICK rec : /\ SetJob(j, rec)
                     /\ \/ \E c \in Cmd : rec = [job[j] EXCEPT !.pc = "spawn", !.cmd = c]
                        \/ rec = [job[j] EXCEPT !.pc = "record", !.verdict = "ok"]
      <4>1. job[j].cmd \in {"init", "apply", "output", "destroy"}
        BY <1>t DEF JobRec, Cmd
      <4>2. CASE job[j].cmd = "init"
        BY <1>5, <2>2, <4>2 DEF Decide, Cmd
      <4>3. CASE job[j].cmd = "apply"
        BY <1>5, <2>2, <4>3 DEF Decide, Cmd
      <4>4. CASE job[j].cmd \in {"output", "destroy"}
        BY <1>5, <2>2, <4>4 DEF Decide
      <4> QED  BY <4>1, <4>2, <4>3, <4>4
    <3>5. rec.pc = "record" => rec.verdict = "ok" /\ rec.late = job[j].late
      BY <3>2, <3>3, <3>4
    <3> QED  BY <1>5, <1>j, <3>1, <3>4, <3>5 DEF Decide
  <2> QED  BY <2>1, <2>2
<1>6. ASSUME NEW j \in Job, Record(j) PROVE RunsKept'
  <2>1. job'[j].pc = "done" /\ job'[j].verdict = job[j].verdict /\ job'[j].late = job[j].late
    BY <1>6, <1>t DEF Record, SetJob, TypeOK, JobRec
  <2>2. \A i \in Job : i # j => job'[i] = job[i] /\ runs'[i] = runs[i]
    BY <1>6 DEF Record, SetJob, TypeOK
  <2>3. UNCHANGED child /\ job[j].pc = "record"
    BY <1>6 DEF Record
  <2>4. runs'[j] \in {"none", RunStatus(j)}
    BY <1>6 DEF Record, TypeOK, RunsKept, RunKept
  <2> QED  BY <2>1, <2>2, <2>3, <2>4 DEF RunStatus, RunsKept, RunKept
<1>7. ASSUME NEW j \in Job, DropRequest(j) PROVE RunsKept'
  BY <1>7, <1>j, <1>p DEF DropRequest, Active
<1>8. ASSUME NEW killed \in SUBSET Job, Crash(killed) PROVE RunsKept'
  <2>1. \A i \in Job : child[i].pc = "exited" => child'[i] = child[i]
    BY <1>8 DEF Crash, Ended
  <2>2. \A i \in Job : job'[i] = job[i] \/ (Active(i) /\ job'[i].pc = "gone")
    BY <1>8, <1>t DEF Crash, JobRec
  <2>3. UNCHANGED runs
    BY <1>8 DEF Crash
  <2> QED  BY <2>1, <2>2, <2>3 DEF Active, RunsKept, RunKept
<1>9. CASE ForceUnlock \/ DeleteState
  BY <1>9, <1>c DEF ForceUnlock, DeleteState
<1>10. ASSUME NEW j \in Job, ChildStep(j) \/ Hang(j) PROVE RunsKept'
  BY <1>10, <1>c, ExitedStay
<1> QED
  BY <1>0, <1>1, <1>2, <1>3, <1>4, <1>5, <1>6, <1>7, <1>8, <1>9, <1>10 DEF Next, ServerStep

\* RunsTruthful: the IacRun a job leaves says what provision() or teardown() returned, and
\* one that succeeded stands on a child that exited with 0 in time, whatever was dropped,
\* crashed, hung or forced.
THEOREM RunsTellTruth == Spec => []RunsTruthful
<1>1. Init => RunsKept
  BY DEF Init, RunsKept, RunKept, NewJob
<1>2. RunsKept => RunsTruthful
  BY DEF RunsKept, RunKept, RunsTruthful
<1> QED  BY <1>1, <1>2, TerraformTyped, RunStep, PTL DEF Spec

\* ReleasedByOwner: what a child does takes a lock away only as its owner's unlock, also
\* after an operator has forced the lock open and another child has taken it.
THEOREM OwnerReleases == Spec => ReleasedByOwner
<1>1. ASSUME TypeOK, [Next]_vars, lock # NoOne, lock' # lock, child' # child
      PROVE  child[lock].pc = "unlock" /\ child'[lock].pc = "exited"
  <2> USE <1>1 DEF serverVars
  <2>1. PICK j \in Job : LockState(j) \/ UnlockState(j)
    <3>1. ASSUME NEW j \in Job, ChildStep(j) \/ Hang(j), ~ LockState(j), ~ UnlockState(j)
          PROVE  FALSE
      BY <3>1 DEF ChildStep, Simple, SelectHolder, GetState, Work, PutState, Hang
    <3>2. ASSUME NEW j \in Job, BeginProvision(j) \/ BeginTeardown(j) \/ ServerStep(j)
                                \/ TimedOut(j) \/ DropRequest(j)
          PROVE  FALSE
      BY <3>2 DEF BeginProvision, BeginTeardown, ServerStep, Spawn, Collected, Drained,
                  Decide, Record, TimedOut, DropRequest
    <3>3. ASSUME NEW killed \in SUBSET Job, Crash(killed)
          PROVE  FALSE
      BY <3>3 DEF Crash
    <3>4. ~ ForceUnlock /\ ~ DeleteState /\ ~ UNCHANGED vars
      BY DEF ForceUnlock, DeleteState, vars
    <3>5. ASSUME NEW j \in Job, ChildStep(j)
          PROVE  LockState(j) \/ UnlockState(j)
      BY <3>1, <3>5
    <3> QED  BY <3>1, <3>2, <3>3, <3>4, <3>5 DEF Next
  <2>2. ~ LockState(j)
    BY DEF LockState, LockFree
  <2>3. /\ lock = j /\ child[j].pc = "unlock"
        /\ \/ SetChild(j, [child[j] EXCEPT !.pc = "exited"])
           \/ SetChild(j, [child[j] EXCEPT !.pc = "exited", !.code = 1])
    BY <2>1, <2>2 DEF UnlockState, AfterUnlock, Running
  <2>4. child \in [Job -> ChildRec] /\ child[j] \in ChildRec
    BY DEF TypeOK
  <2>5. CASE SetChild(j, [child[j] EXCEPT !.pc = "exited"])
    BY <2>3, <2>4, <2>5 DEF SetChild, ChildRec
  <2>6. CASE SetChild(j, [child[j] EXCEPT !.pc = "exited", !.code = 1])
    BY <2>3, <2>4, <2>6 DEF SetChild, ChildRec
  <2> QED  BY <2>3, <2>5, <2>6
<1>2. TypeOK /\ [Next]_vars => [OwnersUnlock]_vars
  BY <1>1 DEF OwnersUnlock
<1> QED  BY <1>2, TerraformTyped, PTL DEF Spec, ReleasedByOwner

=============================================================================
