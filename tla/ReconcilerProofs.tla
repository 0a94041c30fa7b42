--------------------------- MODULE ReconcilerProofs ---------------------------
(***************************************************************************)
(* What holds of Reconciler for every set of enclaves, partitions and      *)
(* imports and any number of faults and commits: first its types, then,    *)
(* for requests that do not overlap, SerialInv, which is inductive, and    *)
(* the action properties that follow from it.  After these, what each step *)
(* makes of its request, and from it LoopInv, the refinement of            *)
(* ResourceLifecycle, and that a report without errors is the truth.       *)
(***************************************************************************)
EXTENDS Reconciler, TLAPS

LEMMA DefaultsTyped ==
  /\ NoPart \in PartRec /\ NoRec \in EncRec
  /\ IdleRun \in RunRec /\ IdleRun.pc = "idle"
<1>1. NoPart \in PartRec
  BY ConstantsAssumption DEF NoPart, PartRec, Status, Version
<1>2. NoRec \in EncRec
  BY <1>1 DEF NoRec, EncRec, Status, Handle
<1>3. (CHOOSE e \in Enclave : TRUE) \in Enclave
  BY ConstantsAssumption
<1>4. (CHOOSE p \in Part : TRUE) \in Part
  BY ConstantsAssumption
<1>5. IdleRun \in RunRec
  BY <1>2, <1>3, <1>4, ConstantsAssumption DEF IdleRun, RunRec, PC, Version
<1> QED
  BY <1>1, <1>2, <1>5 DEF IdleRun

\* The helpers that change a partition or an import of a record keep it typed.
LEMMA SetPartTyped ==
  ASSUME NEW rec \in EncRec, NEW p \in Part, NEW ps \in PartRec
  PROVE  /\ SetPart(rec, p, ps) \in EncRec
         /\ SetPart(rec, p, ps).parts = [rec.parts EXCEPT ![p] = ps]
         /\ SetPart(rec, p, ps).status = rec.status
         /\ SetPart(rec, p, ps).handle = rec.handle
  BY DEF SetPart, EncRec

LEMMA SetImportTyped ==
  ASSUME NEW rec \in EncRec, NEW x \in Enclave, NEW h \in Handle
  PROVE  /\ SetImport(rec, x, h) \in EncRec
         /\ SetImport(rec, x, h).parts = rec.parts
         /\ SetImport(rec, x, h).status = rec.status
         /\ SetImport(rec, x, h).handle = rec.handle
  BY DEF SetImport, EncRec

\* A request that changes to a typed record leaves `run' typed.
LEMMA BecomeTyped ==
  ASSUME NEW r \in Request, NEW rec \in RunRec, run \in [Request -> RunRec],
         Become(r, rec)
  PROVE  run' \in [Request -> RunRec]
  BY DEF Become

----------------------------------------------------------------------------
(* Type correctness. *)

LEMMA TypeInit == Init => TypeOK
<1> SUFFICES ASSUME Init PROVE TypeOK
  OBVIOUS
<1>1. /\ conf \in [Enclave -> [Part -> Version]] /\ version \in 1 .. MaxVersion
      /\ faults \in 0 .. MaxFaults /\ drivers \subseteq Enclave
  BY ConstantsAssumption DEF Init, Version
<1>2. store \in [Enclave -> EncRec] /\ run \in [Request -> RunRec]
  BY DefaultsTyped DEF Init
<1>3. res \in [Enclave \X Part -> Resource]
  BY ConstantsAssumption DEF Init, Resource, Version
<1> QED
  BY <1>1, <1>2, <1>3 DEF Init, TypeOK

\* What a request that ends early may leave of the Terraform it was waiting for.
LEMMA CutDoes ==
  ASSUME TypeOK, NEW r \in Request, AbortRequest(r)
  PROVE  /\ UNCHANGED <<listed, conf, version, drivers, store, project, sa>>
         /\ run' = [run EXCEPT ![r] = IdleRun]
         /\ res' \in [Enclave \X Part -> Resource]
         /\ workspace' \subseteq Enclave \X Part /\ locked' \subseteq Enclave \X Part
         /\ torn' \subseteq Enclave \X Part /\ torn \subseteq torn'
         /\ \/ res' = res
            \/ /\ run[r].pc = "tf"
               /\ \E left \in {res[<<run[r].enc, run[r].part>>], Broken,
                             run[r].conf[run[r].enc][run[r].part]} :
                     res' = [res EXCEPT ![<<run[r].enc, run[r].part>>] = left]
            \/ /\ run[r].pc = "td"
               /\ \E p \in Part :
                     /\ <<run[r].enc, p>> \in torn' /\ <<run[r].enc, p>> \in workspace
                     /\ \E left \in HalfDestroyed(<<run[r].enc, p>>) :
                           res' = [res EXCEPT ![<<run[r].enc, p>>] = left]
<1> DEFINE q == run[r]
           v == q.conf[q.enc][q.part]
<1>1. /\ q \in RunRec /\ q.enc \in Enclave /\ q.part \in Part /\ v \in Version
      /\ res \in [Enclave \X Part -> Resource]
  BY DEF TypeOK, RunRec
<1>2. Broken \in Resource /\ 0 \in Resource /\ Version \subseteq Resource
  BY ConstantsAssumption DEF Resource, Version
<1>3. /\ UNCHANGED <<listed, conf, version, drivers, store, project, sa>>
      /\ run' = [run EXCEPT ![r] = IdleRun]
  BY DEF AbortRequest, Become, yamlVars
<1>4. CASE UNCHANGED <<res, workspace, locked, torn>>
  BY <1>3, <1>4 DEF TypeOK
<1>5. CASE CutApply(q)
  <2> DEFINE i == <<q.enc, q.part>>
  <2>1. i \in Enclave \X Part /\ q.pc = "tf"
    BY <1>1, <1>5 DEF CutApply
  <2>2. PICK left \in {res[i], Broken, v} : res' = [res EXCEPT ![i] = left]
    BY <1>5 DEF CutApply, HalfApplied
  <2>3. left \in Resource
    BY <1>1, <1>2, <2>1
  <2>4. res' \in [Enclave \X Part -> Resource]
    BY <1>1, <2>1, <2>2, <2>3
  <2>5. workspace' \subseteq Enclave \X Part /\ locked' \subseteq Enclave \X Part
    BY <1>5, <2>1 DEF CutApply, TypeOK
  <2>6. torn' = torn /\ torn' \subseteq Enclave \X Part
    BY <1>5 DEF CutApply, TypeOK
  <2> QED
    BY <1>3, <2>1, <2>2, <2>4, <2>5, <2>6
<1>6. ASSUME NEW p \in Part, CutDestroy(q, p)
      PROVE  /\ q.pc = "td" /\ <<q.enc, p>> \in torn' /\ <<q.enc, p>> \in workspace
             /\ torn \subseteq torn'
             /\ \E left \in HalfDestroyed(<<q.enc, p>>) :
                    res' = [res EXCEPT ![<<q.enc, p>>] = left]
             /\ res' \in [Enclave \X Part -> Resource]
             /\ workspace' \subseteq Enclave \X Part
             /\ locked' \subseteq Enclave \X Part /\ torn' \subseteq Enclave \X Part
  <2>1. <<q.enc, p>> \in Enclave \X Part
    BY <1>1
  <2>2. /\ q.pc = "td" /\ <<q.enc, p>> \in torn' /\ <<q.enc, p>> \in workspace
        /\ torn \subseteq torn' /\ torn' \subseteq Enclave \X Part
        /\ workspace' \subseteq Enclave \X Part /\ locked' \subseteq Enclave \X Part
    BY <1>6, <2>1 DEF CutDestroy, TypeOK
  <2>3. PICK left \in HalfDestroyed(<<q.enc, p>>) :
                    res' = [res EXCEPT ![<<q.enc, p>>] = left]
    BY <1>6 DEF CutDestroy
  <2>4. left \in Resource
    BY <1>1, <1>2, <2>1 DEF HalfDestroyed
  <2> QED
    BY <1>1, <2>1, <2>2, <2>3, <2>4
<1>7. CASE \E p \in Part : CutDestroy(q, p)
  BY <1>3, <1>6, <1>7
<1> QED
  BY <1>4, <1>5, <1>7 DEF AbortRequest

\* Everything but `run' stays typed in a step of a request.
LEMMA TypeStep ==
  ASSUME TypeOK, NEW r \in Request, Start(r) \/ Proceed(r) \/ AbortRequest(r)
  PROVE  TypeOK'
<1> DEFINE q == run[r]
<1>1. /\ q \in RunRec /\ q.enc \in Enclave /\ q.part \in Part
      /\ q.mem \in EncRec /\ q.snap \in [Enclave -> EncRec]
      /\ q.conf \in [Enclave -> [Part -> Version]]
      /\ q.want \subseteq Enclave /\ q.todo \subseteq Enclave
      /\ q.pend \subseteq Part /\ q.wire \subseteq Enclave
      /\ q.errs \in BOOLEAN /\ q.ro \in BOOLEAN
  BY DEF TypeOK, RunRec
<1>2. Broken \in Resource /\ 0 \in Resource /\ Version \subseteq Resource
      /\ Version \subseteq Handle
  BY ConstantsAssumption DEF Resource, Version, Handle
<1>3. ASSUME Fault \/ NoFault PROVE faults' \in 0 .. MaxFaults
  BY <1>3, ConstantsAssumption DEF TypeOK, Fault, NoFault
<1>4. ASSUME NEW ro \in ResourcesOnly, LoadYaml(r, ro) PROVE TypeOK'
  <2>1. [IdleRun EXCEPT !.op = "apply", !.pc = "list", !.ro = ro,
                        !.want = listed, !.conf = conf] \in RunRec
    BY DefaultsTyped, ConstantsAssumption DEF TypeOK, RunRec, PC
  <2>2. run' \in [Request -> RunRec]
    BY <1>4, <2>1, BecomeTyped DEF TypeOK, LoadYaml
  <2> QED
    BY <1>4, <2>2 DEF TypeOK, LoadYaml, yamlVars, cloudVars
<1>5. ASSUME NEW e \in Enclave, NEW ro \in ResourcesOnly, DestroyEnclave(r, e, ro)
      PROVE TypeOK'
  <2>1. IdleRun.snap \in [Enclave -> EncRec]
    BY DefaultsTyped DEF RunRec
  <2>2. [IdleRun.snap EXCEPT ![e] = store[e]] \in [Enclave -> EncRec]
    BY <2>1 DEF TypeOK
  <2>3. Recorded(store[e]) \subseteq Part
    BY DEF Recorded
  <2> DEFINE pend == IF store[e].handle THEN Recorded(store[e]) ELSE {}
             next == IF store[e].handle THEN "td" ELSE "forget"
  <2>4. /\ pend \subseteq Part /\ next \in {"td", "forget"} /\ ro \in BOOLEAN
    BY <2>3, ConstantsAssumption
  <2> HIDE DEF pend, next
  <2>5. [IdleRun EXCEPT !.op = "destroy", !.ro = ro, !.enc = e,
            !.snap = [@ EXCEPT ![e] = store[e]],
            !.pend = pend, !.pc = next] \in RunRec
    BY <2>2, <2>4, DefaultsTyped DEF RunRec, PC
  <2>6. run' \in [Request -> RunRec]
    BY <1>5, <2>5, BecomeTyped DEF TypeOK, DestroyEnclave, pend, next
  <2> QED
    BY <1>5, <2>6 DEF TypeOK, DestroyEnclave, yamlVars, cloudVars
<1>6. ASSUME NEW e \in Enclave, NEW p \in Part, DestroyPartition(r, e, p)
      PROVE TypeOK'
  <2>1. IdleRun.snap \in [Enclave -> EncRec]
    BY DefaultsTyped DEF RunRec
  <2>2. [IdleRun.snap EXCEPT ![e] = store[e]] \in [Enclave -> EncRec]
    BY <2>1 DEF TypeOK
  <2>3. [IdleRun EXCEPT !.op = "destroy_part", !.enc = e,
            !.snap = [@ EXCEPT ![e] = store[e]],
            !.pend = {p}, !.part = p, !.pc = "td"] \in RunRec
    BY <2>2, DefaultsTyped DEF RunRec, PC
  <2>4. run' \in [Request -> RunRec]
    BY <1>6, <2>3, BecomeTyped DEF TypeOK, DestroyPartition
  <2> QED
    BY <1>6, <2>4 DEF TypeOK, DestroyPartition, yamlVars, cloudVars
<1>7. CASE ListStore(r)
  <2>1. [q EXCEPT !.pc = "remove", !.snap = store,
          !.todo = {e \in Enclave : store[e].status # "none"} \ q.want] \in RunRec
    BY <1>1 DEF TypeOK, RunRec, PC
  <2>2. run' \in [Request -> RunRec]
    BY <1>7, <2>1, BecomeTyped DEF TypeOK, ListStore
  <2> QED
    BY <1>7, <2>2 DEF TypeOK, ListStore, yamlVars, cloudVars
<1>8. ASSUME NEW e \in Enclave, RemoveEnclave(r, e) PROVE TypeOK'
  <2> DEFINE tear == q.snap[e].handle /\ e \in drivers
  <2>1. Recorded(q.snap[e]) \subseteq Part
    BY DEF Recorded
  <2>2. [q EXCEPT !.enc = e, !.todo = @ \ {e},
                  !.pend = IF tear THEN Recorded(q.snap[e]) ELSE {},
                  !.pc = IF tear THEN "td" ELSE "forget"] \in RunRec
    BY <1>1, <2>1 DEF RunRec, PC
  <2>3. run' \in [Request -> RunRec]
    BY <1>8, <2>2, BecomeTyped DEF TypeOK, RemoveEnclave
  <2> QED
    BY <1>8, <2>3 DEF TypeOK, RemoveEnclave, yamlVars, cloudVars
<1>9. ASSUME NEW p \in Part, TerraformDestroy(r, p) PROVE TypeOK'
  <2>1. [q EXCEPT !.pc = "td_sa", !.part = p] \in RunRec
    BY <1>1 DEF RunRec, PC
  <2>2. [q EXCEPT !.pc = "td_sa", !.part = p, !.errs = TRUE] \in RunRec
    BY <1>1 DEF RunRec, PC
  <2>3. run' \in [Request -> RunRec]
    BY <1>9, <2>1, <2>2, BecomeTyped DEF TypeOK, TerraformDestroy
  <2>4. res \in [Enclave \X Part -> Resource] /\ <<q.enc, p>> \in Enclave \X Part
    BY <1>1 DEF TypeOK
  <2>5. res' = res \/ \E left \in Resource : res' = [res EXCEPT ![<<q.enc, p>>] = left]
    BY <1>2, <1>9, <2>4 DEF TerraformDestroy, HalfDestroyed
  <2>6. res' \in [Enclave \X Part -> Resource]
    BY <2>4, <2>5
  <2>7. /\ torn' \subseteq Enclave \X Part /\ locked' \subseteq Enclave \X Part
        /\ workspace' = workspace
    BY <1>1, <1>9 DEF TypeOK, TerraformDestroy
  <2>8. faults' \in 0 .. MaxFaults
    BY <1>3, <1>9 DEF TerraformDestroy
  <2> QED
    BY <1>9, <2>3, <2>6, <2>7, <2>8 DEF TypeOK, TerraformDestroy, yamlVars
<1>10. CASE TeardownPartition(r)
  <2>1. [q EXCEPT !.pc = "td", !.pend = @ \ {q.part}] \in RunRec
    BY <1>1 DEF RunRec, PC
  <2>2. [q EXCEPT !.pc = "td", !.pend = @ \ {q.part},
                  !.errs = @ \/ q.op # "apply"] \in RunRec
    BY <1>1 DEF RunRec, PC
  <2>3. run' \in [Request -> RunRec]
    BY <1>10, <2>1, <2>2, BecomeTyped DEF TypeOK, TeardownPartition
  <2>4. sa' \subseteq Enclave \X Part /\ UNCHANGED <<workspace, locked>>
    BY <1>10 DEF TypeOK, TeardownPartition
  <2>5. faults' \in 0 .. MaxFaults
    BY <1>3, <1>10 DEF TeardownPartition
  <2> QED
    BY <1>10, <2>3, <2>4, <2>5 DEF TypeOK, TeardownPartition, yamlVars
<1>11. CASE TeardownEnclave(r)
  <2>1. [q EXCEPT !.pc = "forget"] \in RunRec
    BY <1>1 DEF RunRec, PC
  <2>2. AfterFailedTeardown(q) \in RunRec
    BY <1>1, DefaultsTyped DEF RunRec, PC, AfterFailedTeardown
  <2>3. run' \in [Request -> RunRec]
    BY <1>11, <2>1, <2>2, BecomeTyped DEF TypeOK, TeardownEnclave
  <2>4. /\ UNCHANGED cloudVars \/ DeleteProject(q.enc)
        /\ UNCHANGED <<workspace, locked>>
    BY <1>11 DEF TeardownEnclave, cloudVars
  <2>5. /\ project' \subseteq Enclave /\ sa' \subseteq Enclave \X Part
        /\ res' \in [Enclave \X Part -> Resource]
        /\ UNCHANGED <<workspace, locked>>
    BY <2>4, <1>2 DEF TypeOK, DeleteProject, cloudVars
  <2>6. torn' \subseteq Enclave \X Part
    BY <1>1, <1>11 DEF TypeOK, TeardownEnclave
  <2>7. faults' \in 0 .. MaxFaults
    BY <1>3, <1>11 DEF TeardownEnclave, NoFault
  <2> QED
    BY <1>11, <2>3, <2>5, <2>6, <2>7 DEF TypeOK, TeardownEnclave, yamlVars
<1>12. CASE Forget(r)
  <2>1. [q EXCEPT !.pc = "remove"] \in RunRec
    BY <1>1 DEF RunRec, PC
  <2>2. run' \in [Request -> RunRec]
    BY <1>12, <2>1, DefaultsTyped, BecomeTyped DEF TypeOK, Forget
  <2>3. SetPart(store[q.enc], q.part, NoPart) \in EncRec
    BY <1>1, DefaultsTyped, SetPartTyped DEF TypeOK
  <2>4. \E rec \in EncRec : store' = [store EXCEPT ![q.enc] = rec]
    BY <1>12, <2>3, DefaultsTyped DEF Forget
  <2>5. store' \in [Enclave -> EncRec]
    BY <2>4 DEF TypeOK
  <2>6. torn' \subseteq Enclave \X Part
    BY <1>12 DEF TypeOK, Forget
  <2> QED
    BY <1>12, <2>2, <2>5, <2>6 DEF TypeOK, Forget, yamlVars, cloudVars
<1>13. CASE BeginEnclaves(r)
  <2>1. [q EXCEPT !.pc = "enclaves", !.todo = q.want] \in RunRec
    BY <1>1 DEF RunRec, PC
  <2>2. run' \in [Request -> RunRec]
    BY <1>13, <2>1, BecomeTyped DEF TypeOK, BeginEnclaves
  <2> QED
    BY <1>13, <2>2 DEF TypeOK, BeginEnclaves, yamlVars, cloudVars
<1>14. ASSUME NEW e \in Enclave, SkipEnclave(r, e) PROVE TypeOK'
  <2>1. [q EXCEPT !.todo = @ \ {e}, !.errs = TRUE] \in RunRec
    BY <1>1 DEF RunRec
  <2>2. run' \in [Request -> RunRec]
    BY <1>14, <2>1, BecomeTyped DEF TypeOK, SkipEnclave
  <2> QED
    BY <1>14, <2>2 DEF TypeOK, SkipEnclave, yamlVars, cloudVars
<1>15. ASSUME NEW e \in Enclave, EnclaveBegin(r, e) PROVE TypeOK'
  <2> DEFINE mem == [q.snap[e] EXCEPT !.status = InFlight(q.snap[e].status # "none")]
  <2>1. mem \in EncRec
    BY <1>1 DEF EncRec, InFlight, Status
  <2> HIDE DEF mem
  <2>2. [q EXCEPT !.pc = "enc", !.enc = e, !.mem = mem, !.todo = @ \ {e}] \in RunRec
    BY <1>1, <2>1 DEF RunRec, PC
  <2>3. run' \in [Request -> RunRec]
    BY <1>15, <2>2, BecomeTyped DEF TypeOK, EnclaveBegin, mem
  <2>4. store' = [store EXCEPT ![e] = mem]
    BY <1>15 DEF EnclaveBegin, Upserted, mem
  <2>5. store' \in [Enclave -> EncRec]
    BY <2>1, <2>4 DEF TypeOK
  <2> QED
    BY <1>15, <2>3, <2>5 DEF TypeOK, EnclaveBegin, yamlVars, cloudVars
<1>16. CASE ProvisionEnclave(r)
  <2> DEFINE good == [q.mem EXCEPT !.handle = TRUE, !.status = "active"]
             bad  == [q.mem EXCEPT !.status = "error"]
  <2>1. good \in EncRec /\ bad \in EncRec
    BY <1>1 DEF EncRec, Status
  <2>2. Declared(q.conf, q.enc) \subseteq Part
    BY DEF Declared
  <2>3. [q EXCEPT !.pc = "parts", !.pend = Declared(q.conf, q.enc),
          !.mem = [@ EXCEPT !.handle = TRUE, !.status = "active"]] \in RunRec
    BY <1>1, <2>1, <2>2 DEF RunRec, PC
  <2>4. [q EXCEPT !.pc = "enc_err", !.errs = TRUE,
          !.mem = [@ EXCEPT !.status = "error"]] \in RunRec
    BY <1>1, <2>1 DEF RunRec, PC
  <2>5. run' \in [Request -> RunRec]
    BY <1>16, <2>3, <2>4, BecomeTyped DEF TypeOK, ProvisionEnclave
  <2>6. project' \subseteq Enclave /\ faults' \in 0 .. MaxFaults
    BY <1>1, <1>3, <1>16 DEF TypeOK, ProvisionEnclave
  <2> QED
    BY <1>16, <2>5, <2>6 DEF TypeOK, ProvisionEnclave, yamlVars
<1>17. CASE EnclaveError(r)
  <2>1. [q EXCEPT !.pc = "enclaves"] \in RunRec
    BY <1>1 DEF RunRec, PC
  <2>2. run' \in [Request -> RunRec]
    BY <1>17, <2>1, BecomeTyped DEF TypeOK, EnclaveError
  <2>3. store' \in [Enclave -> EncRec]
    BY <1>1, <1>17 DEF TypeOK, EnclaveError, Upserted
  <2> QED
    BY <1>17, <2>2, <2>3 DEF TypeOK, EnclaveError, yamlVars, cloudVars
<1>18. ASSUME NEW p \in Part, SkipPartition(r, p) PROVE TypeOK'
  <2>1. [q EXCEPT !.pend = @ \ {p}] \in RunRec
    BY <1>1 DEF RunRec
  <2>2. run' \in [Request -> RunRec]
    BY <1>18, <2>1, BecomeTyped DEF TypeOK, SkipPartition
  <2> QED
    BY <1>18, <2>2 DEF TypeOK, SkipPartition, yamlVars, cloudVars
<1>19. ASSUME NEW p \in Part, PartitionBegin(r, p) PROVE TypeOK'
  <2> DEFINE ps  == [q.mem.parts[p] EXCEPT !.status = InFlight(q.mem.parts[p].handle)]
             mem == SetPart(q.mem, p, ps)
  <2>1. q.mem.parts[p] \in PartRec
    BY <1>1 DEF EncRec
  <2>2. ps \in PartRec
    BY <2>1 DEF PartRec, InFlight, Status
  <2> HIDE DEF ps
  <2>3. mem \in EncRec
    BY <1>1, <2>2, SetPartTyped
  <2> HIDE DEF mem
  <2>4. [q EXCEPT !.pc = "sa", !.part = p, !.mem = mem, !.pend = @ \ {p}] \in RunRec
    BY <1>1, <2>3 DEF RunRec, PC
  <2>5. run' \in [Request -> RunRec]
    BY <1>19, <2>4, BecomeTyped DEF TypeOK, PartitionBegin, mem, ps
  <2>6. store' = [store EXCEPT ![q.enc] = mem]
    BY <1>19 DEF PartitionBegin, Upserted, mem, ps
  <2>7. store' \in [Enclave -> EncRec]
    BY <1>1, <2>3, <2>6 DEF TypeOK
  <2> QED
    BY <1>19, <2>5, <2>7 DEF TypeOK, PartitionBegin, yamlVars, cloudVars
<1>20. CASE ProvisionPartition(r)
  <2> DEFINE new == [q.mem.parts[q.part] EXCEPT !.handle = TRUE]
             bad == MarkError(q.mem.parts[q.part])
  <2>1. q.mem.parts[q.part] \in PartRec
    BY <1>1 DEF EncRec
  <2>2. new \in PartRec /\ bad \in PartRec
    BY <2>1 DEF PartRec, MarkError, Status
  <2> HIDE DEF new, bad
  <2>3. SetPart(q.mem, q.part, new) \in EncRec /\ SetPart(q.mem, q.part, bad) \in EncRec
    BY <1>1, <2>2, SetPartTyped
  <2>4. [q EXCEPT !.pc = "sa_save", !.mem = SetPart(@, q.part, new)] \in RunRec
    BY <1>1, <2>3 DEF RunRec, PC
  <2>5. PartitionFailed(q, q.part) \in RunRec
    BY <1>1, <2>3 DEF RunRec, PC, PartitionFailed, bad
  <2>6. run' \in [Request -> RunRec]
    BY <1>20, <2>4, <2>5, BecomeTyped DEF TypeOK, ProvisionPartition, new
  <2>7. sa' \subseteq Enclave \X Part /\ faults' \in 0 .. MaxFaults
    BY <1>1, <1>3, <1>20 DEF TypeOK, ProvisionPartition
  <2> QED
    BY <1>20, <2>6, <2>7 DEF TypeOK, ProvisionPartition, yamlVars
<1>21. CASE SaveHandle(r)
  <2>1. [q EXCEPT !.pc = "tf"] \in RunRec
    BY <1>1 DEF RunRec, PC
  <2>2. run' \in [Request -> RunRec]
    BY <1>21, <2>1, BecomeTyped DEF TypeOK, SaveHandle
  <2>3. store' \in [Enclave -> EncRec] /\ faults' \in 0 .. MaxFaults
    BY <1>1, <1>3, <1>21 DEF TypeOK, SaveHandle, Upserted
  <2> QED
    BY <1>21, <2>2, <2>3 DEF TypeOK, SaveHandle, yamlVars, cloudVars
<1>22. CASE TerraformApply(r)
  <2> DEFINE v   == q.conf[q.enc][q.part]
             new == [MarkActive(q.mem.parts[q.part], v) EXCEPT !.out = v]
             bad == MarkError(q.mem.parts[q.part])
  <2>1. q.mem.parts[q.part] \in PartRec /\ v \in Version
    BY <1>1 DEF EncRec
  <2>2. new \in PartRec /\ bad \in PartRec /\ v \in Resource
    BY <2>1, <1>2 DEF PartRec, MarkActive, MarkError, Status
  <2> HIDE DEF new, bad
  <2>3. SetPart(q.mem, q.part, new) \in EncRec /\ SetPart(q.mem, q.part, bad) \in EncRec
    BY <1>1, <2>2, SetPartTyped
  <2>4. [q EXCEPT !.pc = "parts", !.mem = SetPart(@, q.part, new)] \in RunRec
    BY <1>1, <2>3 DEF RunRec, PC
  <2>5. PartitionFailed(q, q.part) \in RunRec
    BY <1>1, <2>3 DEF RunRec, PC, PartitionFailed, bad
  <2>6. run' \in [Request -> RunRec]
    BY <1>22, <2>4, <2>5, BecomeTyped DEF TypeOK, TerraformApply, new
  <2>7. res \in [Enclave \X Part -> Resource] /\ <<q.enc, q.part>> \in Enclave \X Part
    BY <1>1 DEF TypeOK
  <2>8. res' = res \/ \E left \in Resource : res' = [res EXCEPT ![<<q.enc, q.part>>] = left]
    BY <1>2, <1>22, <2>2, <2>7 DEF TerraformApply, HalfApplied
  <2>9. res' \in [Enclave \X Part -> Resource]
    BY <2>7, <2>8
  <2>10. /\ torn' \subseteq Enclave \X Part /\ locked' \subseteq Enclave \X Part
         /\ workspace' \subseteq Enclave \X Part
    BY <1>1, <1>22, <2>7 DEF TypeOK, TerraformApply
  <2>11. faults' \in 0 .. MaxFaults
    BY <1>3, <1>22 DEF TerraformApply
  <2> QED
    BY <1>22, <2>6, <2>9, <2>10, <2>11 DEF TypeOK, TerraformApply, yamlVars
<1>23. CASE ProvisionExport(r)
  <2> DEFINE mem == [q.mem EXCEPT !.export = q.mem.parts[ExportOf[q.enc]].out]
  <2>1. mem \in EncRec
    BY <1>1, <1>2, ConstantsAssumption DEF EncRec, PartRec
  <2>2. [q EXCEPT !.pc = "save",
          !.mem = [@ EXCEPT !.export = q.mem.parts[ExportOf[q.enc]].out]] \in RunRec
    BY <1>1, <2>1 DEF RunRec, PC
  <2>3. [q EXCEPT !.pc = "save", !.errs = TRUE] \in RunRec
    BY <1>1 DEF RunRec, PC
  <2>4. [q EXCEPT !.pc = "save"] \in RunRec
    BY <1>1 DEF RunRec, PC
  <2>5. run' \in [Request -> RunRec]
    BY <1>23, <2>2, <2>3, <2>4, BecomeTyped DEF TypeOK, ProvisionExport
  <2>6. faults' \in 0 .. MaxFaults
    BY <1>3, <1>23 DEF ProvisionExport
  <2> QED
    BY <1>23, <2>5, <2>6 DEF TypeOK, ProvisionExport, yamlVars, cloudVars
<1>24. CASE SaveEnclave(r)
  <2>1. [q EXCEPT !.pc = "enclaves"] \in RunRec
    BY <1>1 DEF RunRec, PC
  <2>2. run' \in [Request -> RunRec]
    BY <1>24, <2>1, BecomeTyped DEF TypeOK, SaveEnclave
  <2>3. store' \in [Enclave -> EncRec]
    BY <1>1, <1>24 DEF TypeOK, SaveEnclave, Upserted
  <2> QED
    BY <1>24, <2>2, <2>3 DEF TypeOK, SaveEnclave, yamlVars, cloudVars
<1>25. CASE BeginImports(r)
  <2>1. [q EXCEPT !.pc = "imports", !.todo = q.want] \in RunRec
    BY <1>1 DEF RunRec, PC
  <2>2. run' \in [Request -> RunRec]
    BY <1>25, <2>1, BecomeTyped DEF TypeOK, BeginImports
  <2> QED
    BY <1>25, <2>2 DEF TypeOK, BeginImports, yamlVars, cloudVars
<1>26. ASSUME NEW e \in Enclave, ReadImporter(r, e) PROVE TypeOK'
  <2>1. ImportsFrom(e) \subseteq Enclave /\ store[e] \in EncRec
    BY DEF ImportsFrom, TypeOK
  <2>2. [q EXCEPT !.pc = "imp", !.todo = @ \ {e}, !.enc = e, !.mem = store[e],
                  !.wire = ImportsFrom(e), !.changed = FALSE] \in RunRec
    BY <1>1, <2>1 DEF RunRec, PC
  <2>3. [q EXCEPT !.todo = @ \ {e}] \in RunRec
    BY <1>1 DEF RunRec
  <2>4. run' \in [Request -> RunRec]
    BY <1>26, <2>2, <2>3, BecomeTyped DEF TypeOK, ReadImporter
  <2> QED
    BY <1>26, <2>4 DEF TypeOK, ReadImporter, yamlVars, cloudVars
<1>27. ASSUME NEW x \in Enclave, WireImport(r, x) PROVE TypeOK'
  <2>1. store[x].export \in Handle
    BY DEF TypeOK, EncRec
  <2>2. SetImport(q.mem, x, store[x].export) \in EncRec
    BY <1>1, <2>1, SetImportTyped
  <2>3. [q EXCEPT !.wire = @ \ {x}, !.changed = TRUE,
                  !.mem = SetImport(@, x, store[x].export)] \in RunRec
    BY <1>1, <2>2 DEF RunRec
  <2>4. [q EXCEPT !.wire = @ \ {x}, !.errs = TRUE] \in RunRec
    BY <1>1 DEF RunRec
  <2>5. [q EXCEPT !.wire = @ \ {x}] \in RunRec
    BY <1>1 DEF RunRec
  <2>6. run' \in [Request -> RunRec]
    BY <1>27, <2>3, <2>4, <2>5, BecomeTyped DEF TypeOK, WireImport
  <2>7. faults' \in 0 .. MaxFaults
    BY <1>3, <1>27 DEF WireImport
  <2> QED
    BY <1>27, <2>6, <2>7 DEF TypeOK, WireImport, yamlVars, cloudVars
<1>28. CASE SaveImporter(r)
  <2>1. [q EXCEPT !.pc = "imports"] \in RunRec
    BY <1>1 DEF RunRec, PC
  <2>2. run' \in [Request -> RunRec]
    BY <1>28, <2>1, BecomeTyped DEF TypeOK, SaveImporter
  <2>3. store' \in [Enclave -> EncRec]
    BY <1>1, <1>28 DEF TypeOK, SaveImporter, Upserted
  <2> QED
    BY <1>28, <2>2, <2>3 DEF TypeOK, SaveImporter, yamlVars, cloudVars
<1>29. CASE Finish(r)
  <2>1. run' \in [Request -> RunRec]
    BY <1>29, DefaultsTyped, BecomeTyped DEF TypeOK, Finish
  <2> QED
    BY <1>29, <2>1 DEF TypeOK, Finish, yamlVars, cloudVars
<1>30. CASE AbortRequest(r)
  <2>1. run' \in [Request -> RunRec]
    BY <1>30, DefaultsTyped, BecomeTyped DEF TypeOK, AbortRequest
  <2>2. faults' \in 0 .. MaxFaults
    BY <1>3, <1>30 DEF AbortRequest
  <2> QED
    BY <1>30, <2>1, <2>2, CutDoes DEF TypeOK
<1>31. CASE Start(r)
  BY <1>4, <1>5, <1>6, <1>31 DEF Start
<1>32. CASE Proceed(r)
  BY <1>7, <1>8, <1>9, <1>10, <1>11, <1>12, <1>13, <1>14, <1>15, <1>16, <1>17,
     <1>18, <1>19, <1>20, <1>21, <1>22, <1>23, <1>24, <1>25, <1>26, <1>27, <1>28,
     <1>29, <1>32 DEF Proceed
<1> QED
  BY <1>30, <1>31, <1>32

\* Every variable keeps its type: a reconcile run, a destroy, a crash or a commit
\* never leaves a record, a handle or a status outside the sets the code uses.
THEOREM TypeCorrect == Spec => []TypeOK
<1>1. ASSUME TypeOK, NEW e \in Enclave, NEW cf \in [Part -> Version], Commit(e, cf)
      PROVE  TypeOK'
  <2>1. version' \in 1 .. MaxVersion
    BY <1>1, ConstantsAssumption DEF Commit, TypeOK
  <2>2. listed' \subseteq Enclave
    BY <1>1 DEF Commit, TypeOK
  <2>3. conf' \in [Enclave -> [Part -> Version]]
    BY <1>1 DEF Commit, TypeOK
  <2> QED
    BY <1>1, <2>1, <2>2, <2>3 DEF Commit, TypeOK, cloudVars
<1>2. ASSUME TypeOK, NEW D \in DriverSets, Restart(D) PROVE TypeOK'
  <2>1. run' \in [Request -> RunRec]
    BY <1>2, DefaultsTyped DEF Restart
  <2>2. faults' \in 0 .. MaxFaults
    BY <1>2, ConstantsAssumption DEF Restart, Fault, TypeOK
  <2>3. drivers' \subseteq Enclave /\ workspace' \subseteq Enclave \X Part
    BY <1>2, ConstantsAssumption DEF Restart, TypeOK
  <2> QED
    BY <1>2, <2>1, <2>2, <2>3 DEF Restart, TypeOK, yamlVars, cloudVars
<1>3. TypeOK /\ UNCHANGED vars => TypeOK'
  BY DEF TypeOK, vars
<1>4. ASSUME TypeOK, NEW i \in locked, ForceUnlock(i) PROVE TypeOK'
  BY <1>4 DEF ForceUnlock, TypeOK, yamlVars
<1>5. TypeOK /\ [Next]_vars => TypeOK'
  BY <1>1, <1>2, <1>3, <1>4, TypeStep DEF Next
<1> QED
  BY <1>5, TypeInit, PTL DEF Spec

----------------------------------------------------------------------------
(* Requests that do not overlap. *)


\* Nothing is required of a request that is not in flight.
LEMMA IdleOK ==
  ASSUME NEW r \in Request, run[r].pc = "idle"
  PROVE  RequestOK(run[r])
  BY DEF RequestOK, BookedEnclave, BookedPartition, FreshSnapshot, TruthfulCopy

LEMMA Becomes ==
  ASSUME TypeOK, NEW r \in Request, NEW rec, Become(r, rec)
  PROVE  run'[r] = rec
  BY DEF TypeOK, Become

\* A step of a request leaves the others idle: only its own part of the
\* invariant is at stake.
LEMMA Alone ==
  ASSUME ~ Overlap, TypeOK, SerialInv,
         NEW r \in Request, run[r].pc # "idle" \/ MayStart(r),
         NEW rec, Become(r, rec),
         ActiveIsApplied', RequestOK(run[r])'
  PROVE  SerialInv'
<1>1. \A o \in Request : o # r => run[o].pc = "idle" /\ run'[o] = run[o]
  BY DEF TypeOK, SerialInv, AtMostOne, MayStart, Become
<1>2. AtMostOne'
  BY <1>1 DEF AtMostOne
<1>3. ASSUME NEW o \in Request PROVE RequestOK(run[o])'
  <2>1. CASE o = r
    BY <2>1
  <2>2. CASE o # r
    <3>1. run'[o].pc = "idle"
      BY <1>1, <2>2
    <3> QED
      BY <3>1 DEF RequestOK, BookedEnclave, BookedPartition, FreshSnapshot, TruthfulCopy
  <2> QED
    BY <2>1, <2>2
<1> QED
  BY <1>2, <1>3 DEF SerialInv

\* Requests begin without a promise to keep; reading the store makes one.
LEMMA SerialStart ==
  ASSUME ~ Overlap, TypeOK, SerialInv, NEW r \in Request, Start(r)
  PROVE  SerialInv'
<1> USE DEF SerialInv
<1>1. IdleRun \in RunRec
  BY DefaultsTyped
<1>2. ASSUME NEW ro \in ResourcesOnly, LoadYaml(r, ro) PROVE SerialInv'
  <2>1. ActiveIsApplied'
    BY <1>2 DEF LoadYaml, ActiveIsApplied, cloudVars
  <2>2. run'[r].pc = "list" /\ run'[r].op = "apply"
    BY <1>1, <1>2 DEF LoadYaml, Become, TypeOK, RunRec
  <2>3. RequestOK(run[r])'
    BY <2>2 DEF RequestOK, BookedEnclave, BookedPartition, FreshSnapshot, TruthfulCopy
  <2> QED
    BY <1>2, <2>1, <2>3, Alone DEF LoadYaml
<1>3. ASSUME NEW e \in Enclave, NEW ro \in ResourcesOnly, DestroyEnclave(r, e, ro)
      PROVE  SerialInv'
  <2>1. ActiveIsApplied'
    BY <1>3 DEF DestroyEnclave, ActiveIsApplied, cloudVars
  <2>2. run'[r].pc \in {"td", "forget"} /\ run'[r].op = "destroy"
    BY <1>1, <1>3 DEF DestroyEnclave, Become, TypeOK, RunRec
  <2>3. RequestOK(run[r])'
    BY <2>2 DEF RequestOK, BookedEnclave, BookedPartition, FreshSnapshot, TruthfulCopy
  <2> QED
    BY <1>3, <2>1, <2>3, Alone DEF DestroyEnclave
<1>4. ASSUME NEW e \in Enclave, NEW p \in Part, DestroyPartition(r, e, p)
      PROVE  SerialInv'
  <2>1. ActiveIsApplied'
    BY <1>4 DEF DestroyPartition, ActiveIsApplied, cloudVars
  <2>2. run'[r].pc = "td" /\ run'[r].op = "destroy_part"
    BY <1>1, <1>4 DEF DestroyPartition, Become, TypeOK, RunRec
  <2>3. RequestOK(run[r])'
    BY <2>2 DEF RequestOK, BookedEnclave, BookedPartition, FreshSnapshot, TruthfulCopy
  <2> QED
    BY <1>4, <2>1, <2>3, Alone DEF DestroyPartition
<1> QED
  BY <1>2, <1>3, <1>4 DEF Start

\* The teardown of an enclave or a partition.
LEMMA SerialTeardown ==
  ASSUME ~ Overlap, TypeOK, SerialInv, NEW r \in Request,
         \/ ListStore(r) \/ \E e \in Enclave : RemoveEnclave(r, e)
         \/ \E p \in Part : TerraformDestroy(r, p)
         \/ TeardownPartition(r) \/ TeardownEnclave(r) \/ Forget(r)
  PROVE  SerialInv'
<1> DEFINE q == run[r]
<1>1. /\ q \in RunRec /\ RequestOK(q) /\ ActiveIsApplied /\ IdleRun \in RunRec
      /\ IdleRun.pc = "idle" /\ run \in [Request -> RunRec]
      /\ res \in [Enclave \X Part -> Resource] /\ q.enc \in Enclave
  BY DefaultsTyped DEF TypeOK, SerialInv, RunRec
<1>2. CASE ListStore(r)
  <2>1. ActiveIsApplied'
    BY <1>1, <1>2 DEF ListStore, ActiveIsApplied, cloudVars
  <2>2. /\ run'[r].pc = "remove" /\ run'[r].op = "apply" /\ run'[r].snap = store
        /\ run'[r].todo \cap run'[r].want = {}
    BY <1>1, <1>2 DEF ListStore, Become, TypeOK, RunRec, RequestOK, FreshSnapshot
  <2>3. store' = store
    BY <1>2 DEF ListStore
  <2>4. RequestOK(run[r])'
    BY <2>2, <2>3 DEF RequestOK, BookedEnclave, BookedPartition, FreshSnapshot, TruthfulCopy
  <2> QED
    BY <1>2, <2>1, <2>4, Alone DEF ListStore
<1>3. ASSUME NEW e \in Enclave, RemoveEnclave(r, e) PROVE SerialInv'
  <2>1. ActiveIsApplied' /\ store' = store
    BY <1>1, <1>3 DEF RemoveEnclave, ActiveIsApplied, cloudVars
  <2>2. /\ run'[r].pc \in {"td", "forget"} /\ run'[r].op = q.op /\ q.op = "apply"
        /\ run'[r].enc = e /\ run'[r].todo = q.todo \ {e}
        /\ run'[r].want = q.want /\ run'[r].snap = q.snap
    BY <1>1, <1>3 DEF RemoveEnclave, Become, TypeOK, RunRec, RequestOK, FreshSnapshot
  <2>3. /\ q.todo \cap q.want = {} /\ e \in q.todo
        /\ \A x \in q.want : q.snap[x] = store[x]
    BY <1>1, <1>3, <2>2 DEF RemoveEnclave, RequestOK, FreshSnapshot
  <2>4. RequestOK(run[r])'
    BY <2>1, <2>2, <2>3
       DEF RequestOK, BookedEnclave, BookedPartition, FreshSnapshot, TruthfulCopy
  <2> QED
    BY <1>3, <2>1, <2>4, Alone DEF RemoveEnclave
<1>4. ASSUME NEW p \in Part, TerraformDestroy(r, p) PROVE SerialInv'
  <2>1. ActiveIsApplied' /\ store' = store
    <3>1. \A i \in Enclave \X Part : i # <<q.enc, p>> => res'[i] = res[i]
      BY <1>1, <1>4 DEF TerraformDestroy, HalfDestroyed
    <3>2. /\ store' = store /\ project' = project
          /\ torn' = torn \cup {<<q.enc, p>>}
      BY <1>4 DEF TerraformDestroy
    <3> QED
      BY <1>1, <3>1, <3>2 DEF ActiveIsApplied
  <2>2. /\ run'[r].pc = "td_sa" /\ run'[r].op = q.op
        /\ run'[r].enc = q.enc /\ run'[r].todo = q.todo
        /\ run'[r].want = q.want /\ run'[r].snap = q.snap
    <3>1. \/ run'[r] = [q EXCEPT !.pc = "td_sa", !.part = p]
          \/ run'[r] = [q EXCEPT !.pc = "td_sa", !.part = p, !.errs = TRUE]
      BY <1>4, Becomes DEF TerraformDestroy
    <3> QED
      BY <1>1, <3>1 DEF RunRec
  <2>3. q.pc = "td"
    BY <1>4 DEF TerraformDestroy
  <2>4. RequestOK(run[r])'
    BY <1>1, <2>1, <2>2, <2>3
       DEF RequestOK, BookedEnclave, BookedPartition, FreshSnapshot, TruthfulCopy
  <2> QED
    BY <1>4, <2>1, <2>4, Alone DEF TerraformDestroy
<1>5. CASE TeardownPartition(r)
  <2>1. ActiveIsApplied' /\ store' = store
    BY <1>1, <1>5 DEF TeardownPartition, ActiveIsApplied
  <2>2. /\ run'[r].pc = "td" /\ run'[r].op = q.op
        /\ run'[r].enc = q.enc /\ run'[r].todo = q.todo
        /\ run'[r].want = q.want /\ run'[r].snap = q.snap
    <3>1. \/ run'[r] = [q EXCEPT !.pc = "td", !.pend = @ \ {q.part}]
          \/ run'[r] = [q EXCEPT !.pc = "td", !.pend = @ \ {q.part},
                                 !.errs = @ \/ q.op # "apply"]
      BY <1>5, Becomes DEF TeardownPartition
    <3> QED
      BY <1>1, <3>1 DEF RunRec
  <2>3. q.pc = "td_sa"
    BY <1>5 DEF TeardownPartition
  <2>4. RequestOK(run[r])'
    BY <1>1, <2>1, <2>2, <2>3
       DEF RequestOK, BookedEnclave, BookedPartition, FreshSnapshot, TruthfulCopy
  <2> QED
    BY <1>5, <2>1, <2>4, Alone DEF TeardownPartition
<1>6. CASE TeardownEnclave(r)
  <2>1. q.pc = "td" /\ store' = store
    BY <1>6 DEF TeardownEnclave
  <2>2. \/ UNCHANGED <<project, res>> /\ torn \subseteq torn'
        \/ DeleteProject(q.enc) /\ torn' = torn \cup ({q.enc} \X Part)
    BY <1>6 DEF TeardownEnclave, cloudVars
  <2>3. ActiveIsApplied'
    <3>1. CASE UNCHANGED <<project, res>> /\ torn \subseteq torn'
      BY <1>1, <2>1, <3>1 DEF ActiveIsApplied
    <3>2. CASE DeleteProject(q.enc) /\ torn' = torn \cup ({q.enc} \X Part)
      BY <1>1, <2>1, <3>2 DEF ActiveIsApplied, DeleteProject, TypeOK
    <3> QED
      BY <2>2, <3>1, <3>2
  <2>4. \/ run'[r] = IdleRun
        \/ /\ run'[r].pc = "forget" /\ run'[r].op = q.op
           /\ run'[r].enc = q.enc /\ run'[r].todo = q.todo
           /\ run'[r].want = q.want /\ run'[r].snap = q.snap
    <3>1. \/ run'[r] = [q EXCEPT !.pc = "forget"]
          \/ run'[r] = AfterFailedTeardown(q)
      BY <1>6, Becomes DEF TeardownEnclave
    <3>2. q \in RunRec
      BY <1>1
    <3>3. CASE run'[r] = [q EXCEPT !.pc = "forget"]
      BY <3>2, <3>3 DEF RunRec
    <3>4. CASE run'[r] = AfterFailedTeardown(q)
      BY <3>2, <3>4 DEF RunRec, AfterFailedTeardown
    <3> QED
      BY <3>1, <3>3, <3>4
  <2>5. RequestOK(run[r])'
    BY <1>1, <2>1, <2>4
       DEF RequestOK, BookedEnclave, BookedPartition, FreshSnapshot, TruthfulCopy
  <2>6. \E rec : Become(r, rec)
    BY <1>6 DEF TeardownEnclave
  <2> QED
    BY <2>1, <2>3, <2>5, <2>6, Alone
<1>7. CASE Forget(r)
  <2>1. q.pc = "forget" /\ q.part \in Part
    BY <1>1, <1>7 DEF Forget, RunRec
  <2>2. /\ project' = project /\ res' = res
        /\ \A e \in Enclave : e # q.enc => store'[e] = store[e]
    BY <1>1, <1>7 DEF Forget, TypeOK, cloudVars
  <2>3. ActiveIsApplied'
    <3>1. CASE q.op = "destroy_part"
      <4>1. /\ store' = [store EXCEPT ![q.enc] = SetPart(store[q.enc], q.part, NoPart)]
            /\ torn' = torn \ {<<q.enc, q.part>>}
        BY <1>7, <3>1 DEF Forget
      <4>2. store[q.enc] \in EncRec /\ NoPart \in PartRec /\ NoPart.status = "none"
        BY <1>1, DefaultsTyped DEF TypeOK, NoPart
      <4>3. store'[q.enc].parts = [store[q.enc].parts EXCEPT ![q.part] = NoPart]
        <5>1. store'[q.enc] = SetPart(store[q.enc], q.part, NoPart)
          BY <1>1, <4>1 DEF TypeOK
        <5>2. SetPart(store[q.enc], q.part, NoPart).parts
                = [store[q.enc].parts EXCEPT ![q.part] = NoPart]
          BY <2>1, <4>2, SetPartTyped
        <5> QED
          BY <5>1, <5>2
      <4>4. store[q.enc].parts \in [Part -> PartRec]
        BY <4>2 DEF EncRec
      <4> QED
        BY <1>1, <2>1, <2>2, <4>1, <4>2, <4>3, <4>4 DEF ActiveIsApplied
    <3>2. CASE q.op # "destroy_part"
      <4>1. store'[q.enc] = NoRec /\ torn' = torn \ ({q.enc} \X Part)
        BY <1>1, <1>7, <3>2 DEF Forget, TypeOK
      <4>2. \A p \in Part : NoRec.parts[p].status # "active"
        BY DEF NoRec, NoPart
      <4> QED
        BY <1>1, <2>2, <4>1, <4>2 DEF ActiveIsApplied
    <3> QED
      BY <3>1, <3>2
  <2>4. run'[r] = IF q.op = "apply" THEN [q EXCEPT !.pc = "remove"] ELSE IdleRun
    BY <1>7, Becomes DEF Forget
  <2>5. \/ run'[r].pc = "idle"
        \/ /\ run'[r].pc = "remove" /\ run'[r].op = q.op /\ q.op = "apply"
           /\ run'[r].todo = q.todo /\ run'[r].want = q.want /\ run'[r].snap = q.snap
    BY <1>1, <2>4 DEF RunRec
  <2>6. RequestOK(run[r])'
    BY <1>1, <2>1, <2>2, <2>5
       DEF RequestOK, BookedEnclave, BookedPartition, FreshSnapshot, TruthfulCopy, RunRec
  <2> QED
    BY <1>7, <2>1, <2>3, <2>6, Alone DEF Forget
<1> QED
  BY <1>2, <1>3, <1>4, <1>5, <1>6, <1>7

\* Provisioning the enclaves of the YAML, up to their partitions.
LEMMA SerialEnclave ==
  ASSUME ~ Overlap, TypeOK, SerialInv, NEW r \in Request,
         \/ BeginEnclaves(r)
         \/ \E e \in Enclave : SkipEnclave(r, e) \/ EnclaveBegin(r, e)
         \/ ProvisionEnclave(r) \/ EnclaveError(r) \/ ProvisionExport(r)
         \/ SaveEnclave(r) \/ \E p \in Part : SkipPartition(r, p)
  PROVE  SerialInv'
<1> DEFINE q == run[r]
<1>1. /\ q \in RunRec /\ RequestOK(q) /\ ActiveIsApplied
      /\ store \in [Enclave -> EncRec] /\ q.enc \in Enclave /\ q.mem \in EncRec
  BY DEF TypeOK, SerialInv, RunRec
<1>2. CASE BeginEnclaves(r)
  <2>1. ActiveIsApplied' /\ store' = store
    BY <1>1, <1>2 DEF BeginEnclaves, ActiveIsApplied, cloudVars
  <2>2. run'[r] = [q EXCEPT !.pc = "enclaves", !.todo = q.want] /\ q.pc = "remove"
    BY <1>2, Becomes DEF BeginEnclaves
  <2>3. /\ run'[r].pc = "enclaves" /\ run'[r].op = q.op /\ run'[r].snap = q.snap
        /\ run'[r].todo = q.want
    BY <1>1, <2>2 DEF RunRec
  <2>4. RequestOK(run[r])'
    BY <1>1, <2>1, <2>2, <2>3
       DEF RequestOK, BookedEnclave, BookedPartition, FreshSnapshot, TruthfulCopy
  <2> QED
    BY <1>2, <2>1, <2>2, <2>4, Alone DEF BeginEnclaves
<1>3. ASSUME NEW e \in Enclave, SkipEnclave(r, e) PROVE SerialInv'
  <2>1. ActiveIsApplied' /\ store' = store
    BY <1>1, <1>3 DEF SkipEnclave, ActiveIsApplied, cloudVars
  <2>2. run'[r] = [q EXCEPT !.todo = @ \ {e}, !.errs = TRUE] /\ q.pc = "enclaves"
    BY <1>3, Becomes DEF SkipEnclave
  <2>3. /\ run'[r].pc = "enclaves" /\ run'[r].op = q.op /\ run'[r].snap = q.snap
        /\ run'[r].todo = q.todo \ {e}
    BY <1>1, <2>2 DEF RunRec
  <2>4. RequestOK(run[r])'
    BY <1>1, <2>1, <2>2, <2>3
       DEF RequestOK, BookedEnclave, BookedPartition, FreshSnapshot, TruthfulCopy
  <2> QED
    BY <1>3, <2>1, <2>2, <2>4, Alone DEF SkipEnclave
<1>4. ASSUME NEW e \in Enclave, EnclaveBegin(r, e) PROVE SerialInv'
  <2> DEFINE mem == [q.snap[e] EXCEPT !.status = InFlight(q.snap[e].status # "none")]
  <2>1. q.pc = "enclaves" /\ e \in q.todo /\ q.op = "apply" /\ q.snap[e] = store[e]
    BY <1>1, <1>4 DEF EnclaveBegin, NextInOrder, RequestOK, FreshSnapshot
  <2>2. /\ mem.parts = store[e].parts /\ mem.status # "none"
    BY <1>1, <2>1 DEF EncRec, InFlight
  <2>3. run'[r] = [q EXCEPT !.pc = "enc", !.enc = e, !.mem = mem, !.todo = @ \ {e}]
    BY <1>4, Becomes DEF EnclaveBegin
  <2>4. store' = [store EXCEPT ![e] = mem]
    BY <1>4 DEF EnclaveBegin, Upserted
  <2> HIDE DEF mem
  <2>5. /\ run'[r].pc = "enc" /\ run'[r].enc = e /\ run'[r].mem = mem
        /\ run'[r].todo = q.todo \ {e} /\ run'[r].snap = q.snap /\ run'[r].op = q.op
    BY <1>1, <2>3 DEF RunRec
  <2>6. /\ project' = project /\ res' = res /\ torn' = torn
    BY <1>4 DEF EnclaveBegin, cloudVars
  <2>7. ActiveIsApplied'
    BY <1>1, <2>2, <2>4, <2>6 DEF ActiveIsApplied
  <2>8. BookedEnclave(run[r])' /\ BookedPartition(run[r])'
    BY <1>1, <2>2, <2>4, <2>5 DEF BookedEnclave, BookedPartition
  <2>9. FreshSnapshot(run[r])'
    BY <1>1, <2>1, <2>4, <2>5 DEF FreshSnapshot, RequestOK, RunRec
  <2>10. TruthfulCopy(run[r])'
    BY <1>1, <2>2, <2>5, <2>6 DEF TruthfulCopy, ActiveIsApplied
  <2>11. q.pc # "idle" /\ \E rec : Become(r, rec)
    BY <1>4 DEF EnclaveBegin
  <2> QED
    BY <2>7, <2>8, <2>9, <2>10, <2>11, Alone DEF RequestOK
<1>5. CASE ProvisionEnclave(r)
  <2>1. q.pc = "enc" /\ store' = store /\ res' = res /\ torn' = torn /\ project \subseteq project'
    BY <1>5 DEF ProvisionEnclave
  <2> DEFINE good == [q.mem EXCEPT !.handle = TRUE, !.status = "active"]
             bad  == [q.mem EXCEPT !.status = "error"]
  <2>2. \/ run'[r] = [q EXCEPT !.pc = "parts", !.pend = Declared(q.conf, q.enc),
                               !.mem = good]
        \/ run'[r] = [q EXCEPT !.pc = "enc_err", !.errs = TRUE, !.mem = bad]
    BY <1>5, Becomes DEF ProvisionEnclave
  <2>3. /\ good.parts = q.mem.parts /\ good.status = "active" /\ good.handle
        /\ bad.parts = q.mem.parts /\ bad.status = "error"
    BY <1>1 DEF EncRec
  <2> HIDE DEF good, bad
  <2>4. /\ run'[r].pc \in {"parts", "enc_err"} /\ run'[r].enc = q.enc
        /\ run'[r].mem.parts = q.mem.parts /\ run'[r].mem.status # "none"
        /\ run'[r].pc = "parts" => run'[r].mem.handle
        /\ run'[r].todo = q.todo /\ run'[r].snap = q.snap /\ run'[r].op = q.op
    BY <1>1, <2>2, <2>3 DEF RunRec
  <2>5. ActiveIsApplied'
    <3>1. ActiveIsApplied
      BY <1>1
    <3> QED
      BY <2>1, <3>1 DEF ActiveIsApplied
  <2>6. RequestOK(run[r])'
    <3>1. /\ BookedEnclave(q) /\ FreshSnapshot(q) /\ TruthfulCopy(q)
          /\ q.enc \in Enclave
      BY <1>1 DEF RequestOK
    <3>2. BookedEnclave(run[r])' /\ BookedPartition(run[r])' /\ FreshSnapshot(run[r])'
      BY <2>1, <2>4, <3>1 DEF BookedEnclave, BookedPartition, FreshSnapshot
    <3>3. TruthfulCopy(run[r])'
      BY <2>1, <2>4, <3>1 DEF TruthfulCopy
    <3> QED
      BY <3>2, <3>3 DEF RequestOK
  <2>7. \E rec : Become(r, rec)
    BY <1>5 DEF ProvisionEnclave
  <2> QED
    BY <2>1, <2>5, <2>6, <2>7, Alone
<1>6. ASSUME EnclaveError(r) \/ SaveEnclave(r) PROVE SerialInv'
  <2>1. /\ q.pc \in {"enc_err", "save"} /\ store' = [store EXCEPT ![q.enc] = q.mem]
        /\ project' = project /\ res' = res /\ torn' = torn
    BY <1>6 DEF EnclaveError, SaveEnclave, Upserted, cloudVars
  <2>2. run'[r] = [q EXCEPT !.pc = "enclaves"]
    BY <1>6, Becomes DEF EnclaveError, SaveEnclave
  <2>3. /\ run'[r].pc = "enclaves" /\ run'[r].todo = q.todo /\ run'[r].snap = q.snap
        /\ run'[r].op = q.op
    BY <1>1, <2>2 DEF RunRec
  <2>4. ActiveIsApplied'
    BY <1>1, <2>1 DEF ActiveIsApplied, RequestOK, TruthfulCopy
  <2>5. RequestOK(run[r])'
    BY <1>1, <2>1, <2>3
       DEF RequestOK, BookedEnclave, BookedPartition, FreshSnapshot, TruthfulCopy, RunRec
  <2>6. \E rec : Become(r, rec)
    BY <1>6 DEF EnclaveError, SaveEnclave
  <2> QED
    BY <2>1, <2>4, <2>5, <2>6, Alone
<1>7. CASE ProvisionExport(r)
  <2>1. /\ q.pc = "parts" /\ store' = store
        /\ project' = project /\ res' = res /\ torn' = torn
    BY <1>7 DEF ProvisionExport, cloudVars
  <2> DEFINE mem == [q.mem EXCEPT !.export = q.mem.parts[ExportOf[q.enc]].out]
  <2>2. \/ run'[r] = [q EXCEPT !.pc = "save", !.mem = mem]
        \/ run'[r] = [q EXCEPT !.pc = "save", !.errs = TRUE]
        \/ run'[r] = [q EXCEPT !.pc = "save"]
    BY <1>7, Becomes DEF ProvisionExport
  <2>3. /\ mem.parts = q.mem.parts /\ mem.status = q.mem.status
        /\ mem.handle = q.mem.handle
    BY <1>1 DEF EncRec
  <2> HIDE DEF mem
  <2>4. /\ run'[r].pc = "save" /\ run'[r].enc = q.enc
        /\ run'[r].mem.parts = q.mem.parts /\ run'[r].mem.status = q.mem.status
        /\ run'[r].mem.handle = q.mem.handle
        /\ run'[r].todo = q.todo /\ run'[r].snap = q.snap /\ run'[r].op = q.op
    BY <1>1, <2>2, <2>3 DEF RunRec
  <2>5. ActiveIsApplied'
    BY <1>1, <2>1 DEF ActiveIsApplied
  <2>6. RequestOK(run[r])'
    BY <1>1, <2>1, <2>4
       DEF RequestOK, BookedEnclave, BookedPartition, FreshSnapshot, TruthfulCopy
  <2>7. \E rec : Become(r, rec)
    BY <1>7 DEF ProvisionExport
  <2> QED
    BY <2>1, <2>5, <2>6, <2>7, Alone
<1>8. ASSUME NEW p \in Part, SkipPartition(r, p) PROVE SerialInv'
  <2>1. /\ q.pc = "parts" /\ store' = store
        /\ project' = project /\ res' = res /\ torn' = torn
    BY <1>8 DEF SkipPartition, cloudVars
  <2>2. run'[r] = [q EXCEPT !.pend = @ \ {p}]
    BY <1>8, Becomes DEF SkipPartition
  <2>3. /\ run'[r].pc = q.pc /\ run'[r].enc = q.enc /\ run'[r].mem = q.mem
        /\ run'[r].todo = q.todo /\ run'[r].snap = q.snap /\ run'[r].op = q.op
    BY <1>1, <2>2 DEF RunRec
  <2>4. ActiveIsApplied'
    BY <1>1, <2>1 DEF ActiveIsApplied
  <2>5. RequestOK(run[r])'
    BY <1>1, <2>1, <2>3
       DEF RequestOK, BookedEnclave, BookedPartition, FreshSnapshot, TruthfulCopy
  <2>6. \E rec : Become(r, rec)
    BY <1>8 DEF SkipPartition
  <2> QED
    BY <2>1, <2>4, <2>5, <2>6, Alone
<1> QED
  BY <1>2, <1>3, <1>4, <1>5, <1>6, <1>7, <1>8

\* Provisioning one partition.
LEMMA SerialPartition ==
  ASSUME ~ Overlap, TypeOK, SerialInv, NEW r \in Request,
         \/ \E p \in Part : PartitionBegin(r, p)
         \/ ProvisionPartition(r) \/ SaveHandle(r) \/ TerraformApply(r)
  PROVE  SerialInv'
<1> DEFINE q == run[r]
<1>1. /\ q \in RunRec /\ RequestOK(q) /\ ActiveIsApplied
      /\ store \in [Enclave -> EncRec] /\ q.enc \in Enclave /\ q.mem \in EncRec
      /\ q.part \in Part /\ q.mem.parts \in [Part -> PartRec]
      /\ res \in [Enclave \X Part -> Resource]
  BY DEF TypeOK, SerialInv, RunRec, EncRec
<1>2. ASSUME NEW p \in Part, PartitionBegin(r, p) PROVE SerialInv'
  <2> DEFINE ps  == [q.mem.parts[p] EXCEPT !.status = InFlight(q.mem.parts[p].handle)]
             mem == SetPart(q.mem, p, ps)
  <2>1. q.mem.parts[p] \in PartRec
    BY <1>1
  <2>2. ps \in PartRec /\ ps.status \in {"provisioning", "updating"}
    BY <2>1 DEF PartRec, InFlight, Status
  <2>3. /\ q.pc = "parts" /\ store' = [store EXCEPT ![q.enc] = mem]
        /\ project' = project /\ res' = res /\ torn' = torn
    BY <1>2 DEF PartitionBegin, Upserted, cloudVars
  <2>4. run'[r] = [q EXCEPT !.pc = "sa", !.part = p, !.mem = mem, !.pend = @ \ {p}]
    BY <1>2, Becomes DEF PartitionBegin
  <2> HIDE DEF ps
  <2>5. /\ mem.parts = [q.mem.parts EXCEPT ![p] = ps]
        /\ mem.status = q.mem.status /\ mem.handle = q.mem.handle
    <3>1. q.mem \in EncRec /\ ps \in PartRec
      BY <1>1, <2>2
    <3> QED
      BY <3>1, SetPartTyped
  <2> HIDE DEF mem
  <2>6. /\ run'[r].pc = "sa" /\ run'[r].enc = q.enc /\ run'[r].mem = mem
        /\ run'[r].part = p
        /\ run'[r].todo = q.todo /\ run'[r].snap = q.snap /\ run'[r].op = q.op
    BY <1>1, <2>4 DEF RunRec
  <2>7. q.mem.handle /\ q.mem.status # "none"
    BY <1>1, <2>3 DEF RequestOK, BookedEnclave
  <2>8. TruthfulCopy(run[r])'
    BY <1>1, <2>2, <2>3, <2>5, <2>6 DEF RequestOK, TruthfulCopy
  <2>9. ActiveIsApplied'
    BY <1>1, <2>3, <2>6, <2>8 DEF ActiveIsApplied, TruthfulCopy
  <2>10. BookedEnclave(run[r])' /\ BookedPartition(run[r])'
    BY <1>1, <2>2, <2>3, <2>5, <2>6, <2>7 DEF BookedEnclave, BookedPartition
  <2>11. FreshSnapshot(run[r])'
    BY <1>1, <2>3, <2>6 DEF FreshSnapshot, RequestOK, RunRec
  <2>12. \E rec : Become(r, rec)
    BY <1>2 DEF PartitionBegin
  <2> QED
    BY <2>3, <2>8, <2>9, <2>10, <2>11, <2>12, Alone DEF RequestOK
<1>3. CASE ProvisionPartition(r)
  <2> DEFINE new == [q.mem.parts[q.part] EXCEPT !.handle = TRUE]
             bad == MarkError(q.mem.parts[q.part])
  <2>1. q.mem.parts[q.part] \in PartRec
    BY <1>1
  <2>2. new \in PartRec /\ bad \in PartRec /\ new.status = q.mem.parts[q.part].status
        /\ bad.status = "error"
    BY <2>1 DEF PartRec, MarkError, Status
  <2>3. /\ q.pc = "sa" /\ store' = store
        /\ project' = project /\ res' = res /\ torn' = torn
    BY <1>3 DEF ProvisionPartition
  <2>4. \/ run'[r] = [q EXCEPT !.pc = "sa_save", !.mem = SetPart(@, q.part, new)]
        \/ run'[r] = [q EXCEPT !.pc = "parts", !.errs = TRUE,
                               !.mem = SetPart(@, q.part, bad)]
    BY <1>3, Becomes DEF ProvisionPartition, PartitionFailed
  <2> HIDE DEF new, bad
  <2>5. PICK ps \in PartRec, mem \in EncRec :
          /\ mem = SetPart(q.mem, q.part, ps) /\ run'[r].mem = mem
          /\ \/ run'[r].pc = "sa_save" /\ ps.status = q.mem.parts[q.part].status
             \/ run'[r].pc = "parts" /\ ps.status = "error"
    <3>1. SetPart(q.mem, q.part, new) \in EncRec /\ SetPart(q.mem, q.part, bad) \in EncRec
      BY <1>1, <2>2, SetPartTyped
    <3> QED
      BY <1>1, <2>2, <2>4, <3>1 DEF RunRec
  <2>6. /\ mem.parts = [q.mem.parts EXCEPT ![q.part] = ps]
        /\ mem.status = q.mem.status /\ mem.handle = q.mem.handle
    <3>1. q.mem \in EncRec /\ q.part \in Part /\ ps \in PartRec
          /\ mem = SetPart(q.mem, q.part, ps)
      BY <1>1, <2>2, <2>5
    <3> QED
      BY <3>1, SetPartTyped
  <2>7. /\ run'[r].enc = q.enc /\ run'[r].part = q.part
        /\ run'[r].todo = q.todo /\ run'[r].snap = q.snap /\ run'[r].op = q.op
    BY <1>1, <2>4 DEF RunRec
  <2>8. ActiveIsApplied'
    BY <1>1, <2>3 DEF ActiveIsApplied
  <2>9. /\ q.mem.parts[q.part].status \in {"provisioning", "updating"}
        /\ store[q.enc].handle /\ q.mem.handle
        /\ store[q.enc].parts[q.part].status \in {"provisioning", "updating"}
    BY <1>1, <2>3 DEF RequestOK, BookedEnclave, BookedPartition
  <2>10. BookedEnclave(run[r])' /\ BookedPartition(run[r])'
    BY <1>1, <2>3, <2>5, <2>6, <2>7, <2>9 DEF RequestOK, BookedEnclave, BookedPartition
  <2>11. FreshSnapshot(run[r])'
    BY <1>1, <2>3, <2>5, <2>7 DEF FreshSnapshot, RequestOK
  <2>12. TruthfulCopy(run[r])'
    <3>1. run'[r].pc # "imp" /\ run'[r].mem.parts = [q.mem.parts EXCEPT ![q.part] = ps]
      BY <2>5, <2>6
    <3>2. ASSUME NEW p \in Part, ps.status # "active",
                 [q.mem.parts EXCEPT ![q.part] = ps][p].status = "active"
          PROVE  q.mem.parts[p].status = "active"
                 /\ [q.mem.parts EXCEPT ![q.part] = ps][p] = q.mem.parts[p]
      BY <1>1, <2>2, <3>2 DEF EncRec
    <3>3. \A p \in Part :
            q.mem.parts[p].status = "active" /\ <<q.enc, p>> \notin torn =>
              q.enc \in project /\ res[<<q.enc, p>>] = q.mem.parts[p].hash
      BY <1>1, <2>3 DEF RequestOK, TruthfulCopy
    <3>4. ps.status # "active"
      BY <2>5, <2>9
    <3> QED
      BY <2>3, <2>7, <3>1, <3>2, <3>3, <3>4 DEF TruthfulCopy
  <2>13. \E rec : Become(r, rec)
    BY <1>3 DEF ProvisionPartition
  <2> QED
    BY <2>3, <2>8, <2>10, <2>11, <2>12, <2>13, Alone DEF RequestOK
<1>4. CASE SaveHandle(r)
  <2>1. /\ q.pc = "sa_save" /\ store' \in {store, [store EXCEPT ![q.enc] = q.mem]}
        /\ project' = project /\ res' = res /\ torn' = torn
    BY <1>4 DEF SaveHandle, Upserted, cloudVars
  <2>2. run'[r] = [q EXCEPT !.pc = "tf"]
    BY <1>4, Becomes DEF SaveHandle
  <2>3. /\ run'[r].pc = "tf" /\ run'[r].enc = q.enc /\ run'[r].mem = q.mem
        /\ run'[r].part = q.part
        /\ run'[r].todo = q.todo /\ run'[r].snap = q.snap /\ run'[r].op = q.op
    BY <1>1, <2>2 DEF RunRec
  <2>4. ActiveIsApplied'
    BY <1>1, <2>1 DEF ActiveIsApplied, RequestOK, TruthfulCopy
  <2>5. BookedEnclave(run[r])' /\ BookedPartition(run[r])'
    BY <1>1, <2>1, <2>3 DEF RequestOK, BookedEnclave, BookedPartition
  <2>6. FreshSnapshot(run[r])'
    BY <1>1, <2>1, <2>3 DEF FreshSnapshot, RequestOK, RunRec
  <2>7. TruthfulCopy(run[r])'
    BY <1>1, <2>1, <2>3 DEF RequestOK, TruthfulCopy
  <2>8. \E rec : Become(r, rec)
    BY <1>4 DEF SaveHandle
  <2> QED
    BY <2>1, <2>4, <2>5, <2>6, <2>7, <2>8, Alone DEF RequestOK
<1>5. CASE TerraformApply(r)
  <2> DEFINE v   == q.conf[q.enc][q.part]
             new == [MarkActive(q.mem.parts[q.part], v) EXCEPT !.out = v]
             bad == MarkError(q.mem.parts[q.part])
  <2>1. q.mem.parts[q.part] \in PartRec /\ v \in Version
    BY <1>1 DEF RunRec
  <2>2. /\ new \in PartRec /\ bad \in PartRec /\ new.status = "active" /\ new.hash = v
        /\ bad.status = "error"
    BY <2>1 DEF PartRec, MarkActive, MarkError, Status
  <2>3. /\ q.pc = "tf" /\ store' = store /\ project' = project
        /\ \A i \in Enclave \X Part : i # <<q.enc, q.part>> =>
              res'[i] = res[i] /\ (i \in torn' <=> i \in torn)
    BY <1>1, <1>5 DEF TerraformApply
  <2>4. \/ /\ q.enc \in project /\ res'[<<q.enc, q.part>>] = v
           /\ run'[r] = [q EXCEPT !.pc = "parts", !.mem = SetPart(@, q.part, new)]
        \/ run'[r] = [q EXCEPT !.pc = "parts", !.errs = TRUE,
                               !.mem = SetPart(@, q.part, bad)]
    BY <1>1, <1>5, Becomes DEF TerraformApply, PartitionFailed
  <2> HIDE DEF new, bad
  <2>5. PICK ps \in PartRec, mem \in EncRec :
          /\ mem = SetPart(q.mem, q.part, ps) /\ run'[r].mem = mem
          /\ run'[r].pc = "parts"
          /\ ps.status = "active" => q.enc \in project /\ res'[<<q.enc, q.part>>] = ps.hash
    <3>1. SetPart(q.mem, q.part, new) \in EncRec /\ SetPart(q.mem, q.part, bad) \in EncRec
      BY <1>1, <2>2, SetPartTyped
    <3> QED
      BY <1>1, <2>2, <2>4, <3>1 DEF RunRec
  <2>6. /\ mem.parts = [q.mem.parts EXCEPT ![q.part] = ps]
        /\ mem.status = q.mem.status /\ mem.handle = q.mem.handle
    <3>1. q.mem \in EncRec /\ q.part \in Part /\ mem = SetPart(q.mem, q.part, ps)
      BY <1>1, <2>5
    <3> QED
      BY <3>1, SetPartTyped
  <2>7. /\ run'[r].enc = q.enc
        /\ run'[r].todo = q.todo /\ run'[r].snap = q.snap /\ run'[r].op = q.op
    BY <1>1, <2>4 DEF RunRec
  <2>8. store[q.enc].parts[q.part].status \in {"provisioning", "updating"}
    BY <1>1, <2>3 DEF RequestOK, BookedPartition
  <2>9. ActiveIsApplied'
    BY <1>1, <2>3, <2>8 DEF ActiveIsApplied
  <2>10. BookedEnclave(run[r])' /\ BookedPartition(run[r])'
    BY <1>1, <2>3, <2>5, <2>6, <2>7 DEF RequestOK, BookedEnclave, BookedPartition
  <2>11. FreshSnapshot(run[r])'
    BY <1>1, <2>3, <2>5, <2>7 DEF FreshSnapshot, RequestOK
  <2>12. TruthfulCopy(run[r])'
    BY <1>1, <2>3, <2>5, <2>6, <2>7 DEF RequestOK, TruthfulCopy
  <2>13. \E rec : Become(r, rec)
    BY <1>5 DEF TerraformApply
  <2> QED
    BY <2>3, <2>9, <2>10, <2>11, <2>12, <2>13, Alone DEF RequestOK
<1> QED
  BY <1>2, <1>3, <1>4, <1>5

\* Wiring the imports, and the ends of a request.
LEMMA SerialImports ==
  ASSUME ~ Overlap, TypeOK, SerialInv, NEW r \in Request,
         \/ BeginImports(r) \/ \E e \in Enclave : ReadImporter(r, e)
         \/ \E x \in Enclave : WireImport(r, x)
         \/ SaveImporter(r) \/ Finish(r) \/ AbortRequest(r)
  PROVE  SerialInv'
<1> DEFINE q == run[r]
<1>1. /\ q \in RunRec /\ RequestOK(q) /\ ActiveIsApplied
      /\ store \in [Enclave -> EncRec] /\ q.enc \in Enclave /\ q.mem \in EncRec
      /\ IdleRun.pc = "idle"
  BY DefaultsTyped DEF TypeOK, SerialInv, RunRec
<1>2. CASE BeginImports(r) \/ Finish(r) \/ AbortRequest(r)
  <2>1. ActiveIsApplied' /\ q.pc # "idle"
    <3>1. CASE BeginImports(r) \/ Finish(r)
      BY <1>1, <3>1 DEF BeginImports, Finish, ActiveIsApplied, cloudVars
    <3>2. CASE AbortRequest(r)
      <4>1. /\ store' = store /\ project' = project /\ torn \subseteq torn'
            /\ q.pc # "idle" /\ res \in [Enclave \X Part -> Resource]
        BY <3>2, CutDoes DEF AbortRequest, TypeOK
      <4>2. ASSUME NEW e \in Enclave, NEW p \in Part,
                   store[e].parts[p].status = "active", <<e, p>> \notin torn'
            PROVE  res'[<<e, p>>] = res[<<e, p>>]
        <5>1. CASE res' = res
          BY <5>1
        <5>2. CASE /\ q.pc = "tf"
                   /\ \E left : res' = [res EXCEPT ![<<q.enc, q.part>>] = left]
          <6>1. store[q.enc].parts[q.part].status # "active"
            BY <1>1, <5>2 DEF RequestOK, BookedPartition
          <6>2. <<e, p>> # <<q.enc, q.part>>
            BY <4>2, <6>1
          <6> QED
            BY <4>1, <5>2, <6>2
        <5>3. CASE \E o \in Part : /\ <<q.enc, o>> \in torn'
                     /\ \E left : res' = [res EXCEPT ![<<q.enc, o>>] = left]
          <6>1. PICK o \in Part : /\ <<q.enc, o>> \in torn'
                                  /\ \E left : res' = [res EXCEPT ![<<q.enc, o>>] = left]
            BY <5>3
          <6>2. <<e, p>> # <<q.enc, o>>
            BY <4>2, <6>1
          <6> QED
            BY <4>1, <6>1, <6>2
        <5> QED
          BY <3>2, <5>1, <5>2, <5>3, CutDoes
      <4> QED
        BY <1>1, <4>1, <4>2 DEF ActiveIsApplied
    <3> QED
      BY <1>2, <3>1, <3>2
  <2>2. run'[r] \in {IdleRun, [q EXCEPT !.pc = "imports", !.todo = q.want]}
    BY <1>2, Becomes DEF BeginImports, Finish, AbortRequest
  <2>3. run'[r].pc \in {"idle", "imports"}
    BY <1>1, <2>2 DEF RunRec
  <2>4. RequestOK(run[r])'
    BY <2>3 DEF RequestOK, BookedEnclave, BookedPartition, FreshSnapshot, TruthfulCopy
  <2>5. \E rec : Become(r, rec)
    BY <1>2 DEF BeginImports, Finish, AbortRequest
  <2> QED
    BY <2>1, <2>4, <2>5, Alone
<1>3. ASSUME NEW e \in Enclave, ReadImporter(r, e) PROVE SerialInv'
  <2>1. ActiveIsApplied' /\ store' = store /\ q.pc = "imports"
    BY <1>1, <1>3 DEF ReadImporter, ActiveIsApplied, cloudVars
  <2>2. \/ run'[r] = [q EXCEPT !.pc = "imp", !.todo = @ \ {e}, !.enc = e, !.mem = store[e],
                               !.wire = ImportsFrom(e), !.changed = FALSE]
        \/ run'[r] = [q EXCEPT !.todo = @ \ {e}]
    BY <1>3, Becomes DEF ReadImporter
  <2>3. \/ run'[r].pc = "imp" /\ run'[r].enc = e /\ run'[r].mem = store[e]
        \/ run'[r].pc = "imports"
    BY <1>1, <2>1, <2>2 DEF RunRec
  <2>4. RequestOK(run[r])'
    BY <2>1, <2>3
       DEF RequestOK, BookedEnclave, BookedPartition, FreshSnapshot, TruthfulCopy
  <2>5. \E rec : Become(r, rec)
    BY <1>3 DEF ReadImporter
  <2> QED
    BY <2>1, <2>4, <2>5, Alone
<1>4. ASSUME NEW x \in Enclave, WireImport(r, x) PROVE SerialInv'
  <2> DEFINE mem == SetImport(q.mem, x, store[x].export)
  <2>1. ActiveIsApplied' /\ store' = store /\ q.pc = "imp"
    BY <1>1, <1>4 DEF WireImport, ActiveIsApplied, cloudVars
  <2>2. \/ run'[r] = [q EXCEPT !.wire = @ \ {x}, !.changed = TRUE, !.mem = mem]
        \/ run'[r] = [q EXCEPT !.wire = @ \ {x}, !.errs = TRUE]
        \/ run'[r] = [q EXCEPT !.wire = @ \ {x}]
    BY <1>4, Becomes DEF WireImport
  <2>3. mem.parts = q.mem.parts
    <3>1. store[x].export \in Handle
      BY <1>1 DEF EncRec
    <3> QED
      BY <1>1, <3>1, SetImportTyped
  <2> HIDE DEF mem
  <2>4. run'[r].pc = "imp" /\ run'[r].enc = q.enc /\ run'[r].mem.parts = q.mem.parts
    BY <1>1, <2>1, <2>2, <2>3 DEF RunRec
  <2>5. RequestOK(run[r])'
    BY <1>1, <2>1, <2>4
       DEF RequestOK, BookedEnclave, BookedPartition, FreshSnapshot, TruthfulCopy
  <2>6. \E rec : Become(r, rec)
    BY <1>4 DEF WireImport
  <2> QED
    BY <2>1, <2>5, <2>6, Alone
<1>5. CASE SaveImporter(r)
  <2>1. /\ q.pc = "imp" /\ project' = project /\ res' = res /\ torn' = torn
        /\ store' = [store EXCEPT ![q.enc] = IF q.changed THEN q.mem ELSE store[q.enc]]
    BY <1>5 DEF SaveImporter, Upserted, cloudVars
  <2>2. \A e \in Enclave : store'[e].parts = store[e].parts
    BY <1>1, <2>1 DEF RequestOK, TruthfulCopy
  <2>3. ActiveIsApplied'
    BY <1>1, <2>1, <2>2 DEF ActiveIsApplied
  <2>4. run'[r] = [q EXCEPT !.pc = "imports"]
    BY <1>5, Becomes DEF SaveImporter
  <2>5. run'[r].pc = "imports"
    BY <1>1, <2>4 DEF RunRec
  <2>6. RequestOK(run[r])'
    BY <2>5 DEF RequestOK, BookedEnclave, BookedPartition, FreshSnapshot, TruthfulCopy
  <2>7. \E rec : Become(r, rec)
    BY <1>5 DEF SaveImporter
  <2> QED
    BY <2>1, <2>3, <2>6, <2>7, Alone
<1> QED
  BY <1>2, <1>3, <1>4, <1>5

\* Commits touch nothing a request in flight looks at; a crash ends them all.
LEMMA SerialEnvironment ==
  ASSUME TypeOK, SerialInv,
         \/ \E e \in Enclave, cf \in [Part -> Version] : Commit(e, cf)
         \/ \E D \in DriverSets : Restart(D)
         \/ \E i \in locked : ForceUnlock(i)
         \/ UNCHANGED vars
  PROVE  SerialInv'
<1>1. UNCHANGED <<store, project, res, torn>>
  BY DEF Commit, Restart, ForceUnlock, cloudVars, vars
<1>2. ActiveIsApplied'
  BY <1>1 DEF SerialInv, ActiveIsApplied
<1>3. CASE run' = run
  BY <1>1, <1>2, <1>3 DEF SerialInv, AtMostOne, RequestOK, BookedEnclave,
     BookedPartition, FreshSnapshot, TruthfulCopy
<1>4. CASE run' = [r \in Request |-> IdleRun]
  <2>1. \A r \in Request : run'[r].pc = "idle"
    BY <1>4, DefaultsTyped
  <2> QED
    BY <1>2, <2>1 DEF SerialInv, AtMostOne, RequestOK, BookedEnclave,
       BookedPartition, FreshSnapshot, TruthfulCopy
<1> QED
  BY <1>3, <1>4 DEF Commit, Restart, ForceUnlock, vars

LEMMA SerialInit == Init => SerialInv
<1> SUFFICES ASSUME Init PROVE SerialInv
  OBVIOUS
<1>1. \A r \in Request : run[r].pc = "idle"
  BY DefaultsTyped DEF Init
<1>2. \A e \in Enclave, p \in Part : store[e].parts[p].status = "none"
  BY DEF Init, NoRec, NoPart
<1> QED
  BY <1>1, <1>2, IdleOK DEF SerialInv, AtMostOne, ActiveIsApplied

LEMMA SerialStep == ~ Overlap /\ TypeOK /\ SerialInv /\ [Next]_vars => SerialInv'
<1> SUFFICES ASSUME ~ Overlap, TypeOK, SerialInv, [Next]_vars PROVE SerialInv'
  OBVIOUS
<1>1. ASSUME NEW r \in Request, Start(r) \/ Proceed(r) \/ AbortRequest(r)
      PROVE  SerialInv'
  BY <1>1, SerialStart, SerialTeardown, SerialEnclave, SerialPartition, SerialImports
     DEF Proceed
<1> QED
  BY <1>1, SerialEnvironment DEF Next

\* What one request at a time relies on between its awaits holds always: in
\* particular an Active record is the truth about the cloud (ActiveIsApplied),
\* whatever fails, crashes or is committed in between.
THEOREM SerialCorrect ==
  ASSUME ~ Overlap
  PROVE  Spec => []SerialInv
<1>1. TypeOK /\ SerialInv /\ [Next]_vars => SerialInv'
  BY SerialStep
<1> QED
  BY <1>1, SerialInit, TypeCorrect, PTL DEF Spec

----------------------------------------------------------------------------
(* The action properties of requests that do not overlap. *)

\* Only the three driver calls create anything, each behind its upsert.
LEMMA CreatesStep ==
  ASSUME TypeOK, SerialInv, [Next]_vars
  PROVE  CreatesRecorded
<1>1. CASE UNCHANGED <<project, sa, res>>
  BY <1>1 DEF CreatesRecorded
<1>2. ASSUME NEW r \in Request, NEW p \in Part, TerraformDestroy(r, p)
      PROVE  CreatesRecorded
  <2>1. project' = project /\ sa' = sa
    BY <1>2 DEF TerraformDestroy
  <2>2. \A i \in Enclave \X Part : res[i] = 0 => res'[i] = 0
    BY <1>2 DEF TerraformDestroy, HalfDestroyed, TypeOK
  <2> QED
    BY <2>1, <2>2 DEF CreatesRecorded
<1>3. ASSUME NEW r \in Request, TeardownPartition(r) \/ TeardownEnclave(r)
      PROVE  CreatesRecorded
  <2>1. \/ UNCHANGED <<project, res>> /\ sa' \subseteq sa
        \/ DeleteProject(run[r].enc)
    BY <1>3 DEF TeardownPartition, TeardownEnclave, cloudVars
  <2> QED
    BY <2>1 DEF CreatesRecorded, DeleteProject
<1>4. ASSUME NEW r \in Request, ProvisionEnclave(r) PROVE CreatesRecorded
  <2>1. /\ project' \subseteq project \cup {run[r].enc} /\ sa' = sa /\ res' = res
        /\ run[r].pc = "enc"
    BY <1>4 DEF ProvisionEnclave
  <2>2. store[run[r].enc].status # "none"
    BY <2>1 DEF SerialInv, RequestOK, BookedEnclave
  <2> QED
    BY <2>1, <2>2 DEF CreatesRecorded
<1>5. ASSUME NEW r \in Request, ProvisionPartition(r) \/ TerraformApply(r)
      PROVE  CreatesRecorded
  <2> DEFINE i == <<run[r].enc, run[r].part>>
  <2>1. /\ project' = project /\ sa' \subseteq sa \cup {i}
        /\ run[r].pc \in {"sa", "tf"}
    BY <1>5 DEF ProvisionPartition, TerraformApply
  <2>2. \A j \in Enclave \X Part : j # i => res'[j] = res[j]
    BY <1>5 DEF ProvisionPartition, TerraformApply, TypeOK
  <2>3. /\ store[run[r].enc].handle
        /\ store[run[r].enc].parts[run[r].part].status # "none"
    BY <2>1 DEF SerialInv, RequestOK, BookedPartition
  <2> QED
    BY <2>1, <2>2, <2>3 DEF CreatesRecorded
<1>6. ASSUME NEW r \in Request, Start(r) \/ AbortRequest(r) PROVE CreatesRecorded
  <2> DEFINE q == run[r]
             i == <<q.enc, q.part>>
  <2>1. CASE Start(r)
    <3>1. UNCHANGED <<project, sa, res>>
      BY <2>1 DEF Start, LoadYaml, DestroyEnclave, DestroyPartition, cloudVars
    <3> QED
      BY <1>1, <3>1
  <2>2. CASE AbortRequest(r)
    <3>1. project' = project /\ sa' = sa /\ res \in [Enclave \X Part -> Resource]
      BY <2>2, CutDoes DEF TypeOK
    <3>2. CASE res' = res
      BY <1>1, <3>1, <3>2
    <3>3. CASE /\ q.pc = "tf"
               /\ \E left : res' = [res EXCEPT ![i] = left]
      <4>1. \A j \in Enclave \X Part : j # i => res'[j] = res[j]
        BY <3>1, <3>3
      <4>2. store[q.enc].handle /\ store[q.enc].parts[q.part].status # "none"
        BY <3>3 DEF SerialInv, RequestOK, BookedPartition
      <4> QED
        BY <3>1, <4>1, <4>2 DEF CreatesRecorded
    <3>4. CASE \E p \in Part : \E left \in HalfDestroyed(<<q.enc, p>>) :
                  res' = [res EXCEPT ![<<q.enc, p>>] = left]
      <4>1. \A j \in Enclave \X Part : res[j] = 0 => res'[j] = 0
        BY <3>1, <3>4 DEF HalfDestroyed
      <4> QED
        BY <3>1, <4>1 DEF CreatesRecorded
    <3> QED
      BY <2>2, <3>2, <3>3, <3>4, CutDoes
  <2> QED
    BY <1>6, <2>1, <2>2
<1>7. ASSUME NEW r \in Request, Proceed(r) PROVE CreatesRecorded
  <2>1. CASE \/ ListStore(r) \/ Forget(r) \/ BeginEnclaves(r) \/ EnclaveError(r)
             \/ SaveHandle(r) \/ ProvisionExport(r) \/ SaveEnclave(r)
             \/ BeginImports(r) \/ SaveImporter(r) \/ Finish(r)
    <3>1. UNCHANGED <<project, sa, res>>
      BY <2>1 DEF ListStore, Forget, BeginEnclaves, EnclaveError, SaveHandle,
         ProvisionExport, SaveEnclave, BeginImports, SaveImporter, Finish, cloudVars
    <3> QED
      BY <1>1, <3>1
  <2>2. ASSUME NEW e \in Enclave,
               \/ RemoveEnclave(r, e) \/ SkipEnclave(r, e) \/ EnclaveBegin(r, e)
               \/ ReadImporter(r, e) \/ WireImport(r, e)
        PROVE  CreatesRecorded
    <3>1. UNCHANGED <<project, sa, res>>
      BY <2>2 DEF RemoveEnclave, SkipEnclave, EnclaveBegin, ReadImporter, WireImport,
         cloudVars
    <3> QED
      BY <1>1, <3>1
  <2>3. ASSUME NEW p \in Part, SkipPartition(r, p) \/ PartitionBegin(r, p)
        PROVE  CreatesRecorded
    <3>1. UNCHANGED <<project, sa, res>>
      BY <2>3 DEF SkipPartition, PartitionBegin, cloudVars
    <3> QED
      BY <1>1, <3>1
  <2> QED
    BY <1>2, <1>3, <1>4, <1>5, <1>7, <2>1, <2>2, <2>3 DEF Proceed
<1>8. CASE \/ \E e \in Enclave, cf \in [Part -> Version] : Commit(e, cf)
           \/ \E D \in DriverSets : Restart(D)
           \/ \E i \in locked : ForceUnlock(i)
           \/ UNCHANGED vars
  <2>1. UNCHANGED <<project, sa, res>>
    BY <1>8 DEF Commit, Restart, ForceUnlock, cloudVars, vars
  <2> QED
    BY <1>1, <2>1
<1> QED
  BY <1>6, <1>7, <1>8 DEF Next

\* The store knows of every project, service account and Terraform resource
\* before it exists (the upserts of reconcile() that precede the driver calls).
THEOREM CreatedIsRecorded ==
  ASSUME ~ Overlap
  PROVE  Spec => RecordedBeforeCreated
<1>1. TypeOK /\ SerialInv /\ [Next]_vars => [CreatesRecorded]_vars
  BY CreatesStep
<1> QED
  BY <1>1, TypeCorrect, SerialCorrect, PTL DEF Spec, RecordedBeforeCreated

LEMMA StepBecomes ==
  ASSUME NEW r \in Request, Start(r) \/ Proceed(r) \/ AbortRequest(r)
  PROVE  \E rec : Become(r, rec)
<1>1. CASE Start(r) \/ AbortRequest(r)
  BY <1>1 DEF Start, LoadYaml, DestroyEnclave, DestroyPartition, AbortRequest
<1>2. CASE \/ ListStore(r) \/ TeardownPartition(r) \/ TeardownEnclave(r) \/ Forget(r)
           \/ BeginEnclaves(r) \/ ProvisionEnclave(r) \/ EnclaveError(r)
           \/ \E e \in Enclave : RemoveEnclave(r, e) \/ SkipEnclave(r, e) \/ EnclaveBegin(r, e)
           \/ \E p \in Part : TerraformDestroy(r, p)
  BY <1>2 DEF ListStore, TeardownPartition, TeardownEnclave, Forget, BeginEnclaves,
     ProvisionEnclave, EnclaveError, RemoveEnclave, SkipEnclave, EnclaveBegin,
     TerraformDestroy
<1>3. CASE \/ ProvisionPartition(r) \/ SaveHandle(r) \/ TerraformApply(r)
           \/ ProvisionExport(r) \/ SaveEnclave(r) \/ BeginImports(r)
           \/ SaveImporter(r) \/ Finish(r)
           \/ \E p \in Part : SkipPartition(r, p) \/ PartitionBegin(r, p)
           \/ \E e \in Enclave : ReadImporter(r, e) \/ WireImport(r, e)
  BY <1>3 DEF ProvisionPartition, SaveHandle, TerraformApply, ProvisionExport,
     SaveEnclave, BeginImports, SaveImporter, Finish, SkipPartition, PartitionBegin,
     ReadImporter, WireImport
<1> QED
  BY <1>1, <1>2, <1>3 DEF Proceed

----------------------------------------------------------------------------
(* What each step makes of its request, as far as the invariants below look   *)
(* at it: which field of the record `run[r]' it writes, and with what.        *)

SameCall(q, n) == /\ n.op = q.op /\ n.ro = q.ro /\ n.want = q.want
                  /\ n.conf = q.conf /\ n.snap = q.snap
SameAim(q, n)  == n.enc = q.enc /\ n.part = q.part
OtherParts(q, n) ==
  /\ \A p \in Part : p # q.part => n.mem.parts[p] = q.mem.parts[p]
  /\ n.mem.status = q.mem.status /\ n.mem.export = q.mem.export

LEMMA RunTyped ==
  ASSUME TypeOK, NEW r \in Request
  PROVE  /\ run[r] \in RunRec /\ run[r].enc \in Enclave /\ run[r].part \in Part
         /\ run[r].mem \in EncRec /\ run[r].mem.parts \in [Part -> PartRec]
         /\ run[r].snap \in [Enclave -> EncRec]
         /\ run[r].conf \in [Enclave -> [Part -> Version]]
         /\ run[r].want \subseteq Enclave /\ run[r].todo \subseteq Enclave
         /\ run[r].pend \subseteq Part /\ run[r].errs \in BOOLEAN
  BY DEF TypeOK, RunRec, EncRec

LEMMA LoadYamlDoes ==
  ASSUME TypeOK, NEW r \in Request, NEW ro \in ResourcesOnly, LoadYaml(r, ro)
  PROVE  /\ run'[r].pc = "list" /\ run'[r].op = "apply"
         /\ run'[r].want = listed /\ run'[r].conf = conf
<1>1. run'[r] = [IdleRun EXCEPT !.op = "apply", !.pc = "list", !.ro = ro,
                                !.want = listed, !.conf = conf]
  BY Becomes DEF LoadYaml
<1> QED
  BY <1>1, DefaultsTyped DEF RunRec

LEMMA DestroyEnclaveDoes ==
  ASSUME TypeOK, NEW r \in Request, NEW e \in Enclave, NEW ro \in ResourcesOnly,
         DestroyEnclave(r, e, ro)
  PROVE  /\ run'[r].op = "destroy" /\ run'[r].enc = e /\ run'[r].snap[e] = store[e]
         /\ run'[r].ro = ro
         /\ IF store[e].handle
            THEN run'[r].pc = "td" /\ run'[r].pend = Recorded(store[e])
            ELSE run'[r].pc = "forget"
<1> DEFINE pend == IF store[e].handle THEN Recorded(store[e]) ELSE {}
           next == IF store[e].handle THEN "td" ELSE "forget"
           snap == [IdleRun.snap EXCEPT ![e] = store[e]]
<1>1. snap[e] = store[e]
  BY DefaultsTyped DEF RunRec
<1>2. run'[r] = [IdleRun EXCEPT !.op = "destroy", !.ro = ro, !.enc = e, !.snap = snap,
                                !.pend = pend, !.pc = next]
  BY Becomes DEF DestroyEnclave
<1> HIDE DEF pend, next, snap
<1>3. /\ run'[r].op = "destroy" /\ run'[r].enc = e /\ run'[r].snap = snap
      /\ run'[r].ro = ro /\ run'[r].pc = next /\ run'[r].pend = pend
  BY <1>2, DefaultsTyped DEF RunRec
<1> QED
  BY <1>1, <1>3 DEF pend, next

LEMMA DestroyPartitionDoes ==
  ASSUME TypeOK, NEW r \in Request, NEW e \in Enclave, NEW p \in Part,
         DestroyPartition(r, e, p)
  PROVE  /\ run'[r].op = "destroy_part" /\ run'[r].pc = "td"
         /\ run'[r].enc = e /\ run'[r].part = p /\ run'[r].pend = {p}
<1> DEFINE snap == [IdleRun.snap EXCEPT ![e] = store[e]]
<1>1. run'[r] = [IdleRun EXCEPT !.op = "destroy_part", !.enc = e, !.snap = snap,
                                !.pend = {p}, !.part = p, !.pc = "td"]
  BY Becomes DEF DestroyPartition
<1> HIDE DEF snap
<1> QED
  BY <1>1, DefaultsTyped DEF RunRec

LEMMA ListStoreDoes ==
  ASSUME TypeOK, NEW r \in Request, ListStore(r)
  PROVE  /\ run'[r].pc = "remove" /\ run'[r].op = run[r].op /\ run'[r].errs = run[r].errs
         /\ run'[r].want = run[r].want /\ run'[r].conf = run[r].conf
         /\ run'[r].todo = {e \in Enclave : store[e].status # "none"} \ run[r].want
<1>1. run'[r] = [run[r] EXCEPT !.pc = "remove", !.snap = store,
                   !.todo = {e \in Enclave : store[e].status # "none"} \ run[r].want]
  BY Becomes DEF ListStore
<1> QED
  BY <1>1, RunTyped DEF RunRec

LEMMA RemoveEnclaveDoes ==
  ASSUME TypeOK, NEW r \in Request, NEW e \in Enclave, RemoveEnclave(r, e)
  PROVE  /\ SameCall(run[r], run'[r]) /\ run'[r].errs = run[r].errs
         /\ run'[r].enc = e /\ run'[r].todo = run[r].todo \ {e}
         /\ IF run[r].snap[e].handle /\ e \in drivers
            THEN run'[r].pc = "td" /\ run'[r].pend = Recorded(run[r].snap[e])
            ELSE run'[r].pc = "forget"
<1> DEFINE tear == run[r].snap[e].handle /\ e \in drivers
           pend == IF tear THEN Recorded(run[r].snap[e]) ELSE {}
           next == IF tear THEN "td" ELSE "forget"
<1>1. run'[r] = [run[r] EXCEPT !.enc = e, !.todo = @ \ {e}, !.pend = pend, !.pc = next]
  BY Becomes DEF RemoveEnclave
<1> HIDE DEF pend, next
<1>2. /\ SameCall(run[r], run'[r]) /\ run'[r].errs = run[r].errs
      /\ run'[r].enc = e /\ run'[r].todo = run[r].todo \ {e}
      /\ run'[r].pc = next /\ run'[r].pend = pend
  BY <1>1, RunTyped DEF RunRec, SameCall
<1> QED
  BY <1>2 DEF pend, next

LEMMA TerraformDestroyDoes ==
  ASSUME TypeOK, NEW r \in Request, NEW p \in Part, TerraformDestroy(r, p)
  PROVE  /\ SameCall(run[r], run'[r]) /\ run'[r].pc = "td_sa"
         /\ run'[r].enc = run[r].enc /\ run'[r].part = p
         /\ run'[r].todo = run[r].todo /\ run'[r].pend = run[r].pend
         /\ run[r].errs => run'[r].errs
         /\ \A i \in Enclave \X Part : i # <<run[r].enc, p>> => res'[i] = res[i]
         /\ workspace' = workspace
         /\ \/ run'[r].errs
            \/ Destroyed(run[r].enc, p)'
<1>1. \/ /\ run'[r] = [run[r] EXCEPT !.pc = "td_sa", !.part = p]
         /\ \/ res' = [res EXCEPT ![<<run[r].enc, p>>] = 0]
            \/ <<run[r].enc, p>> \notin workspace
      \/ run'[r] = [run[r] EXCEPT !.pc = "td_sa", !.part = p, !.errs = TRUE]
  BY Becomes DEF TerraformDestroy
<1>2. res \in [Enclave \X Part -> Resource] /\ <<run[r].enc, p>> \in Enclave \X Part
  BY RunTyped DEF TypeOK
<1>3. /\ \A i \in Enclave \X Part : i # <<run[r].enc, p>> => res'[i] = res[i]
      /\ workspace' = workspace
  BY <1>2 DEF TerraformDestroy
<1>4. run'[r].errs \/ Destroyed(run[r].enc, p)'
  BY <1>1, <1>2, <1>3, RunTyped DEF RunRec, Destroyed
<1>5. /\ SameCall(run[r], run'[r]) /\ run'[r].pc = "td_sa"
      /\ run'[r].enc = run[r].enc /\ run'[r].part = p
      /\ run'[r].todo = run[r].todo /\ run'[r].pend = run[r].pend
      /\ run[r].errs => run'[r].errs
  BY <1>1, RunTyped DEF RunRec, SameCall
<1> QED
  BY <1>3, <1>4, <1>5

LEMMA TeardownPartitionDoes ==
  ASSUME TypeOK, NEW r \in Request, TeardownPartition(r)
  PROVE  /\ SameCall(run[r], run'[r]) /\ SameAim(run[r], run'[r])
         /\ run'[r].pc = "td" /\ run'[r].todo = run[r].todo
         /\ run'[r].pend = run[r].pend \ {run[r].part}
         /\ run[r].errs => run'[r].errs
<1>1. \/ run'[r] = [run[r] EXCEPT !.pc = "td", !.pend = @ \ {run[r].part}]
      \/ run'[r] = [run[r] EXCEPT !.pc = "td", !.pend = @ \ {run[r].part},
                                  !.errs = @ \/ run[r].op # "apply"]
  BY Becomes DEF TeardownPartition
<1> QED
  BY <1>1, RunTyped DEF RunRec, SameCall, SameAim

\* A teardown that was to delete the project and has no error deleted it.
LEMMA TeardownEnclaveDoes ==
  ASSUME TypeOK, NEW r \in Request, TeardownEnclave(r), run'[r].pc # "idle"
  PROVE  /\ SameCall(run[r], run'[r]) /\ SameAim(run[r], run'[r])
         /\ run'[r].pc = "forget" /\ run'[r].todo = run[r].todo
         /\ run'[r].pend = run[r].pend /\ run[r].pend = {}
         /\ run[r].errs => run'[r].errs
         /\ \/ run'[r].errs
            \/ run[r].op = "destroy_part" \/ run[r].ro
            \/ run[r].enc \notin project'
<1>1. \/ run'[r] = [run[r] EXCEPT !.pc = "forget"]
         /\ (run[r].op = "destroy_part" \/ run[r].ro \/ project' = project \ {run[r].enc})
      \/ run'[r] = AfterFailedTeardown(run[r])
  BY Becomes DEF TeardownEnclave, DeleteProject
<1>2. run[r].pend = {}
  BY DEF TeardownEnclave
<1>3. run'[r] # IdleRun
  BY DefaultsTyped
<1>4. \/ run'[r] = [run[r] EXCEPT !.pc = "forget"]
      \/ run'[r] = [run[r] EXCEPT !.pc = "forget", !.errs = TRUE]
  BY <1>1, <1>3 DEF AfterFailedTeardown
<1>5. /\ SameCall(run[r], run'[r]) /\ SameAim(run[r], run'[r])
      /\ run'[r].pc = "forget" /\ run'[r].todo = run[r].todo
      /\ run'[r].pend = run[r].pend
      /\ run[r].errs => run'[r].errs
  BY <1>4, RunTyped DEF RunRec, SameCall, SameAim
<1>6. CASE run'[r] = AfterFailedTeardown(run[r])
  BY <1>2, <1>3, <1>5, <1>6, RunTyped DEF RunRec, AfterFailedTeardown
<1>7. CASE run[r].op = "destroy_part" \/ run[r].ro \/ project' = project \ {run[r].enc}
  BY <1>2, <1>5, <1>7
<1> QED
  BY <1>1, <1>6, <1>7

\* An apply goes on with the next removed enclave, a destroy request has replied.
LEMMA ForgetDoes ==
  ASSUME TypeOK, NEW r \in Request, Forget(r)
  PROVE  IF run[r].op = "apply"
         THEN /\ SameCall(run[r], run'[r]) /\ run'[r].pc = "remove"
              /\ run'[r].todo = run[r].todo /\ run'[r].errs = run[r].errs
         ELSE run'[r].pc = "idle"
<1>1. run'[r] = IF run[r].op = "apply" THEN [run[r] EXCEPT !.pc = "remove"] ELSE IdleRun
  BY Becomes DEF Forget
<1> QED
  BY <1>1, RunTyped, DefaultsTyped DEF RunRec, SameCall

LEMMA BeginEnclavesDoes ==
  ASSUME TypeOK, NEW r \in Request, BeginEnclaves(r)
  PROVE  /\ SameCall(run[r], run'[r]) /\ run'[r].errs = run[r].errs
         /\ run'[r].pc = "enclaves" /\ run'[r].todo = run[r].want
<1>1. run'[r] = [run[r] EXCEPT !.pc = "enclaves", !.todo = run[r].want]
  BY Becomes DEF BeginEnclaves
<1> QED
  BY <1>1, RunTyped DEF RunRec, SameCall

LEMMA SkipEnclaveDoes ==
  ASSUME TypeOK, NEW r \in Request, NEW e \in Enclave, SkipEnclave(r, e)
  PROVE  /\ SameCall(run[r], run'[r]) /\ run'[r].errs
         /\ run'[r].pc = "enclaves" /\ run'[r].todo = run[r].todo \ {e}
<1>1. run'[r] = [run[r] EXCEPT !.todo = @ \ {e}, !.errs = TRUE]
  BY Becomes DEF SkipEnclave
<1> QED
  BY <1>1, RunTyped DEF RunRec, SameCall, SkipEnclave

LEMMA EnclaveBeginDoes ==
  ASSUME TypeOK, NEW r \in Request, NEW e \in Enclave, EnclaveBegin(r, e)
  PROVE  /\ SameCall(run[r], run'[r]) /\ run'[r].errs = run[r].errs
         /\ run'[r].pc = "enc" /\ run'[r].enc = e /\ run'[r].todo = run[r].todo \ {e}
         /\ run'[r].mem.parts = run[r].snap[e].parts /\ run'[r].mem.status # "none"
         /\ store' = [store EXCEPT ![e] = run'[r].mem]
<1> DEFINE mem == [run[r].snap[e] EXCEPT !.status = InFlight(run[r].snap[e].status # "none")]
<1>1. run'[r] = [run[r] EXCEPT !.pc = "enc", !.enc = e, !.mem = mem, !.todo = @ \ {e}]
  BY Becomes DEF EnclaveBegin
<1>2. mem.parts = run[r].snap[e].parts /\ mem.status # "none"
  BY RunTyped DEF EncRec, InFlight
<1>3. store' = [store EXCEPT ![e] = mem]
  BY DEF EnclaveBegin, Upserted
<1> HIDE DEF mem
<1>4. /\ SameCall(run[r], run'[r]) /\ run'[r].errs = run[r].errs
      /\ run'[r].pc = "enc" /\ run'[r].enc = e /\ run'[r].todo = run[r].todo \ {e}
      /\ run'[r].mem = mem
  BY <1>1, RunTyped DEF RunRec, SameCall
<1> QED
  BY <1>2, <1>3, <1>4

LEMMA ProvisionEnclaveDoes ==
  ASSUME TypeOK, NEW r \in Request, ProvisionEnclave(r)
  PROVE  /\ SameCall(run[r], run'[r]) /\ SameAim(run[r], run'[r])
         /\ run'[r].todo = run[r].todo
         /\ run'[r].mem.parts = run[r].mem.parts
         /\ run[r].errs => run'[r].errs
         /\ \/ /\ run'[r].pc = "parts" /\ run'[r].pend = Declared(run[r].conf, run[r].enc)
               /\ run'[r].mem.status = "active"
            \/ run'[r].pc = "enc_err" /\ run'[r].errs
<1> DEFINE good == [run[r].mem EXCEPT !.handle = TRUE, !.status = "active"]
           bad  == [run[r].mem EXCEPT !.status = "error"]
           decl == Declared(run[r].conf, run[r].enc)
<1>1. \/ run'[r] = [run[r] EXCEPT !.pc = "parts", !.pend = decl, !.mem = good]
      \/ run'[r] = [run[r] EXCEPT !.pc = "enc_err", !.errs = TRUE, !.mem = bad]
  BY Becomes DEF ProvisionEnclave
<1>2. good.parts = run[r].mem.parts /\ good.status = "active" /\ bad.parts = run[r].mem.parts
  BY RunTyped DEF EncRec
<1> HIDE DEF good, bad, decl
<1>3. /\ SameCall(run[r], run'[r]) /\ SameAim(run[r], run'[r])
      /\ run'[r].todo = run[r].todo
      /\ run[r].errs => run'[r].errs
      /\ \/ run'[r].pc = "parts" /\ run'[r].pend = decl /\ run'[r].mem = good
         \/ run'[r].pc = "enc_err" /\ run'[r].errs /\ run'[r].mem = bad
  BY <1>1, RunTyped DEF RunRec, SameCall, SameAim
<1> QED
  BY <1>2, <1>3 DEF decl

LEMMA EnclaveErrorDoes ==
  ASSUME TypeOK, NEW r \in Request, EnclaveError(r)
  PROVE  /\ SameCall(run[r], run'[r]) /\ run'[r].errs = run[r].errs
         /\ run'[r].pc = "enclaves" /\ run'[r].todo = run[r].todo
         /\ store' = [store EXCEPT ![run[r].enc] = run[r].mem]
<1>1. run'[r] = [run[r] EXCEPT !.pc = "enclaves"]
  BY Becomes DEF EnclaveError
<1> QED
  BY <1>1, RunTyped DEF RunRec, SameCall, EnclaveError, Upserted

LEMMA SkipPartitionDoes ==
  ASSUME TypeOK, NEW r \in Request, NEW p \in Part, SkipPartition(r, p)
  PROVE  /\ SameCall(run[r], run'[r]) /\ SameAim(run[r], run'[r])
         /\ run'[r].pc = "parts" /\ run'[r].todo = run[r].todo
         /\ run'[r].errs = run[r].errs /\ run'[r].mem = run[r].mem
         /\ run'[r].pend = run[r].pend \ {p}
<1>1. run'[r] = [run[r] EXCEPT !.pend = @ \ {p}]
  BY Becomes DEF SkipPartition
<1> QED
  BY <1>1, RunTyped DEF RunRec, SameCall, SameAim, SkipPartition

LEMMA PartitionBeginDoes ==
  ASSUME TypeOK, NEW r \in Request, NEW p \in Part, PartitionBegin(r, p)
  PROVE  LET m == run'[r].mem.parts[p]  o == run[r].mem.parts[p] IN
         /\ SameCall(run[r], run'[r]) /\ run'[r].pc = "sa"
         /\ run'[r].enc = run[r].enc /\ run'[r].part = p
         /\ run'[r].todo = run[r].todo /\ run'[r].errs = run[r].errs
         /\ run'[r].pend = run[r].pend \ {p}
         /\ run'[r].mem \in EncRec
         /\ \A o2 \in Part : o2 # p => run'[r].mem.parts[o2] = run[r].mem.parts[o2]
         /\ run'[r].mem.status = run[r].mem.status
         /\ m.status = InFlight(o.handle) /\ m.hash = o.hash /\ m.handle = o.handle
         /\ store' = [store EXCEPT ![run[r].enc] = run'[r].mem]
<1> DEFINE old == run[r].mem.parts[p]
           ps  == [old EXCEPT !.status = InFlight(old.handle)]
           mem == SetPart(run[r].mem, p, ps)
<1>1. old \in PartRec
  BY RunTyped
<1>2. /\ ps \in PartRec /\ ps.status = InFlight(old.handle)
      /\ ps.hash = old.hash /\ ps.handle = old.handle
  BY <1>1 DEF PartRec, InFlight, Status
<1>3. run'[r] = [run[r] EXCEPT !.pc = "sa", !.part = p, !.mem = mem, !.pend = @ \ {p}]
  BY Becomes DEF PartitionBegin
<1>4. store' = [store EXCEPT ![run[r].enc] = mem]
  BY DEF PartitionBegin, Upserted
<1> HIDE DEF ps, old
<1>5. /\ mem \in EncRec /\ mem.parts = [run[r].mem.parts EXCEPT ![p] = ps]
      /\ mem.status = run[r].mem.status
  BY <1>2, RunTyped, SetPartTyped
<1> HIDE DEF mem
<1>6. mem.parts[p] = ps /\ \A o2 \in Part : o2 # p => mem.parts[o2] = run[r].mem.parts[o2]
  BY <1>5, RunTyped
<1>7. /\ SameCall(run[r], run'[r]) /\ run'[r].pc = "sa"
      /\ run'[r].enc = run[r].enc /\ run'[r].part = p
      /\ run'[r].todo = run[r].todo /\ run'[r].errs = run[r].errs
      /\ run'[r].pend = run[r].pend \ {p} /\ run'[r].mem = mem
  BY <1>3, RunTyped DEF RunRec, SameCall
<1> QED
  BY <1>2, <1>4, <1>5, <1>6, <1>7 DEF old

\* A partition of a record is replaced, and nothing else of it.
LEMMA PartReplaced ==
  ASSUME NEW rec \in EncRec, NEW p \in Part, NEW ps
  PROVE  LET new == SetPart(rec, p, ps) IN
         /\ \A o \in Part : o # p => new.parts[o] = rec.parts[o]
         /\ new.parts[p] = ps
         /\ new.status = rec.status /\ new.export = rec.export
  BY DEF SetPart, EncRec

LEMMA ProvisionPartitionDoes ==
  ASSUME TypeOK, NEW r \in Request, ProvisionPartition(r)
  PROVE  LET m == run'[r].mem.parts[run[r].part]  o == run[r].mem.parts[run[r].part] IN
         /\ SameCall(run[r], run'[r]) /\ SameAim(run[r], run'[r])
         /\ run'[r].todo = run[r].todo /\ run'[r].pend = run[r].pend
         /\ run[r].errs => run'[r].errs
         /\ OtherParts(run[r], run'[r])
         /\ m.hash = o.hash
         /\ \/ run'[r].pc = "sa_save" /\ m.status = o.status /\ m.handle
            \/ /\ run'[r].pc = "parts" /\ m.status = "error" /\ m.handle = o.handle
               /\ run'[r].errs
<1> DEFINE old == run[r].mem.parts[run[r].part]
           new == [old EXCEPT !.handle = TRUE]
           bad == MarkError(old)
           up(ps) == SetPart(run[r].mem, run[r].part, ps)
<1>1. old \in PartRec
  BY RunTyped
<1>2. /\ new \in PartRec /\ new.status = old.status /\ new.hash = old.hash /\ new.handle
      /\ bad \in PartRec /\ bad.status = "error" /\ bad.hash = old.hash
      /\ bad.handle = old.handle
  BY <1>1 DEF PartRec, MarkError, Status
<1>3. \/ run'[r] = [run[r] EXCEPT !.pc = "sa_save", !.mem = up(new)]
      \/ run'[r] = [run[r] EXCEPT !.pc = "parts", !.errs = TRUE, !.mem = up(bad)]
  BY Becomes DEF ProvisionPartition, PartitionFailed
<1> HIDE DEF old, new, bad
<1>4. PICK ps \in PartRec :
        \/ /\ run'[r] = [run[r] EXCEPT !.pc = "sa_save", !.mem = up(ps)]
           /\ ps.status = old.status /\ ps.hash = old.hash /\ ps.handle
        \/ /\ run'[r] = [run[r] EXCEPT !.pc = "parts", !.errs = TRUE, !.mem = up(ps)]
           /\ ps.status = "error" /\ ps.hash = old.hash /\ ps.handle = old.handle
  BY <1>2, <1>3
<1> DEFINE mem == up(ps)
<1>5. /\ \A p \in Part : p # run[r].part => mem.parts[p] = run[r].mem.parts[p]
      /\ mem.status = run[r].mem.status /\ mem.export = run[r].mem.export
      /\ mem.parts[run[r].part] = ps
  BY RunTyped, PartReplaced
<1> HIDE DEF mem
<1>6. /\ SameCall(run[r], run'[r]) /\ SameAim(run[r], run'[r])
      /\ run'[r].todo = run[r].todo /\ run'[r].pend = run[r].pend
      /\ run'[r].mem = mem
      /\ run[r].errs => run'[r].errs
      /\ \/ run'[r].pc = "sa_save" /\ ps.status = old.status /\ ps.hash = old.hash /\ ps.handle
         \/ /\ run'[r].pc = "parts" /\ run'[r].errs
            /\ ps.status = "error" /\ ps.hash = old.hash /\ ps.handle = old.handle
  <2>1. CASE /\ run'[r] = [run[r] EXCEPT !.pc = "sa_save", !.mem = mem]
             /\ ps.status = old.status /\ ps.hash = old.hash /\ ps.handle
    BY <2>1, RunTyped DEF RunRec, SameCall, SameAim
  <2>2. CASE /\ run'[r] = [run[r] EXCEPT !.pc = "parts", !.errs = TRUE, !.mem = mem]
             /\ ps.status = "error" /\ ps.hash = old.hash /\ ps.handle = old.handle
    BY <2>2, RunTyped DEF RunRec, SameCall, SameAim
  <2> QED
    BY <1>4, <2>1, <2>2 DEF mem
<1> QED
  BY <1>5, <1>6 DEF old, OtherParts

LEMMA SaveHandleDoes ==
  ASSUME TypeOK, NEW r \in Request, SaveHandle(r)
  PROVE  /\ SameCall(run[r], run'[r]) /\ SameAim(run[r], run'[r])
         /\ run'[r].pc = "tf" /\ run'[r].todo = run[r].todo
         /\ run'[r].errs = run[r].errs /\ run'[r].mem = run[r].mem
         /\ run'[r].pend = run[r].pend
         /\ store' = store \/ store' = [store EXCEPT ![run[r].enc] = run[r].mem]
<1>1. run'[r] = [run[r] EXCEPT !.pc = "tf"]
  BY Becomes DEF SaveHandle
<1> QED
  BY <1>1, RunTyped DEF RunRec, SameCall, SameAim, SaveHandle, Upserted

LEMMA TerraformApplyDoes ==
  ASSUME TypeOK, NEW r \in Request, TerraformApply(r)
  PROVE  LET m == run'[r].mem.parts[run[r].part]  o == run[r].mem.parts[run[r].part]
             i == <<run[r].enc, run[r].part>>     v == run[r].conf[run[r].enc][run[r].part] IN
         /\ SameCall(run[r], run'[r]) /\ SameAim(run[r], run'[r])
         /\ run'[r].pc = "parts"
         /\ run'[r].todo = run[r].todo /\ run'[r].pend = run[r].pend
         /\ run[r].errs => run'[r].errs
         /\ OtherParts(run[r], run'[r])
         /\ m.handle = o.handle
         /\ \A j \in Enclave \X Part : j # i => res'[j] = res[j]
         /\ \/ m.status = "active" /\ m.hash = v /\ res'[i] = v
            \/ /\ m.status = "error" /\ m.hash = o.hash /\ run'[r].errs
               /\ res'[i] \in {res[i], Broken, v}
<1> DEFINE old == run[r].mem.parts[run[r].part]
           i   == <<run[r].enc, run[r].part>>
           v   == run[r].conf[run[r].enc][run[r].part]
           new == [MarkActive(old, v) EXCEPT !.out = v]
           bad == MarkError(old)
           up(ps) == SetPart(run[r].mem, run[r].part, ps)
<1>1. old \in PartRec /\ v \in Version /\ i \in Enclave \X Part
      /\ res \in [Enclave \X Part -> Resource]
  BY RunTyped DEF TypeOK
<1>2. /\ new \in PartRec /\ new.status = "active" /\ new.hash = v /\ new.handle = old.handle
      /\ bad \in PartRec /\ bad.status = "error" /\ bad.hash = old.hash
      /\ bad.handle = old.handle
  BY <1>1 DEF PartRec, MarkError, MarkActive, Status
<1>3. \/ /\ run'[r] = [run[r] EXCEPT !.pc = "parts", !.mem = up(new)]
         /\ res' = [res EXCEPT ![i] = v]
      \/ /\ run'[r] = [run[r] EXCEPT !.pc = "parts", !.errs = TRUE, !.mem = up(bad)]
         /\ res' = res \/ \E left \in {res[i], Broken, v} : res' = [res EXCEPT ![i] = left]
  BY Becomes DEF TerraformApply, PartitionFailed, HalfApplied
<1> HIDE DEF old, new, bad, i, v
<1>4. PICK ps \in PartRec :
        \/ /\ run'[r] = [run[r] EXCEPT !.pc = "parts", !.mem = up(ps)]
           /\ ps.status = "active" /\ ps.hash = v /\ ps.handle = old.handle
           /\ res' = [res EXCEPT ![i] = v]
        \/ /\ run'[r] = [run[r] EXCEPT !.pc = "parts", !.errs = TRUE, !.mem = up(ps)]
           /\ ps.status = "error" /\ ps.hash = old.hash /\ ps.handle = old.handle
           /\ res' = res \/ \E left \in {res[i], Broken, v} : res' = [res EXCEPT ![i] = left]
  BY <1>2, <1>3
<1> DEFINE mem == up(ps)
<1>5. /\ \A p \in Part : p # run[r].part => mem.parts[p] = run[r].mem.parts[p]
      /\ mem.status = run[r].mem.status /\ mem.export = run[r].mem.export
      /\ mem.parts[run[r].part] = ps
  BY RunTyped, PartReplaced
<1> HIDE DEF mem
<1>6. /\ SameCall(run[r], run'[r]) /\ SameAim(run[r], run'[r])
      /\ run'[r].todo = run[r].todo /\ run'[r].pend = run[r].pend
      /\ run'[r].mem = mem /\ run'[r].pc = "parts"
      /\ run[r].errs => run'[r].errs
      /\ run'[r].errs \/ run'[r] = [run[r] EXCEPT !.pc = "parts", !.mem = mem]
  <2>1. CASE run'[r] = [run[r] EXCEPT !.pc = "parts", !.mem = mem]
    BY <2>1, RunTyped DEF RunRec, SameCall, SameAim
  <2>2. CASE run'[r] = [run[r] EXCEPT !.pc = "parts", !.errs = TRUE, !.mem = mem]
    BY <2>2, RunTyped DEF RunRec, SameCall, SameAim
  <2> QED
    BY <1>4, <2>1, <2>2 DEF mem
<1>7. /\ \A j \in Enclave \X Part : j # i => res'[j] = res[j]
      /\ \/ ps.status = "active" /\ ps.hash = v /\ res'[i] = v
         \/ /\ ps.status = "error" /\ ps.hash = old.hash /\ run'[r].errs
            /\ res'[i] \in {res[i], Broken, v}
  <2>1. CASE /\ run'[r] = [run[r] EXCEPT !.pc = "parts", !.errs = TRUE, !.mem = mem]
             /\ ps.status = "error" /\ ps.hash = old.hash
             /\ res' = res \/ \E left \in {res[i], Broken, v} : res' = [res EXCEPT ![i] = left]
    <3>1. run'[r].errs
      BY <2>1, RunTyped DEF RunRec
    <3> QED
      BY <1>1, <2>1, <3>1
  <2> QED
    BY <1>1, <1>4, <2>1 DEF mem
<1>8. ps.handle = old.handle
  BY <1>4
<1> QED
  BY <1>5, <1>6, <1>7, <1>8 DEF old, i, v, OtherParts

LEMMA ProvisionExportDoes ==
  ASSUME TypeOK, NEW r \in Request, ProvisionExport(r)
  PROVE  /\ SameCall(run[r], run'[r]) /\ SameAim(run[r], run'[r])
         /\ run'[r].pc = "save" /\ run'[r].todo = run[r].todo
         /\ run[r].pend = {} /\ run'[r].pend = run[r].pend
         /\ run'[r].mem.parts = run[r].mem.parts
         /\ run'[r].mem.status = run[r].mem.status
         /\ run[r].errs => run'[r].errs
         /\ \/ run'[r].errs \/ run[r].enc \notin Exporters
            \/ run'[r].mem.export # NoHandle
<1> DEFINE out == run[r].mem.parts[ExportOf[run[r].enc]].out
           mem == [run[r].mem EXCEPT !.export = out]
<1>1. \/ run'[r] = [run[r] EXCEPT !.pc = "save", !.mem = mem]
      \/ run'[r] = [run[r] EXCEPT !.pc = "save", !.errs = TRUE]
      \/ run'[r] = [run[r] EXCEPT !.pc = "save"] /\ run[r].enc \notin Exporters
  BY Becomes DEF ProvisionExport
<1>2. out # NoHandle
  <2>1. ExportOf[run[r].enc] \in Part
    BY RunTyped, ConstantsAssumption
  <2>2. run[r].mem.parts[ExportOf[run[r].enc]] \in PartRec
    BY <2>1, RunTyped
  <2>3. out \in Version
    BY <2>2 DEF PartRec
  <2> QED
    BY <2>3, ConstantsAssumption DEF Version, NoHandle
<1> HIDE DEF out
<1>3. mem.parts = run[r].mem.parts /\ mem.status = run[r].mem.status /\ mem.export = out
  BY RunTyped DEF EncRec
<1> HIDE DEF mem
<1>4. run[r].pend = {} /\ run[r] \in RunRec
  BY RunTyped DEF ProvisionExport
<1>5. CASE run'[r] = [run[r] EXCEPT !.pc = "save", !.mem = mem]
  <2>1. /\ SameCall(run[r], run'[r]) /\ SameAim(run[r], run'[r])
        /\ run'[r].pc = "save" /\ run'[r].todo = run[r].todo
        /\ run'[r].pend = run[r].pend /\ run'[r].errs = run[r].errs
        /\ run'[r].mem = mem
    BY <1>4, <1>5 DEF RunRec, SameCall, SameAim
  <2> QED
    BY <1>2, <1>3, <1>4, <2>1
<1>6. CASE run'[r] = [run[r] EXCEPT !.pc = "save", !.errs = TRUE]
  BY <1>4, <1>6 DEF RunRec, SameCall, SameAim
<1>7. CASE run'[r] = [run[r] EXCEPT !.pc = "save"] /\ run[r].enc \notin Exporters
  BY <1>4, <1>7 DEF RunRec, SameCall, SameAim
<1> QED
  BY <1>1, <1>5, <1>6, <1>7

LEMMA SaveEnclaveDoes ==
  ASSUME TypeOK, NEW r \in Request, SaveEnclave(r)
  PROVE  /\ SameCall(run[r], run'[r]) /\ run'[r].errs = run[r].errs
         /\ run'[r].pc = "enclaves" /\ run'[r].todo = run[r].todo
         /\ store' = [store EXCEPT ![run[r].enc] = run[r].mem]
<1>1. run'[r] = [run[r] EXCEPT !.pc = "enclaves"]
  BY Becomes DEF SaveEnclave
<1> QED
  BY <1>1, RunTyped DEF RunRec, SameCall, SaveEnclave, Upserted

LEMMA BeginImportsDoes ==
  ASSUME TypeOK, NEW r \in Request, BeginImports(r)
  PROVE  /\ SameCall(run[r], run'[r]) /\ run'[r].errs = run[r].errs
         /\ run'[r].pc = "imports" /\ run'[r].todo = run[r].want
<1>1. run'[r] = [run[r] EXCEPT !.pc = "imports", !.todo = run[r].want]
  BY Becomes DEF BeginImports
<1> QED
  BY <1>1, RunTyped DEF RunRec, SameCall

LEMMA ReadImporterDoes ==
  ASSUME TypeOK, NEW r \in Request, NEW e \in Enclave, ReadImporter(r, e)
  PROVE  /\ SameCall(run[r], run'[r]) /\ run'[r].errs = run[r].errs
         /\ run'[r].todo = run[r].todo \ {e} /\ e \in run[r].todo
         /\ \/ /\ run'[r].pc = "imp" /\ run'[r].enc = e /\ run'[r].mem = store[e]
               /\ run'[r].wire = ImportsFrom(e) /\ ~ run'[r].changed
               /\ e \in drivers /\ store[e].status # "none"
            \/ run'[r].pc = "imports" /\ (e \notin drivers \/ store[e].status = "none")
<1>1. \/ /\ run'[r] = [run[r] EXCEPT !.pc = "imp", !.todo = @ \ {e}, !.enc = e,
                          !.mem = store[e], !.wire = ImportsFrom(e), !.changed = FALSE]
         /\ e \in drivers /\ store[e].status # "none"
      \/ /\ run'[r] = [run[r] EXCEPT !.todo = @ \ {e}]
         /\ e \notin drivers \/ store[e].status = "none"
  BY Becomes DEF ReadImporter
<1>2. run[r].pc = "imports" /\ e \in run[r].todo /\ run[r] \in RunRec
  BY RunTyped DEF ReadImporter
<1>3. CASE /\ run'[r] = [run[r] EXCEPT !.pc = "imp", !.todo = @ \ {e}, !.enc = e,
                           !.mem = store[e], !.wire = ImportsFrom(e), !.changed = FALSE]
           /\ e \in drivers /\ store[e].status # "none"
  BY <1>2, <1>3 DEF RunRec, SameCall
<1>4. CASE /\ run'[r] = [run[r] EXCEPT !.todo = @ \ {e}]
           /\ e \notin drivers \/ store[e].status = "none"
  BY <1>2, <1>4 DEF RunRec, SameCall
<1> QED
  BY <1>1, <1>3, <1>4

LEMMA WireImportDoes ==
  ASSUME TypeOK, NEW r \in Request, NEW x \in Enclave, WireImport(r, x)
  PROVE  /\ SameCall(run[r], run'[r]) /\ SameAim(run[r], run'[r])
         /\ run'[r].pc = "imp" /\ run'[r].todo = run[r].todo
         /\ run'[r].wire = run[r].wire \ {x}
         /\ run[r].errs => run'[r].errs
         /\ run'[r].mem.parts = run[r].mem.parts
         /\ run'[r].mem.status = run[r].mem.status
         /\ run'[r].mem.export = run[r].mem.export
         /\ \A y \in Enclave : run[r].mem.imports[y] # NoHandle =>
                                 run'[r].mem.imports[y] # NoHandle
         /\ \/ run'[r].changed
            \/ run'[r].mem = run[r].mem /\ run'[r].changed = run[r].changed
         /\ \/ run'[r].errs \/ run'[r].mem.imports[x] # NoHandle
            \/ store[x].export = NoHandle
<1> DEFINE mem == SetImport(run[r].mem, x, store[x].export)
<1>1. \/ /\ run'[r] = [run[r] EXCEPT !.wire = @ \ {x}, !.changed = TRUE, !.mem = mem]
         /\ store[x].export # NoHandle
      \/ run'[r] = [run[r] EXCEPT !.wire = @ \ {x}, !.errs = TRUE]
      \/ /\ run'[r] = [run[r] EXCEPT !.wire = @ \ {x}]
         /\ ~ Wirable(run[r], x)
  BY Becomes DEF WireImport, Wirable
<1>2. /\ mem.parts = run[r].mem.parts /\ mem.status = run[r].mem.status
      /\ mem.export = run[r].mem.export
      /\ mem.imports = [run[r].mem.imports EXCEPT ![x] = store[x].export]
  BY RunTyped DEF SetImport, EncRec
<1>3. run[r].mem.imports \in [Enclave -> Handle]
  BY RunTyped DEF EncRec
<1> HIDE DEF mem
<1>4. run[r].pc = "imp" /\ run[r] \in RunRec
  BY RunTyped DEF WireImport
<1>5. CASE run'[r] = [run[r] EXCEPT !.wire = @ \ {x}, !.changed = TRUE, !.mem = mem]
           /\ store[x].export # NoHandle
  <2>1. /\ SameCall(run[r], run'[r]) /\ SameAim(run[r], run'[r])
        /\ run'[r].pc = "imp" /\ run'[r].todo = run[r].todo
        /\ run'[r].wire = run[r].wire \ {x} /\ run'[r].errs = run[r].errs
        /\ run'[r].mem = mem /\ run'[r].changed
    BY <1>4, <1>5 DEF RunRec, SameCall, SameAim
  <2>2. /\ mem.imports[x] # NoHandle
        /\ \A y \in Enclave : run[r].mem.imports[y] # NoHandle => mem.imports[y] # NoHandle
    BY <1>2, <1>3, <1>5
  <2> QED
    BY <1>2, <2>1, <2>2
<1>6. CASE \/ run'[r] = [run[r] EXCEPT !.wire = @ \ {x}, !.errs = TRUE]
           \/ run'[r] = [run[r] EXCEPT !.wire = @ \ {x}] /\ ~ Wirable(run[r], x)
  <2>1. /\ SameCall(run[r], run'[r]) /\ SameAim(run[r], run'[r])
        /\ run'[r].pc = "imp" /\ run'[r].todo = run[r].todo
        /\ run'[r].wire = run[r].wire \ {x} /\ (run[r].errs => run'[r].errs)
        /\ run'[r].mem = run[r].mem /\ run'[r].changed = run[r].changed
        /\ run'[r].errs \/ ~ Wirable(run[r], x)
    <3>1. CASE run'[r] = [run[r] EXCEPT !.wire = @ \ {x}, !.errs = TRUE]
      BY <1>4, <3>1 DEF RunRec, SameCall, SameAim
    <3>2. CASE run'[r] = [run[r] EXCEPT !.wire = @ \ {x}] /\ ~ Wirable(run[r], x)
      BY <1>4, <3>2 DEF RunRec, SameCall, SameAim
    <3> QED
      BY <1>6, <3>1, <3>2
  <2> QED
    BY <2>1 DEF Wirable
<1> QED
  BY <1>1, <1>5, <1>6

LEMMA SaveImporterDoes ==
  ASSUME TypeOK, NEW r \in Request, SaveImporter(r)
  PROVE  /\ SameCall(run[r], run'[r]) /\ run'[r].errs = run[r].errs
         /\ run'[r].pc = "imports" /\ run'[r].todo = run[r].todo
         /\ run[r].wire = {}
         /\ store' = [store EXCEPT ![run[r].enc] =
                        IF run[r].changed THEN run[r].mem ELSE store[run[r].enc]]
<1>1. run'[r] = [run[r] EXCEPT !.pc = "imports"]
  BY Becomes DEF SaveImporter
<1> QED
  BY <1>1, RunTyped DEF RunRec, SameCall, SaveImporter, Upserted

----------------------------------------------------------------------------
(* Each partition goes through ResourceLifecycle. *)

LEMMA ProceedBusy ==
  ASSUME NEW r \in Request, Proceed(r)
  PROVE  run[r].pc # "idle"
  BY DEF Proceed, ListStore, RemoveEnclave, TerraformDestroy, TeardownPartition,
     TeardownEnclave, Forget, BeginEnclaves, SkipEnclave, EnclaveBegin, ProvisionEnclave,
     EnclaveError, SkipPartition, PartitionBegin, ProvisionPartition, SaveHandle,
     TerraformApply, ProvisionExport, SaveEnclave, BeginImports, ReadImporter,
     WireImport, SaveImporter, Finish

LEMMA RequestMoves ==
  ASSUME NEW r \in Request, Start(r) \/ Proceed(r) \/ AbortRequest(r)
  PROVE  run[r].pc # "idle" \/ MayStart(r)
<1>1. CASE Start(r) \/ AbortRequest(r)
  BY <1>1 DEF Start, LoadYaml, DestroyEnclave, DestroyPartition, AbortRequest
<1> QED
  BY <1>1, ProceedBusy

\* While a request moves, the others are idle and stay as they are.
LEMMA OthersIdle ==
  ASSUME ~ Overlap, TypeOK, SerialInv, NEW r \in Request,
         Start(r) \/ Proceed(r) \/ AbortRequest(r)
  PROVE  \A o \in Request : o # r => run[o].pc = "idle" /\ run'[o] = run[o]
<1>1. \E rec : Become(r, rec)
  BY StepBecomes
<1>2. run[r].pc # "idle" \/ MayStart(r)
  BY RequestMoves
<1> QED
  BY <1>1, <1>2 DEF TypeOK, SerialInv, AtMostOne, MayStart, Become

LifeStep(e, p) == [Life(e, p)!Next]_(Life(e, p)!vars)

LEMMA LifeSame ==
  ASSUME NEW e \in Enclave, NEW p \in Part,
         SameBook(store'[e].parts[p], store[e].parts[p]), res'[<<e, p>>] = res[<<e, p>>]
  PROVE  LifeStep(e, p)
  BY DEF LifeStep, SameBook, Life!vars

LEMMA LifeBegin ==
  ASSUME NEW e \in Enclave, NEW p \in Part,
         store'[e].parts[p].status = InFlight(store[e].parts[p].handle),
         store'[e].parts[p].hash = store[e].parts[p].hash,
         store'[e].parts[p].handle = store[e].parts[p].handle,
         res'[<<e, p>>] = res[<<e, p>>]
  PROVE  LifeStep(e, p)
  BY DEF LifeStep, InFlight, Life!Next, Life!Begin

LEMMA LifeDestroy ==
  ASSUME NEW e \in Enclave, NEW p \in Part, store' = store,
         res'[<<e, p>>] \in {0, Broken, res[<<e, p>>]},
         res[<<e, p>>] = 0 => res'[<<e, p>>] = 0
  PROVE  LifeStep(e, p)
<1>1. CASE res'[<<e, p>>] = res[<<e, p>>]
  BY <1>1, LifeSame DEF SameBook
<1>2. CASE res'[<<e, p>>] \in {0, Broken}
  BY <1>2 DEF LifeStep, Life!Next, Life!Destroy
<1> QED
  BY <1>1, <1>2

\* What a request has not stored yet, stored.
LEMMA LifeSaved ==
  ASSUME TypeOK, NEW e \in Enclave, NEW p \in Part, NEW q, q.enc = e,
         q.pc \in Provisions,
         \/ SameBook(q.mem.parts[p], store[e].parts[p])
         \/ AheadBy(q, p),
         q.pc \in {"sa_save", "tf"} => q.mem.parts[p].handle,
         q.conf[e][p] \in Version, store[e].parts[p].handle \in BOOLEAN,
         q.mem.parts[p].handle \in BOOLEAN,
         SameBook(store'[e].parts[p], q.mem.parts[p]), res' = res
  PROVE  LifeStep(e, p)
<1> DEFINE m == q.mem.parts[p]
           s == store[e].parts[p]
<1>1. CASE SameBook(m, s)
  BY <1>1, LifeSame DEF SameBook
<1>2. CASE /\ s.status \in {"provisioning", "updating"}
           /\ q.pc \in {"sa_save", "tf"} /\ m.status = s.status /\ m.hash = s.hash
  <2>1. m.handle
    BY <1>2
  <2> QED
    BY <1>2, <2>1 DEF LifeStep, SameBook, Life!Next, Life!SaveHandle, Life!InFlight
<1>3. CASE /\ s.status \in {"provisioning", "updating"}
           /\ m.status = "active" /\ m.handle
           /\ m.hash = q.conf[e][p] /\ res[<<e, p>>] = m.hash
  <2>1. m.hash # Broken
    BY <1>3, ConstantsAssumption DEF Version, Broken
  <2> QED
    BY <1>3, <2>1 DEF LifeStep, SameBook, Life!Next, Life!Succeed, Life!InFlight
<1>4. CASE /\ s.status \in {"provisioning", "updating"}
           /\ m.status = "error" /\ m.hash = s.hash /\ (s.handle => m.handle)
  <2>1. m.handle = TRUE \/ m.handle = s.handle
    BY <1>4
  <2> QED
    BY <1>4, <2>1 DEF LifeStep, SameBook, Life!Next, Life!Fail, Life!InFlight
<1> QED
  BY <1>1, <1>2, <1>3, <1>4 DEF AheadBy

\* A request that ends early leaves the store as it is; what its Terraform leaves
\* are resources of a partition in flight, or of one that is torn down.
LEMMA FollowsAbort ==
  ASSUME TypeOK, SerialInv, NEW r \in Request, AbortRequest(r)
  PROVE  CopyFollows(run[r])' /\ LifecycleStep
<1> DEFINE q == run[r]
           v == q.conf[q.enc][q.part]
<1>1. /\ q.enc \in Enclave /\ q.part \in Part /\ v \in Version
      /\ res \in [Enclave \X Part -> Resource] /\ store' = store
  <2>1. run \in [Request -> RunRec] /\ q.enc \in Enclave /\ q.part \in Part
        /\ q.conf \in [Enclave -> [Part -> Version]]
    BY RunTyped DEF TypeOK
  <2>2. store' = store
    BY CutDoes
  <2> QED
    BY <2>1, <2>2 DEF TypeOK
<1>2. CopyFollows(run[r])'
  BY Becomes, DefaultsTyped DEF AbortRequest, CopyFollows, Provisions
<1>3. CASE res' = res
  BY <1>1, <1>2, <1>3, LifeSame DEF SameBook, LifecycleStep, LifeStep
<1>4. CASE /\ q.pc = "tf"
           /\ \E left \in {res[<<q.enc, q.part>>], Broken, v} :
                 res' = [res EXCEPT ![<<q.enc, q.part>>] = left]
  <2>1. store[q.enc].parts[q.part].status \in {"provisioning", "updating"}
    BY <1>4 DEF SerialInv, RequestOK, BookedPartition
  <2>2. ASSUME NEW e \in Enclave, NEW p \in Part PROVE LifeStep(e, p)
    <3>1. CASE res'[<<e, p>>] = res[<<e, p>>]
      BY <1>1, <3>1, LifeSame DEF SameBook
    <3>2. CASE e = q.enc /\ p = q.part /\ res'[<<e, p>>] \in {v, Broken}
      BY <1>1, <2>1, <3>2 DEF LifeStep, Life!Next, Life!Change, Life!InFlight
    <3> QED
      BY <1>1, <1>4, <3>1, <3>2
  <2> QED
    BY <1>2, <2>2 DEF LifecycleStep, LifeStep
<1>5. CASE \E o \in Part : \E left \in HalfDestroyed(<<q.enc, o>>) :
              res' = [res EXCEPT ![<<q.enc, o>>] = left]
  <2>1. \A i \in Enclave \X Part : /\ res'[i] \in {0, Broken, res[i]}
                                   /\ res[i] = 0 => res'[i] = 0
    BY <1>1, <1>5 DEF HalfDestroyed
  <2>2. \A e \in Enclave, p \in Part : LifeStep(e, p)
    BY <1>1, <2>1, LifeDestroy
  <2> QED
    BY <1>2, <2>2 DEF LifecycleStep, LifeStep
<1> QED
  BY <1>3, <1>4, <1>5, CutDoes

\* The steps before and after the provisioning of an enclave, and those that fill
\* the copy of its record: none of them stores anything of a partition.
LEMMA FollowsQuiet ==
  ASSUME TypeOK, SerialInv, NEW r \in Request, CopyFollows(run[r]),
         \/ Start(r)
         \/ ListStore(r) \/ TeardownPartition(r)
         \/ BeginEnclaves(r) \/ BeginImports(r) \/ Finish(r)
         \/ \E e \in Enclave : RemoveEnclave(r, e) \/ SkipEnclave(r, e)
                               \/ ReadImporter(r, e) \/ WireImport(r, e)
         \/ \E p \in Part : SkipPartition(r, p)
         \/ ProvisionExport(r)
  PROVE  CopyFollows(run[r])' /\ LifecycleStep
<1>1. store' = store /\ res' = res
  <2>1. CASE Start(r)
    BY <2>1 DEF Start, LoadYaml, DestroyEnclave, DestroyPartition, cloudVars
  <2>2. CASE \/ ListStore(r) \/ TeardownPartition(r)
             \/ BeginEnclaves(r) \/ BeginImports(r) \/ Finish(r)
    BY <2>2 DEF ListStore, TeardownPartition, BeginEnclaves, BeginImports, Finish, cloudVars
  <2>3. CASE \/ \E e \in Enclave : RemoveEnclave(r, e) \/ SkipEnclave(r, e)
                                   \/ ReadImporter(r, e) \/ WireImport(r, e)
             \/ \E p \in Part : SkipPartition(r, p)
             \/ ProvisionExport(r)
    BY <2>3 DEF RemoveEnclave, SkipEnclave, ReadImporter, WireImport, SkipPartition,
       ProvisionExport, cloudVars
  <2> QED
    BY <2>1, <2>2, <2>3
<1>2. LifecycleStep
  BY <1>1, LifeSame DEF SameBook, LifecycleStep, LifeStep
<1>3. CASE \/ Start(r)
           \/ ListStore(r) \/ TeardownPartition(r)
           \/ BeginEnclaves(r) \/ BeginImports(r) \/ Finish(r)
           \/ \E e \in Enclave : RemoveEnclave(r, e) \/ SkipEnclave(r, e)
                                 \/ ReadImporter(r, e) \/ WireImport(r, e)
  <2>1. run'[r].pc \notin Provisions
    <3>1. CASE Start(r)
      <4>1. run'[r].pc \in {"list", "td", "forget"}
        BY <3>1, LoadYamlDoes, DestroyEnclaveDoes, DestroyPartitionDoes DEF Start
      <4> QED
        BY <4>1 DEF Provisions
    <3>2. CASE Finish(r)
      BY <3>2, Becomes, DefaultsTyped DEF Finish, Provisions
    <3>3. CASE \/ ListStore(r) \/ TeardownPartition(r)
               \/ BeginEnclaves(r) \/ BeginImports(r)
      BY <3>3, ListStoreDoes, TeardownPartitionDoes, BeginEnclavesDoes, BeginImportsDoes
         DEF Provisions
    <3>4. ASSUME NEW e \in Enclave,
                 \/ RemoveEnclave(r, e) \/ SkipEnclave(r, e)
                 \/ ReadImporter(r, e) \/ WireImport(r, e)
          PROVE  run'[r].pc \notin Provisions
      <4>1. run'[r].pc \in {"td", "forget", "enclaves", "imp", "imports"}
        BY <3>4, RemoveEnclaveDoes, SkipEnclaveDoes, ReadImporterDoes, WireImportDoes
      <4> QED
        BY <4>1 DEF Provisions
    <3> QED
      BY <1>3, <3>1, <3>2, <3>3, <3>4
  <2> QED
    BY <1>2, <2>1 DEF CopyFollows
<1>4. CASE ProvisionExport(r) \/ \E p \in Part : SkipPartition(r, p)
  <2>1. /\ run[r].pc = "parts" /\ run'[r].pc \in {"parts", "save"}
        /\ run'[r].enc = run[r].enc /\ run'[r].part = run[r].part
        /\ run'[r].mem.parts = run[r].mem.parts /\ run'[r].conf = run[r].conf
        /\ run'[r].pend \subseteq run[r].pend
    <3>1. CASE ProvisionExport(r)
      BY <3>1, ProvisionExportDoes DEF ProvisionExport, SameCall, SameAim
    <3>2. CASE \E p \in Part : SkipPartition(r, p)
      <4>1. PICK p \in Part : SkipPartition(r, p)
        BY <3>2
      <4> QED
        BY <4>1, SkipPartitionDoes DEF SkipPartition, SameCall, SameAim
    <3> QED
      BY <1>4, <3>1, <3>2
  <2>2. \A p \in Part : SameBook(run[r].mem.parts[p], store[run[r].enc].parts[p]) =>
                           SameBook(run[r].mem.parts[p], store[run[r].enc].parts[p])'
    BY <1>1, <2>1 DEF SameBook
  <2>3. \A p \in Part : AheadBy(run[r], p) => AheadBy(run[r], p)'
    BY <1>1, <2>1 DEF AheadBy
  <2>4. run[r].pc \in Provisions /\ run'[r].pc \notin OnPartition
    BY <2>1 DEF Provisions, OnPartition
  <2>5. \A p \in Part : \/ SameBook(run[r].mem.parts[p], store[run[r].enc].parts[p])
                        \/ p = run[r].part /\ p \notin run[r].pend /\ AheadBy(run[r], p)
    BY <2>4 DEF CopyFollows
  <2>6. \A p \in Part : \/ SameBook(run[r].mem.parts[p], store[run[r].enc].parts[p])'
                        \/ p = run'[r].part /\ p \notin run'[r].pend /\ AheadBy(run[r], p)'
    BY <2>1, <2>2, <2>3, <2>5
  <2> QED
    BY <1>2, <2>1, <2>4, <2>6 DEF CopyFollows
<1> QED
  BY <1>2, <1>3, <1>4

\* Teardown: resources go away under whatever status, then the record.
LEMMA FollowsTeardown ==
  ASSUME TypeOK, SerialInv, NEW r \in Request,
         TeardownEnclave(r) \/ Forget(r) \/ \E p \in Part : TerraformDestroy(r, p)
  PROVE  CopyFollows(run[r])' /\ LifecycleStep
<1> DEFINE q == run[r]
<1>1. q.enc \in Enclave /\ q.part \in Part
  BY RunTyped
<1>2. ASSUME NEW p \in Part, TerraformDestroy(r, p)
      PROVE  CopyFollows(run[r])' /\ LifecycleStep
  <2>1. CopyFollows(run[r])'
    BY <1>2, TerraformDestroyDoes DEF CopyFollows, Provisions
  <2>2. store' = store /\ res \in [Enclave \X Part -> Resource]
    BY <1>2 DEF TerraformDestroy, TypeOK
  <2>3. \A i \in Enclave \X Part : /\ res'[i] \in {0, Broken, res[i]}
                                   /\ res[i] = 0 => res'[i] = 0
    BY <1>1, <1>2, <2>2 DEF TerraformDestroy, HalfDestroyed
  <2> QED
    BY <2>1, <2>2, <2>3, LifeDestroy DEF LifecycleStep, LifeStep
<1>3. CASE TeardownEnclave(r)
  <2>1. run'[r].pc \notin Provisions
    BY <1>3, TeardownEnclaveDoes DEF Provisions
  <2>2. store' = store /\ (UNCHANGED cloudVars \/ DeleteProject(q.enc))
    BY <1>3 DEF TeardownEnclave, cloudVars
  <2>3. \A i \in Enclave \X Part : res'[i] \in {0, res[i]}
    BY <2>2 DEF DeleteProject, cloudVars
  <2> QED
    BY <2>1, <2>2, <2>3, LifeDestroy DEF CopyFollows, LifecycleStep, LifeStep
<1>4. CASE Forget(r)
  <2>1. run'[r].pc \notin Provisions
    BY <1>4, ForgetDoes DEF Provisions
  <2>2. store \in [Enclave -> EncRec] /\ store[q.enc] \in EncRec /\ res' = res
    BY <1>1, <1>4 DEF TypeOK, Forget, cloudVars
  <2>3. \A e \in Enclave, p \in Part :
           store'[e].parts[p] = store[e].parts[p] \/ store'[e].parts[p] = NoPart
    <3>1. SetPart(store[q.enc], q.part, NoPart).parts
             = [store[q.enc].parts EXCEPT ![q.part] = NoPart]
      BY <1>1, <2>2, SetPartTyped, DefaultsTyped
    <3>2. NoRec.parts = [p \in Part |-> NoPart]
      BY DEF NoRec
    <3> QED
      BY <1>1, <1>4, <2>2, <3>1, <3>2 DEF Forget, EncRec
  <2>4. ASSUME NEW e \in Enclave, NEW p \in Part PROVE LifeStep(e, p)
    <3>1. CASE store'[e].parts[p] = store[e].parts[p]
      BY <2>2, <3>1, LifeSame DEF SameBook
    <3>2. CASE store'[e].parts[p] = NoPart
      BY <2>2, <3>2 DEF LifeStep, NoPart, Life!Next, Life!Forget
    <3> QED
      BY <2>3, <3>1, <3>2
  <2> QED
    BY <2>1, <2>4 DEF CopyFollows, LifecycleStep, LifeStep
<1> QED
  BY <1>2, <1>3, <1>4

\* A request whose copy says of every partition what the store says follows it.
LEMMA FollowsAtOnce ==
  ASSUME NEW r \in Request,
         \A p \in Part : SameBook(run'[r].mem.parts[p], store'[run'[r].enc].parts[p]),
         run'[r].pc \in OnPartition => run'[r].part \notin run'[r].pend,
         run'[r].pc \in {"sa_save", "tf"} => run'[r].mem.parts[run'[r].part].handle
  PROVE  CopyFollows(run[r])'
  BY DEF CopyFollows

\* A request that works on nothing that is not stored has the store's books.
LEMMA FollowedExactly ==
  ASSUME NEW q, CopyFollows(q), q.pc \in {"enc", "enc_err", "sa"}
  PROVE  \A p \in Part : SameBook(q.mem.parts[p], store[q.enc].parts[p])
  BY DEF CopyFollows, AheadBy, Provisions

\* The record of an enclave, replaced by the copy of a request that follows it:
\* every partition takes one step of its lifecycle or none.
LEMMA LifeUpserted ==
  ASSUME TypeOK, NEW r \in Request, CopyFollows(run[r]), run[r].pc \in Provisions,
         store' = [store EXCEPT ![run[r].enc] = run[r].mem], res' = res
  PROVE  LifecycleStep
<1> DEFINE q == run[r]
<1>1. /\ q.enc \in Enclave /\ q.part \in Part /\ q.mem.parts \in [Part -> PartRec]
      /\ q.conf \in [Enclave -> [Part -> Version]]
      /\ store \in [Enclave -> EncRec]
  BY RunTyped DEF TypeOK
<1>2. ASSUME NEW e \in Enclave, NEW p \in Part, e # q.enc PROVE LifeStep(e, p)
  <2>1. store'[e] = store[e]
    BY <1>1, <1>2
  <2> QED
    BY <2>1, LifeSame DEF SameBook
<1>3. ASSUME NEW e \in Enclave, NEW p \in Part, e = q.enc PROVE LifeStep(e, p)
  <2>1. store'[e] = q.mem
    BY <1>1, <1>3
  <2>2. SameBook(store'[e].parts[p], q.mem.parts[p])
    BY <2>1 DEF SameBook
  <2>3. store[e].parts[p] \in PartRec /\ q.mem.parts[p] \in PartRec
    BY <1>1 DEF EncRec
  <2>4. store[e].parts[p].handle \in BOOLEAN /\ q.mem.parts[p].handle \in BOOLEAN
    BY <2>3 DEF PartRec
  <2>5. q.conf[e][p] \in Version
    BY <1>1, <1>3
  <2>6. \/ SameBook(q.mem.parts[p], store[e].parts[p])
        \/ p = q.part /\ AheadBy(q, p)
    BY <1>3 DEF CopyFollows
  <2>7. CASE SameBook(q.mem.parts[p], store[e].parts[p])
    BY <2>2, <2>7, LifeSame DEF SameBook
  <2>8. CASE p = q.part /\ AheadBy(q, p)
    <3>1. q.pc \in {"sa_save", "tf"} => q.mem.parts[p].handle
      BY <1>3, <2>8 DEF CopyFollows
    <3>2. res' = res /\ q.pc \in Provisions
      BY <1>3
    <3> HIDE DEF q
    <3> QED
      BY <1>3, <2>2, <2>4, <2>5, <2>8, <3>1, <3>2, LifeSaved
  <2> QED
    BY <2>6, <2>7, <2>8
<1> QED
  BY <1>2, <1>3 DEF LifecycleStep, LifeStep

\* The steps around the partitions of an enclave: what is stored is the snapshot,
\* or the copy with the outcome of the last partition.
LEMMA FollowsEnclave ==
  ASSUME TypeOK, SerialInv, NEW r \in Request, CopyFollows(run[r]),
         \/ \E e \in Enclave : EnclaveBegin(r, e)
         \/ ProvisionEnclave(r) \/ EnclaveError(r) \/ SaveEnclave(r)
         \/ SaveImporter(r)
  PROVE  CopyFollows(run[r])' /\ LifecycleStep
<1> DEFINE q == run[r]
<1>1. q.enc \in Enclave /\ store \in [Enclave -> EncRec]
  BY RunTyped DEF TypeOK
<1>2. ASSUME NEW e \in Enclave, EnclaveBegin(r, e)
      PROVE  CopyFollows(run[r])' /\ LifecycleStep
  <2>1. /\ run'[r].pc = "enc" /\ run'[r].enc = e
        /\ run'[r].mem.parts = q.snap[e].parts
        /\ store' = [store EXCEPT ![e] = run'[r].mem]
    BY <1>2, EnclaveBeginDoes
  <2>2. q.snap[e] = store[e] /\ res' = res
    BY <1>2 DEF EnclaveBegin, NextInOrder, SerialInv, RequestOK, FreshSnapshot, cloudVars
  <2>3. store'[e] = run'[r].mem
    BY <1>1, <2>1
  <2>4. \A o \in Enclave : store'[o].parts = store[o].parts
    BY <1>1, <2>1, <2>2, <2>3
  <2>5. CopyFollows(run[r])'
    <3>1. \A p \in Part : SameBook(run'[r].mem.parts[p], store'[run'[r].enc].parts[p])
      BY <2>1, <2>3 DEF SameBook
    <3>2. run'[r].pc \notin OnPartition
      BY <2>1 DEF OnPartition
    <3> QED
      BY <2>1, <3>1, <3>2, FollowsAtOnce
  <2> QED
    BY <2>2, <2>4, <2>5, LifeSame DEF SameBook, LifecycleStep, LifeStep
<1>3. CASE ProvisionEnclave(r)
  <2>1. q.pc = "enc" /\ store' = store /\ res' = res
    BY <1>3 DEF ProvisionEnclave
  <2>2. /\ run'[r].enc = q.enc /\ run'[r].mem.parts = q.mem.parts
        /\ run'[r].pc \in {"parts", "enc_err"}
    BY <1>3, ProvisionEnclaveDoes DEF SameAim
  <2>3. \A p \in Part : SameBook(q.mem.parts[p], store[q.enc].parts[p])
    BY <2>1, FollowedExactly
  <2>4. \A p \in Part : SameBook(run'[r].mem.parts[p], store'[run'[r].enc].parts[p])
    BY <2>1, <2>2, <2>3
  <2>5. run'[r].pc \notin OnPartition
    BY <2>2 DEF OnPartition
  <2>6. CopyFollows(run[r])'
    BY <2>2, <2>4, <2>5, FollowsAtOnce
  <2> QED
    BY <2>1, <2>6, LifeSame DEF SameBook, LifecycleStep, LifeStep
<1>4. CASE EnclaveError(r) \/ SaveEnclave(r)
  <2>1. /\ q.pc \in {"enc_err", "save"} /\ run'[r].pc = "enclaves"
        /\ store' = [store EXCEPT ![q.enc] = q.mem] /\ res' = res
    BY <1>4, EnclaveErrorDoes, SaveEnclaveDoes DEF EnclaveError, SaveEnclave, cloudVars
  <2>2. CopyFollows(run[r])'
    BY <2>1 DEF CopyFollows, Provisions
  <2>3. q.pc \in Provisions
    BY <2>1 DEF Provisions
  <2> QED
    BY <2>1, <2>2, <2>3, LifeUpserted
<1>5. CASE SaveImporter(r)
  <2>1. /\ run'[r].pc = "imports" /\ q.pc = "imp" /\ res' = res
        /\ store' = [store EXCEPT ![q.enc] = IF q.changed THEN q.mem ELSE store[q.enc]]
    BY <1>5, SaveImporterDoes DEF SaveImporter, cloudVars
  <2>2. q.mem.parts = store[q.enc].parts
    BY <2>1 DEF SerialInv, RequestOK, TruthfulCopy
  <2>3. \A o \in Enclave : store'[o].parts = store[o].parts
    BY <1>1, <2>1, <2>2
  <2>4. CopyFollows(run[r])'
    BY <2>1 DEF CopyFollows, Provisions
  <2> QED
    BY <2>1, <2>3, <2>4, LifeSame DEF SameBook, LifecycleStep, LifeStep
<1> QED
  BY <1>2, <1>3, <1>4, <1>5

\* The steps on a partition.  Its status is stored before the driver works on it,
\* and the outcome of that work stays with the request for the time being.
LEMMA FollowsPartition ==
  ASSUME TypeOK, SerialInv, NEW r \in Request, CopyFollows(run[r]),
         \/ \E p \in Part : PartitionBegin(r, p)
         \/ ProvisionPartition(r) \/ SaveHandle(r) \/ TerraformApply(r)
  PROVE  CopyFollows(run[r])' /\ LifecycleStep
<1> DEFINE q == run[r]
           i == <<q.enc, q.part>>
<1>1. /\ q.enc \in Enclave /\ q.part \in Part /\ store \in [Enclave -> EncRec]
      /\ i \in Enclave \X Part
  BY RunTyped DEF TypeOK
<1>2. ASSUME NEW p \in Part, PartitionBegin(r, p)
      PROVE  CopyFollows(run[r])' /\ LifecycleStep
  <2> DEFINE m == run'[r].mem.parts
  <2>1. /\ run'[r].pc = "sa" /\ run'[r].enc = q.enc /\ run'[r].part = p
        /\ run'[r].pend = q.pend \ {p}
        /\ \A o \in Part : o # p => m[o] = q.mem.parts[o]
        /\ m[p].status = InFlight(q.mem.parts[p].handle)
        /\ m[p].hash = q.mem.parts[p].hash /\ m[p].handle = q.mem.parts[p].handle
        /\ store' = [store EXCEPT ![q.enc] = run'[r].mem]
    BY <1>2, PartitionBeginDoes
  <2>2. q.pc = "parts" /\ p \in q.pend /\ res' = res
    BY <1>2 DEF PartitionBegin, cloudVars
  <2>3. store'[q.enc] = run'[r].mem
    BY <1>1, <2>1
  <2>4. CopyFollows(run[r])'
    <3>1. \A o \in Part : SameBook(run'[r].mem.parts[o], store'[run'[r].enc].parts[o])
      BY <2>1, <2>3 DEF SameBook
    <3> QED
      BY <2>1, <3>1, FollowsAtOnce
  <2>5. ASSUME NEW e \in Enclave, NEW o \in Part, e # q.enc PROVE LifeStep(e, o)
    <3>1. store'[e] = store[e]
      BY <1>1, <2>1, <2>5
    <3> QED
      BY <2>2, <3>1, LifeSame DEF SameBook
  <2>6. ASSUME NEW e \in Enclave, NEW o \in Part, e = q.enc, o # p PROVE LifeStep(e, o)
    <3>1. SameBook(store'[e].parts[o], q.mem.parts[o])
      BY <2>1, <2>3, <2>6 DEF SameBook
    <3>2. store[e].parts[o] \in PartRec /\ q.mem.parts[o] \in PartRec
      BY <1>1, RunTyped DEF EncRec
    <3>3. store[e].parts[o].handle \in BOOLEAN /\ q.mem.parts[o].handle \in BOOLEAN
      BY <3>2 DEF PartRec
    <3>4. q.conf[e][o] \in Version
      BY RunTyped
    <3>5. q.pc \in Provisions /\ q.pc \notin {"sa_save", "tf"}
      BY <2>2 DEF Provisions
    <3>6. SameBook(q.mem.parts[o], store[e].parts[o]) \/ AheadBy(q, o)
      BY <2>6, <3>5 DEF CopyFollows
    <3> HIDE DEF q
    <3> QED
      BY <2>2, <2>6, <3>1, <3>3, <3>4, <3>5, <3>6, LifeSaved
  <2>7. ASSUME NEW e \in Enclave, e = q.enc PROVE LifeStep(e, p)
    <3>1. q.pc \in Provisions
      BY <2>2 DEF Provisions
    <3>2. SameBook(q.mem.parts[p], store[e].parts[p])
      BY <2>2, <2>7, <3>1 DEF CopyFollows
    <3>3. /\ store'[e].parts[p].status = InFlight(store[e].parts[p].handle)
          /\ store'[e].parts[p].hash = store[e].parts[p].hash
          /\ store'[e].parts[p].handle = store[e].parts[p].handle
      BY <2>1, <2>3, <2>7, <3>2 DEF SameBook
    <3> QED
      BY <2>2, <3>3, LifeBegin
  <2> QED
    BY <2>4, <2>5, <2>6, <2>7 DEF LifecycleStep, LifeStep
<1>3. q.pc \in OnPartition =>
        /\ q.part \notin q.pend
        /\ store[q.enc].parts[q.part].status \in {"provisioning", "updating"}
        /\ \A p \in Part : p # q.part => SameBook(q.mem.parts[p], store[q.enc].parts[p])
        /\ \/ SameBook(q.mem.parts[q.part], store[q.enc].parts[q.part])
           \/ AheadBy(q, q.part)
  <2>1. q.pc \in OnPartition => q.pc \in Provisions
    BY DEF OnPartition, Provisions
  <2>2. q.pc \in OnPartition => store[q.enc].parts[q.part].status \in {"provisioning", "updating"}
    BY DEF OnPartition, SerialInv, RequestOK, BookedPartition
  <2> QED
    BY <1>1, <2>1, <2>2 DEF CopyFollows
<1>4. CASE ProvisionPartition(r)
  <2> DEFINE m == run'[r].mem.parts
             s == store[q.enc].parts[q.part]
  <2>1. q.pc = "sa" /\ store' = store /\ res' = res
    BY <1>4 DEF ProvisionPartition
  <2>2. \A p \in Part : SameBook(q.mem.parts[p], store[q.enc].parts[p])
    BY <2>1, FollowedExactly
  <2>3. /\ run'[r].enc = q.enc /\ run'[r].part = q.part /\ run'[r].pend = q.pend
        /\ \A p \in Part : p # q.part => m[p] = q.mem.parts[p]
        /\ m[q.part].hash = q.mem.parts[q.part].hash
        /\ \/ /\ run'[r].pc = "sa_save" /\ m[q.part].handle
              /\ m[q.part].status = q.mem.parts[q.part].status
           \/ /\ run'[r].pc = "parts" /\ m[q.part].status = "error"
              /\ m[q.part].handle = q.mem.parts[q.part].handle
    BY <1>4, ProvisionPartitionDoes DEF SameAim, OtherParts
  <2>4. \A p \in Part : p # q.part => SameBook(m[p], store[q.enc].parts[p])
    BY <2>2, <2>3
  <2>5. q.part \notin q.pend /\ s.status \in {"provisioning", "updating"}
    BY <1>3, <2>1 DEF OnPartition
  <2>6. AheadBy(run[r], run[r].part)'
    <3>1. SameBook(q.mem.parts[q.part], s)
      BY <1>1, <2>2
    <3>2. /\ q.mem.parts[q.part].status = s.status
          /\ q.mem.parts[q.part].hash = s.hash /\ q.mem.parts[q.part].handle = s.handle
      BY <3>1 DEF SameBook
    <3>3. CASE run'[r].pc = "sa_save"
      <4>1. m[q.part].status = s.status /\ m[q.part].hash = s.hash
        BY <2>3, <3>2, <3>3
      <4> QED
        BY <2>1, <2>3, <2>5, <3>3, <4>1 DEF AheadBy
    <3>4. CASE run'[r].pc = "parts"
      <4>1. /\ m[q.part].status = "error" /\ m[q.part].hash = s.hash
            /\ m[q.part].handle = s.handle
        BY <2>3, <3>2, <3>4
      <4> QED
        BY <2>1, <2>3, <2>5, <3>4, <4>1 DEF AheadBy
    <3> QED
      BY <2>3, <3>3, <3>4
  <2>7. CopyFollows(run[r])'
    BY <2>1, <2>3, <2>4, <2>5, <2>6 DEF CopyFollows
  <2> QED
    BY <2>1, <2>7, LifeSame DEF SameBook, LifecycleStep, LifeStep
<1>5. CASE SaveHandle(r)
  <2>1. /\ q.pc = "sa_save" /\ res' = res
        /\ run'[r].enc = q.enc /\ run'[r].part = q.part /\ run'[r].pend = q.pend
        /\ run'[r].mem = q.mem /\ run'[r].pc = "tf"
        /\ store' = store \/ store' = [store EXCEPT ![q.enc] = q.mem]
    BY <1>5, SaveHandleDoes DEF SaveHandle, SameAim, cloudVars
  <2>2. q.part \notin q.pend /\ q.mem.parts[q.part].handle /\ q.pc \in Provisions
    BY <1>3, <2>1 DEF OnPartition, CopyFollows, Provisions
  <2>3. CASE store' = [store EXCEPT ![q.enc] = q.mem]
    <3>1. \A p \in Part : SameBook(run'[r].mem.parts[p], store'[run'[r].enc].parts[p])
      BY <1>1, <2>1, <2>3 DEF SameBook
    <3> QED
      BY <2>1, <2>2, <2>3, <3>1, FollowsAtOnce, LifeUpserted
  <2>4. CASE store' = store
    <3>1. AheadBy(run[r], run[r].part) => AheadBy(run[r], run[r].part)'
      BY <2>1, <2>4 DEF AheadBy
    <3>2. CopyFollows(run[r])'
      BY <1>3, <2>1, <2>2, <2>4, <3>1 DEF CopyFollows, OnPartition
    <3> QED
      BY <2>1, <2>4, <3>2, LifeSame DEF SameBook, LifecycleStep, LifeStep
  <2> QED
    BY <2>1, <2>3, <2>4
<1>6. CASE TerraformApply(r)
  <2> DEFINE m == run'[r].mem.parts
             s == store[q.enc].parts[q.part]
             v == q.conf[q.enc][q.part]
  <2>1. q.pc = "tf" /\ store' = store
    BY <1>6 DEF TerraformApply
  <2>2. /\ run'[r].enc = q.enc /\ run'[r].part = q.part /\ run'[r].pend = q.pend
        /\ run'[r].conf = q.conf /\ run'[r].pc = "parts"
        /\ \A p \in Part : p # q.part => m[p] = q.mem.parts[p]
        /\ m[q.part].handle = q.mem.parts[q.part].handle
        /\ \A j \in Enclave \X Part : j # i => res'[j] = res[j]
        /\ \/ m[q.part].status = "active" /\ m[q.part].hash = v /\ res'[i] = v
           \/ /\ m[q.part].status = "error" /\ m[q.part].hash = q.mem.parts[q.part].hash
              /\ res'[i] \in {res[i], Broken, v}
    BY <1>6, TerraformApplyDoes DEF SameCall, SameAim, OtherParts
  <2>3. /\ q.part \notin q.pend /\ s.status \in {"provisioning", "updating"}
        /\ q.mem.parts[q.part].hash = s.hash
        /\ \A p \in Part : p # q.part => SameBook(q.mem.parts[p], store[q.enc].parts[p])
    BY <1>3, <2>1 DEF OnPartition, SameBook, AheadBy
  <2>4. q.mem.parts[q.part].handle = TRUE
    <3>1. q.mem.parts[q.part] \in PartRec
      BY RunTyped
    <3>2. q.mem.parts[q.part].handle
      BY <2>1 DEF CopyFollows, Provisions
    <3> QED
      BY <3>1, <3>2 DEF PartRec
  <2>5. AheadBy(run[r], run[r].part)'
    <3>1. store'[run'[r].enc].parts[run'[r].part] = s /\ m[run'[r].part].handle = TRUE
      BY <2>1, <2>2, <2>4
    <3>2. /\ run'[r].pc = "parts" /\ s.status \in {"provisioning", "updating"}
          /\ v = run'[r].conf[run'[r].enc][run'[r].part] /\ i = <<run'[r].enc, run'[r].part>>
          /\ m[q.part] = m[run'[r].part]
      BY <2>2, <2>3
    <3>3. CASE m[q.part].status = "active" /\ m[q.part].hash = v /\ res'[i] = v
      BY <3>1, <3>2, <3>3 DEF AheadBy
    <3>4. CASE m[q.part].status = "error" /\ m[q.part].hash = s.hash
      BY <3>1, <3>2, <3>4 DEF AheadBy
    <3> QED
      BY <2>2, <2>3, <3>3, <3>4
  <2>6. CopyFollows(run[r])'
    <3>1. \A p \in Part : p # q.part => SameBook(m[p], store[q.enc].parts[p])
      BY <2>2, <2>3
    <3> QED
      BY <2>1, <2>2, <2>3, <2>5, <3>1 DEF CopyFollows, OnPartition
  <2>7. ASSUME NEW e \in Enclave, NEW p \in Part, <<e, p>> # i PROVE LifeStep(e, p)
    BY <2>1, <2>2, <2>7, LifeSame DEF SameBook
  <2>8. ASSUME NEW e \in Enclave, NEW p \in Part, <<e, p>> = i PROVE LifeStep(e, p)
    <3>1. CASE res'[<<e, p>>] = res[<<e, p>>]
      BY <2>1, <3>1, LifeSame DEF SameBook
    <3>2. CASE res'[<<e, p>>] \in {v, Broken}
      <4>1. v \in Version /\ e = q.enc /\ p = q.part
        BY <2>8, RunTyped
      <4> QED
        BY <2>1, <2>3, <3>2, <4>1 DEF LifeStep, Life!Next, Life!Change, Life!InFlight
    <3> QED
      BY <2>2, <2>8, <3>1, <3>2
  <2> QED
    BY <2>6, <2>7, <2>8 DEF LifecycleStep, LifeStep
<1> QED
  BY <1>2, <1>4, <1>5, <1>6

LEMMA FollowsStep ==
  ASSUME ~ Overlap, TypeOK, SerialInv, CopiesFollow, [Next]_vars
  PROVE  CopiesFollow' /\ LifecycleStep
<1>1. ASSUME NEW r \in Request, Start(r) \/ Proceed(r) \/ AbortRequest(r)
      PROVE  CopiesFollow' /\ LifecycleStep
  <2>1. CopyFollows(run[r])
    BY DEF CopiesFollow
  <2>2. CopyFollows(run[r])' /\ LifecycleStep
    BY <1>1, <2>1, FollowsAbort, FollowsQuiet, FollowsTeardown, FollowsEnclave, FollowsPartition
       DEF Proceed
  <2>3. \A o \in Request : o # r => run'[o].pc = "idle"
    BY <1>1, OthersIdle
  <2>4. ASSUME NEW o \in Request, o # r PROVE CopyFollows(run[o])'
    BY <2>3, <2>4 DEF CopyFollows, Provisions
  <2> QED
    BY <2>2, <2>4 DEF CopiesFollow
<1>2. CASE \/ \E e \in Enclave, cf \in [Part -> Version] : Commit(e, cf)
           \/ \E D \in DriverSets : Restart(D)
           \/ \E i \in locked : ForceUnlock(i)
           \/ UNCHANGED vars
  <2>1. store' = store /\ res' = res
    BY <1>2 DEF Commit, Restart, ForceUnlock, cloudVars, vars
  <2>2. LifecycleStep
    BY <2>1, LifeSame DEF SameBook, LifecycleStep, LifeStep
  <2>3. CASE run' = run
    <3>1. ASSUME NEW r \in Request PROVE CopyFollows(run[r])'
      <4>1. /\ run'[r] = run[r] /\ CopyFollows(run[r])
            /\ \A p \in Part : AheadBy(run[r], p) => AheadBy(run[r], p)'
        BY <2>1, <2>3 DEF CopiesFollow, AheadBy
      <4> QED
        BY <2>1, <4>1 DEF CopyFollows
    <3> QED
      BY <2>2, <3>1 DEF CopiesFollow
  <2>4. CASE run' = [r \in Request |-> IdleRun]
    <3>1. \A r \in Request : run'[r].pc = "idle"
      BY <2>4, DefaultsTyped
    <3> QED
      BY <2>2, <3>1 DEF CopiesFollow, CopyFollows, Provisions
  <2> QED
    BY <1>2, <2>2, <2>3, <2>4 DEF Commit, Restart, ForceUnlock, vars
<1> QED
  BY <1>1, <1>2 DEF Next

LEMMA FollowsInit ==
  ASSUME Init
  PROVE  CopiesFollow /\ \A e \in Enclave, p \in Part : Life(e, p)!Init
<1>1. \A r \in Request : run[r].pc = "idle"
  BY DefaultsTyped DEF Init
<1>2. \A e \in Enclave, p \in Part : store[e].parts[p] = NoPart /\ res[<<e, p>>] = 0
  BY DEF Init, NoRec
<1> QED
  BY <1>1, <1>2 DEF CopiesFollow, CopyFollows, Provisions, Life!Init, NoPart

\* The copy of a record that a request works on is ahead of the store by the
\* outcome of one partition at most: provision_enclave's and the partition loop's
\* upserts of the whole record lose and invent nothing.
THEOREM CopyCorrect ==
  ASSUME ~ Overlap
  PROVE  Spec => []CopiesFollow
<1>1. TypeOK /\ SerialInv /\ CopiesFollow /\ [Next]_vars => CopiesFollow'
  BY FollowsStep
<1>2. Init => CopiesFollow
  BY FollowsInit
<1> QED
  BY <1>1, <1>2, TypeCorrect, SerialCorrect, PTL DEF Spec

\* The record and the resources of each partition go through ResourceLifecycle:
\* the requests of reconcile() and of the destroy endpoints implement it, for
\* all partitions at once, whatever fails or crashes in between.
THEOREM LifecycleImplemented ==
  ASSUME ~ Overlap
  PROVE  Spec => PartitionLifecycle
<1>1. TypeOK /\ SerialInv /\ CopiesFollow /\ [Next]_vars => [LifecycleStep]_vars
  BY FollowsStep
<1>2. Init => \A e \in Enclave, p \in Part : Life(e, p)!Init
  BY FollowsInit
<1> QED
  BY <1>1, <1>2, TypeCorrect, SerialCorrect, CopyCorrect, PTL DEF Spec, PartitionLifecycle

----------------------------------------------------------------------------
(* A record is forgotten after what it stood for, or with an error.           *)

\* A teardown begins with every partition it is to destroy still pending.
LEMMA EmptiedBegins ==
  ASSUME TypeOK, SerialInv, NEW r \in Request,
         Start(r) \/ \E e \in Enclave : RemoveEnclave(r, e)
  PROVE  Emptied(run[r])'
<1>1. ASSUME NEW ro \in ResourcesOnly, LoadYaml(r, ro) PROVE Emptied(run[r])'
  BY <1>1, LoadYamlDoes DEF Emptied
<1>2. ASSUME NEW e \in Enclave, NEW ro \in ResourcesOnly, DestroyEnclave(r, e, ro)
      PROVE  Emptied(run[r])'
  BY <1>2, DestroyEnclaveDoes DEF Emptied
<1>3. ASSUME NEW e \in Enclave, NEW p \in Part, DestroyPartition(r, e, p)
      PROVE  Emptied(run[r])'
  BY <1>3, DestroyPartitionDoes DEF Emptied
<1>4. ASSUME NEW e \in Enclave, RemoveEnclave(r, e) PROVE Emptied(run[r])'
  <2>1. run[r].op = "apply" /\ drivers' = drivers
    BY <1>4 DEF RemoveEnclave, SerialInv, RequestOK, FreshSnapshot
  <2>2. /\ run'[r].op = "apply" /\ run'[r].enc = e /\ run'[r].snap[e] = run[r].snap[e]
        /\ IF run[r].snap[e].handle /\ e \in drivers
           THEN run'[r].pc = "td" /\ run'[r].pend = Recorded(run[r].snap[e])
           ELSE run'[r].pc = "forget"
    BY <1>4, <2>1, RemoveEnclaveDoes DEF SameCall
  <2> QED
    BY <2>1, <2>2 DEF Emptied
<1> QED
  BY <1>1, <1>2, <1>3, <1>4 DEF Start

\* A partition leaves `pend' with its resources gone or an error reported, and
\* the enclave itself is deleted last.
LEMMA EmptiedTeardown ==
  ASSUME TypeOK, NEW r \in Request, Emptied(run[r]),
         \/ \E p \in Part : TerraformDestroy(r, p)
         \/ TeardownPartition(r) \/ TeardownEnclave(r)
  PROVE  Emptied(run[r])'
<1> DEFINE q == run[r]
<1>1. q.enc \in Enclave /\ q.part \in Part /\ Recorded(q.snap[q.enc]) \subseteq Part
  BY RunTyped DEF Recorded
<1>2. ASSUME NEW p \in Part, TerraformDestroy(r, p) PROVE Emptied(run[r])'
  <2>1. /\ q.pc = "td" /\ p \in q.pend
        /\ run'[r].pc = "td_sa" /\ run'[r].enc = q.enc /\ run'[r].part = p
        /\ run'[r].pend = q.pend /\ run'[r].op = q.op /\ run'[r].snap = q.snap
        /\ q.errs => run'[r].errs
        /\ \A i \in Enclave \X Part : i # <<q.enc, p>> => res'[i] = res[i]
        /\ workspace' = workspace
        /\ run'[r].errs \/ Destroyed(q.enc, p)'
    BY <1>2, TerraformDestroyDoes DEF TerraformDestroy, SameCall
  <2>2. CASE q.op = "destroy_part"
    <3>1. q.pend \subseteq {q.part} /\ p = q.part
      BY <2>1, <2>2 DEF Emptied
    <3>2. run'[r].errs \/ Destroyed(run[r].enc, run[r].part)'
      BY <2>1 DEF Destroyed
    <3> QED
      BY <2>1, <2>2, <3>1, <3>2 DEF Emptied
  <2>3. CASE q.op # "destroy_part"
    <3>1. ASSUME NEW o \in Recorded(q.snap[q.enc])
          PROVE  run'[r].errs \/ (o \in q.pend /\ o # p) \/ Destroyed(run[r].enc, o)'
      <4>1. q.errs \/ o \in q.pend \/ Destroyed(q.enc, o)
        BY <2>1, <2>3 DEF Emptied
      <4>2. (o # p /\ Destroyed(q.enc, o)) \/ (o = p /\ Destroyed(q.enc, p)')
               => Destroyed(run[r].enc, o)'
        BY <1>1, <2>1 DEF Destroyed
      <4> QED
        BY <2>1, <4>1, <4>2
    <3> QED
      BY <2>1, <2>3, <3>1 DEF Emptied
  <2> QED
    BY <2>2, <2>3
<1>3. CASE TeardownPartition(r)
  <2>1. /\ q.pc = "td_sa" /\ res' = res /\ workspace' = workspace
        /\ run'[r].pc = "td" /\ run'[r].enc = q.enc /\ run'[r].part = q.part
        /\ run'[r].pend = q.pend \ {q.part} /\ run'[r].op = q.op
        /\ run'[r].snap = q.snap /\ (q.errs => run'[r].errs)
    BY <1>3, TeardownPartitionDoes DEF TeardownPartition, SameCall, SameAim
  <2>2. CASE q.op = "destroy_part"
    BY <2>1, <2>2 DEF Emptied, Destroyed
  <2>3. CASE q.op # "destroy_part"
    BY <2>1, <2>3 DEF Emptied, Destroyed
  <2> QED
    BY <2>2, <2>3
<1>4. CASE TeardownEnclave(r)
  <2>1. CASE run'[r].pc = "idle"
    BY <2>1 DEF Emptied
  <2>2. CASE run'[r].pc # "idle"
    <3>1. /\ q.pc = "td" /\ q.pend = {}
          /\ run'[r].pc = "forget" /\ run'[r].enc = q.enc /\ run'[r].part = q.part
          /\ run'[r].pend = q.pend /\ run'[r].op = q.op /\ run'[r].ro = q.ro
          /\ run'[r].snap = q.snap /\ (q.errs => run'[r].errs)
          /\ \/ run'[r].errs
             \/ q.op = "destroy_part" \/ q.ro
             \/ q.enc \notin project'
      BY <1>4, <2>2, TeardownEnclaveDoes DEF TeardownEnclave, SameCall, SameAim
    <3>2. /\ \A i \in Enclave \X Part : res'[i] \in {0, res[i]}
          /\ workspace' = workspace
      BY <1>4 DEF TeardownEnclave, DeleteProject, cloudVars
    <3>5. \A p \in Part : Destroyed(q.enc, p) => Destroyed(run[r].enc, p)'
      BY <1>1, <3>1, <3>2 DEF Destroyed
    <3>3. CASE q.op = "destroy_part"
      <4>1. q.errs \/ Destroyed(q.enc, q.part)
        BY <3>1, <3>3 DEF Emptied
      <4>2. q.errs \/ Destroyed(run[r].enc, run[r].part)'
        BY <1>1, <3>1, <3>5, <4>1 DEF Destroyed
      <4> QED
        BY <3>1, <3>3, <4>2 DEF Emptied
    <3>4. CASE q.op # "destroy_part"
      <4>1. q.errs \/ \A p \in Recorded(q.snap[q.enc]) : Destroyed(q.enc, p)
        BY <3>1, <3>4 DEF Emptied
      <4>2. q.errs \/ \A p \in Recorded(q.snap[q.enc]) : Destroyed(run[r].enc, p)'
        BY <1>1, <3>5, <4>1
      <4> QED
        BY <3>1, <3>4, <4>2 DEF Emptied
    <3> QED
      BY <3>3, <3>4
  <2> QED
    BY <2>1, <2>2
<1> QED
  BY <1>2, <1>3, <1>4

\* The other steps are not part of a teardown, or end it.
LEMMA EmptiedElsewhere ==
  ASSUME TypeOK, NEW r \in Request,
         \/ AbortRequest(r) \/ ListStore(r) \/ Forget(r) \/ BeginEnclaves(r)
         \/ \E e \in Enclave : SkipEnclave(r, e) \/ EnclaveBegin(r, e)
         \/ ProvisionEnclave(r) \/ EnclaveError(r)
         \/ \E p \in Part : SkipPartition(r, p) \/ PartitionBegin(r, p)
         \/ ProvisionPartition(r) \/ SaveHandle(r) \/ TerraformApply(r)
         \/ ProvisionExport(r) \/ SaveEnclave(r) \/ BeginImports(r)
         \/ \E e \in Enclave : ReadImporter(r, e) \/ WireImport(r, e)
         \/ SaveImporter(r) \/ Finish(r)
  PROVE  Emptied(run[r])'
<1>1. CASE AbortRequest(r) \/ Finish(r) \/ ListStore(r) \/ Forget(r) \/ BeginEnclaves(r)
  BY <1>1, Becomes, DefaultsTyped, ListStoreDoes, ForgetDoes, BeginEnclavesDoes
     DEF AbortRequest, Finish, Emptied
<1>2. ASSUME NEW e \in Enclave,
             \/ SkipEnclave(r, e) \/ EnclaveBegin(r, e)
             \/ ReadImporter(r, e) \/ WireImport(r, e)
      PROVE  Emptied(run[r])'
  <2>1. run'[r].pc \in {"enclaves", "enc", "imp", "imports"}
    BY <1>2, SkipEnclaveDoes, EnclaveBeginDoes, ReadImporterDoes, WireImportDoes
  <2> QED
    BY <2>1 DEF Emptied
<1>3. ASSUME NEW p \in Part, SkipPartition(r, p) \/ PartitionBegin(r, p)
      PROVE  Emptied(run[r])'
  BY <1>3, SkipPartitionDoes, PartitionBeginDoes DEF Emptied
<1>4. CASE ProvisionEnclave(r) \/ EnclaveError(r) \/ ProvisionPartition(r) \/ SaveHandle(r)
  <2>1. run'[r].pc \in {"parts", "enc_err", "enclaves", "sa_save", "tf"}
    BY <1>4, ProvisionEnclaveDoes, EnclaveErrorDoes, ProvisionPartitionDoes, SaveHandleDoes
  <2> QED
    BY <2>1 DEF Emptied
<1>5. CASE TerraformApply(r) \/ ProvisionExport(r) \/ SaveEnclave(r) \/ BeginImports(r)
           \/ SaveImporter(r)
  <2>1. run'[r].pc \in {"parts", "save", "enclaves", "imports"}
    BY <1>5, TerraformApplyDoes, ProvisionExportDoes, SaveEnclaveDoes, BeginImportsDoes,
       SaveImporterDoes
  <2> QED
    BY <2>1 DEF Emptied
<1> QED
  BY <1>1, <1>2, <1>3, <1>4, <1>5

LEMMA EmptiedStep ==
  ASSUME ~ Overlap, TypeOK, SerialInv, TeardownsEmpty, [Next]_vars
  PROVE  TeardownsEmpty'
<1>1. ASSUME NEW r \in Request, Start(r) \/ Proceed(r) \/ AbortRequest(r)
      PROVE  TeardownsEmpty'
  <2>1. Emptied(run[r])
    BY DEF TeardownsEmpty
  <2>2. Emptied(run[r])'
    BY <1>1, <2>1, EmptiedBegins, EmptiedTeardown, EmptiedElsewhere DEF Proceed
  <2>3. \A o \in Request : o # r => run'[o].pc = "idle"
    BY <1>1, OthersIdle
  <2>4. ASSUME NEW o \in Request, o # r PROVE Emptied(run[o])'
    BY <2>3, <2>4 DEF Emptied
  <2> QED
    BY <2>2, <2>4 DEF TeardownsEmpty
<1>2. CASE \/ \E e \in Enclave, cf \in [Part -> Version] : Commit(e, cf)
           \/ \E i \in locked : ForceUnlock(i)
           \/ UNCHANGED vars
  <2>1. UNCHANGED <<res, workspace, project, drivers, run>>
    BY <1>2 DEF Commit, ForceUnlock, cloudVars, vars
  <2> QED
    BY <2>1 DEF TeardownsEmpty, Emptied, Destroyed
<1>3. CASE \E D \in DriverSets : Restart(D)
  <2>1. \A r \in Request : run'[r].pc = "idle"
    BY <1>3, DefaultsTyped DEF Restart
  <2> QED
    BY <2>1 DEF TeardownsEmpty, Emptied
<1> QED
  BY <1>1, <1>2, <1>3 DEF Next

\* What a teardown without errors has passed over is destroyed, or had no workspace
\* directory to destroy it from.
THEOREM TeardownCorrect ==
  ASSUME ~ Overlap
  PROVE  Spec => []TeardownsEmpty
<1>1. TypeOK /\ SerialInv /\ TeardownsEmpty /\ [Next]_vars => TeardownsEmpty'
  BY EmptiedStep
<1>2. Init => TeardownsEmpty
  BY DefaultsTyped DEF Init, TeardownsEmpty, Emptied
<1> QED
  BY <1>1, <1>2, TypeCorrect, SerialCorrect, PTL DEF Spec

\* delete_enclave and delete_partition are called whatever failed before, but a
\* request that reports no error has destroyed what the record stood for and had
\* a workspace directory.
THEOREM ForgottenIsGone ==
  ASSUME ~ Overlap
  PROVE  Spec => NoSilentForget
<1>1. TeardownsEmpty => ForgetsOpenly
  BY DEF TeardownsEmpty, Emptied, ForgetsOpenly
<1>2. TeardownsEmpty /\ [Next]_vars => [ForgetsOpenly]_vars
  BY <1>1
<1> QED
  BY <1>2, TeardownCorrect, PTL DEF Spec, NoSilentForget

----------------------------------------------------------------------------
(* A clean report means convergence, as long as no commit brings back an old  *)
(* configuration.                                                             *)

\* A request goes on with the YAML it loaded, and an error is never taken back.
LEMMA ProceedKeeps ==
  ASSUME TypeOK, NEW r \in Request, Proceed(r), run'[r].pc # "idle"
  PROVE  /\ run'[r].op = run[r].op /\ run'[r].want = run[r].want
         /\ run'[r].conf = run[r].conf /\ (run[r].errs => run'[r].errs)
<1> DEFINE Kept == /\ run'[r].op = run[r].op /\ run'[r].want = run[r].want
                   /\ run'[r].conf = run[r].conf /\ (run[r].errs => run'[r].errs)
<1>1. CASE \/ ListStore(r) \/ TeardownPartition(r) \/ TeardownEnclave(r) \/ Forget(r)
           \/ BeginEnclaves(r) \/ ProvisionEnclave(r) \/ EnclaveError(r)
  BY <1>1, ListStoreDoes, TeardownPartitionDoes, TeardownEnclaveDoes, ForgetDoes,
     BeginEnclavesDoes, ProvisionEnclaveDoes, EnclaveErrorDoes DEF SameCall
<1>2. CASE \/ ProvisionPartition(r) \/ SaveHandle(r) \/ TerraformApply(r)
           \/ ProvisionExport(r) \/ SaveEnclave(r) \/ BeginImports(r) \/ SaveImporter(r)
  <2>1. SameCall(run[r], run'[r]) /\ (run[r].errs => run'[r].errs)
    BY <1>2, ProvisionPartitionDoes, SaveHandleDoes, TerraformApplyDoes,
       ProvisionExportDoes, SaveEnclaveDoes, BeginImportsDoes, SaveImporterDoes
  <2> QED
    BY <2>1 DEF SameCall
<1>3. CASE Finish(r)
  BY <1>3, Becomes, DefaultsTyped DEF Finish
<1>4. ASSUME NEW e \in Enclave,
             \/ RemoveEnclave(r, e) \/ SkipEnclave(r, e) \/ EnclaveBegin(r, e)
             \/ ReadImporter(r, e) \/ WireImport(r, e)
      PROVE  Kept
  <2>1. SameCall(run[r], run'[r]) /\ (run[r].errs => run'[r].errs)
    BY <1>4, RemoveEnclaveDoes, SkipEnclaveDoes, EnclaveBeginDoes, ReadImporterDoes,
       WireImportDoes
  <2> QED
    BY <2>1 DEF SameCall
<1>5. ASSUME NEW p \in Part,
             TerraformDestroy(r, p) \/ SkipPartition(r, p) \/ PartitionBegin(r, p)
      PROVE  Kept
  <2>1. SameCall(run[r], run'[r]) /\ (run[r].errs => run'[r].errs)
    BY <1>5, TerraformDestroyDoes, SkipPartitionDoes, PartitionBeginDoes
  <2> QED
    BY <2>1 DEF SameCall
<1> QED
  BY <1>1, <1>2, <1>3, <1>4, <1>5 DEF Proceed

\* Requests do not touch the YAML or the driver registry.
LEMMA RequestsKeep ==
  ASSUME NEW r \in Request, Start(r) \/ Proceed(r) \/ AbortRequest(r)
  PROVE  listed' = listed /\ conf' = conf /\ version' = version /\ drivers' = drivers
<1>1. CASE Start(r) \/ AbortRequest(r)
  BY <1>1 DEF Start, LoadYaml, DestroyEnclave, DestroyPartition, AbortRequest, yamlVars
<1>2. CASE Proceed(r)
  <2>1. CASE \/ ListStore(r) \/ TeardownPartition(r) \/ TeardownEnclave(r) \/ Forget(r)
             \/ BeginEnclaves(r) \/ ProvisionEnclave(r) \/ EnclaveError(r)
    BY <2>1 DEF ListStore, TeardownPartition, TeardownEnclave, Forget, BeginEnclaves,
       ProvisionEnclave, EnclaveError, yamlVars
  <2>2. CASE \/ ProvisionPartition(r) \/ SaveHandle(r) \/ TerraformApply(r)
             \/ ProvisionExport(r) \/ SaveEnclave(r) \/ BeginImports(r)
             \/ SaveImporter(r) \/ Finish(r)
    BY <2>2 DEF ProvisionPartition, SaveHandle, TerraformApply, ProvisionExport,
       SaveEnclave, BeginImports, SaveImporter, Finish, yamlVars
  <2>3. CASE \/ \E e \in Enclave : \/ RemoveEnclave(r, e) \/ SkipEnclave(r, e)
                                   \/ EnclaveBegin(r, e) \/ ReadImporter(r, e)
                                   \/ WireImport(r, e)
             \/ \E p \in Part : \/ TerraformDestroy(r, p) \/ SkipPartition(r, p)
                                \/ PartitionBegin(r, p)
    BY <2>3 DEF RemoveEnclave, SkipEnclave, EnclaveBegin, ReadImporter, WireImport,
       TerraformDestroy, SkipPartition, PartitionBegin, yamlVars
  <2> QED
    BY <1>2, <2>1, <2>2, <2>3 DEF Proceed
<1> QED
  BY <1>1, <1>2

\* Every upsert of a request is one of these: the record of one enclave, and of
\* each partition in it either what the store has, what the copy has, nothing, or
\* the mark that it is in flight.
LEMMA Stores ==
  ASSUME TypeOK, SerialInv, NEW r \in Request, Start(r) \/ Proceed(r) \/ AbortRequest(r)
  PROVE  \/ \A o \in Enclave : store'[o].parts = store[o].parts
         \/ \A o \in Enclave, p \in Part : store'[o].parts[p] \in {store[o].parts[p], NoPart}
         \/ /\ run[r].pc \in Provisions
            /\ store' = [store EXCEPT ![run[r].enc] = run[r].mem]
         \/ \E p \in run[r].pend :
              /\ run[r].pc = "parts"
              /\ store' = [store EXCEPT ![run[r].enc] = run'[r].mem]
              /\ \A o \in Part : o # p => run'[r].mem.parts[o] = run[r].mem.parts[o]
              /\ run'[r].mem.parts[p].hash = run[r].mem.parts[p].hash
              /\ run[r].mem.parts[p].hash # run[r].conf[run[r].enc][p]
<1> DEFINE q == run[r]
           Goal == \/ \A o \in Enclave : store'[o].parts = store[o].parts
                   \/ \A o \in Enclave, p \in Part :
                        store'[o].parts[p] \in {store[o].parts[p], NoPart}
                   \/ /\ q.pc \in Provisions
                      /\ store' = [store EXCEPT ![q.enc] = q.mem]
                   \/ \E p \in q.pend :
                        /\ q.pc = "parts"
                        /\ store' = [store EXCEPT ![q.enc] = run'[r].mem]
                        /\ \A o \in Part : o # p => run'[r].mem.parts[o] = q.mem.parts[o]
                        /\ run'[r].mem.parts[p].hash = q.mem.parts[p].hash
                        /\ q.mem.parts[p].hash # q.conf[q.enc][p]
<1>0. q.enc \in Enclave /\ q.part \in Part /\ store \in [Enclave -> EncRec]
  BY RunTyped DEF TypeOK
<1>1. store' = store => Goal
  OBVIOUS
<1>2. CASE Start(r) \/ AbortRequest(r)
  BY <1>1, <1>2 DEF Start, LoadYaml, DestroyEnclave, DestroyPartition, AbortRequest
<1>3. CASE \/ ListStore(r) \/ TeardownPartition(r) \/ TeardownEnclave(r)
           \/ BeginEnclaves(r) \/ ProvisionEnclave(r) \/ ProvisionPartition(r)
           \/ TerraformApply(r) \/ ProvisionExport(r) \/ BeginImports(r) \/ Finish(r)
  <2>1. store' = store
    BY <1>3 DEF ListStore, TeardownPartition, TeardownEnclave, BeginEnclaves,
       ProvisionEnclave, ProvisionPartition, TerraformApply, ProvisionExport,
       BeginImports, Finish
  <2> QED
    BY <1>1, <2>1
<1>4. CASE \/ \E e \in Enclave : \/ RemoveEnclave(r, e) \/ SkipEnclave(r, e)
                                 \/ ReadImporter(r, e) \/ WireImport(r, e)
           \/ \E p \in Part : TerraformDestroy(r, p) \/ SkipPartition(r, p)
  <2>1. store' = store
    BY <1>4 DEF RemoveEnclave, SkipEnclave, ReadImporter, WireImport,
       TerraformDestroy, SkipPartition
  <2> QED
    BY <1>1, <2>1
<1>5. CASE EnclaveError(r) \/ SaveEnclave(r) \/ SaveHandle(r)
  <2>1. q.pc \in Provisions
    BY <1>5 DEF EnclaveError, SaveEnclave, SaveHandle, Provisions
  <2>2. store' = store \/ store' = [store EXCEPT ![q.enc] = q.mem]
    BY <1>5, EnclaveErrorDoes, SaveEnclaveDoes, SaveHandleDoes
  <2> QED
    BY <1>1, <2>1, <2>2
<1>6. CASE SaveImporter(r)
  <2>1. q.mem.parts = store[q.enc].parts
    BY <1>6 DEF SaveImporter, SerialInv, RequestOK, TruthfulCopy
  <2>2. store' = [store EXCEPT ![q.enc] = IF q.changed THEN q.mem ELSE store[q.enc]]
    BY <1>6, SaveImporterDoes
  <2> QED
    BY <1>0, <2>1, <2>2
<1>7. ASSUME NEW e \in Enclave, EnclaveBegin(r, e) PROVE Goal
  <2>1. /\ run'[r].mem.parts = q.snap[e].parts
        /\ store' = [store EXCEPT ![e] = run'[r].mem]
    BY <1>7, EnclaveBeginDoes
  <2>2. q.snap[e] = store[e]
    BY <1>7 DEF EnclaveBegin, NextInOrder, SerialInv, RequestOK, FreshSnapshot
  <2> QED
    BY <1>0, <2>1, <2>2
<1>8. ASSUME NEW p \in Part, PartitionBegin(r, p) PROVE Goal
  <2>1. q.pc = "parts" /\ p \in q.pend /\ q.mem.parts[p].hash # q.conf[q.enc][p]
    BY <1>8 DEF PartitionBegin, HashUnchanged
  <2>2. /\ store' = [store EXCEPT ![q.enc] = run'[r].mem]
        /\ \A o \in Part : o # p => run'[r].mem.parts[o] = q.mem.parts[o]
        /\ run'[r].mem.parts[p].hash = q.mem.parts[p].hash
    BY <1>8, PartitionBeginDoes
  <2> QED
    BY <2>1, <2>2
<1>9. CASE Forget(r)
  <2>1. SetPart(store[q.enc], q.part, NoPart).parts
             = [store[q.enc].parts EXCEPT ![q.part] = NoPart]
    BY <1>0, SetPartTyped, DefaultsTyped
  <2>2. NoRec.parts = [p \in Part |-> NoPart]
    BY DEF NoRec
  <2>3. \A o \in Enclave, p \in Part :
          store'[o].parts[p] \in {store[o].parts[p], NoPart}
    BY <1>0, <1>9, <2>1, <2>2 DEF Forget, EncRec
  <2> QED
    BY <2>3
<1> QED
  BY <1>2, <1>3, <1>4, <1>5, <1>6, <1>7, <1>8, <1>9 DEF Proceed

\* The copy of a record is behind the YAML as the record is, or has caught up.
LEMMA CopyBehind ==
  ASSUME TypeOK, RecordsBehind, NEW r \in Request, NEW p \in Part,
         CopyFollows(run[r]), CallBehind(run[r]),
         run[r].pc \in Provisions, run[r].op = "apply"
  PROVE  LET m == run[r].mem.parts[p]  e == run[r].enc IN
         /\ m.hash <= version /\ UpTo(m, conf[e][p])
         /\ UpTo(m, run[r].conf[e][p])
<1> DEFINE q == run[r]
           e == q.enc
           m == q.mem.parts[p]
           s == store[e].parts[p]
           v == conf[e][p]
           w == q.conf[e][p]
<1>1. e \in Enclave
  BY RunTyped
<1>2. m \in PartRec /\ s \in PartRec /\ v \in Version /\ w \in Version
  BY <1>1, RunTyped DEF TypeOK, EncRec
<1>3. m.hash \in Nat /\ s.hash \in Nat /\ v \in Nat /\ w \in Nat /\ version \in Nat
  BY <1>2, ConstantsAssumption DEF PartRec, Version, TypeOK
<1>4. s.hash <= version /\ UpTo(s, v)
  BY <1>1 DEF RecordsBehind
<1>5. w <= version /\ (v = 0 \/ w <= v) /\ UpTo(s, w)
  <2>1. q.pc # "idle"
    BY DEF Provisions
  <2> QED
    BY <1>1, <2>1 DEF CallBehind
<1>6. \/ m.status = s.status /\ m.hash = s.hash
      \/ m.status = "active" /\ m.hash = w
      \/ m.hash = s.hash /\ s.status # "active"
  BY DEF CopyFollows, SameBook, AheadBy
<1> HIDE DEF q, e, m, s, v, w
<1>7. m.hash <= version
  BY <1>3, <1>4, <1>5, <1>6
<1>8. UpTo(m, v)
  BY <1>3, <1>4, <1>5, <1>6 DEF UpTo
<1>9. UpTo(m, w)
  BY <1>3, <1>5, <1>6 DEF UpTo
<1> QED
  BY <1>7, <1>8, <1>9 DEF m, e, v, w, q

\* A step of a request leaves the records behind the YAML: what it stores it had
\* loaded, or is older, or is the outcome of applying the YAML it loaded.
LEMMA BehindRequest ==
  ASSUME TypeOK, SerialInv, RecordsBehind, NEW r \in Request,
         CopyFollows(run[r]), CallBehind(run[r]), Scope(run[r]),
         Start(r) \/ Proceed(r) \/ AbortRequest(r)
  PROVE  RecordsBehind' /\ CallBehind(run[r])'
<1> DEFINE q == run[r]
           Fits(ps, e, p) ==
             /\ ps.hash <= version /\ UpTo(ps, conf[e][p])
             /\ q.op = "apply" /\ q.pc # "idle" => UpTo(ps, q.conf[e][p])
<1>1. q.enc \in Enclave /\ store \in [Enclave -> EncRec] /\ version \in Nat
  BY RunTyped, ConstantsAssumption DEF TypeOK
<1>2. conf' = conf /\ version' = version
  BY RequestsKeep
<1>3. \A e \in Enclave, p \in Part : Fits(store[e].parts[p], e, p)
  BY DEF RecordsBehind, CallBehind
<1>4. ASSUME NEW e \in Enclave, NEW p \in Part PROVE Fits(store'[e].parts[p], e, p)
  <2>1. Fits(NoPart, e, p)
    <3>1. NoPart.hash = 0
      BY DEF NoPart
    <3>2. conf[e][p] \in Version /\ q.conf[e][p] \in Version
      BY RunTyped DEF TypeOK
    <3>3. conf[e][p] \in Nat /\ q.conf[e][p] \in Nat
      BY <3>2, ConstantsAssumption DEF Version
    <3> QED
      BY <1>1, <3>1, <3>3 DEF UpTo
  <2>2. CASE \A o \in Enclave : store'[o].parts = store[o].parts
    BY <1>3, <2>2
  <2>3. CASE \A o \in Enclave, i \in Part : store'[o].parts[i] \in {store[o].parts[i], NoPart}
    BY <1>3, <2>1, <2>3
  <2>4. ASSUME q.pc \in Provisions PROVE q.op = "apply" /\ q.pc # "idle"
    BY <2>4 DEF SerialInv, RequestOK, FreshSnapshot, Provisions
  <2>5. ASSUME q.pc \in Provisions, e = q.enc PROVE Fits(q.mem.parts[p], e, p)
    BY <2>4, <2>5, CopyBehind
  <2>6. CASE q.pc \in Provisions /\ store' = [store EXCEPT ![q.enc] = q.mem]
    <3>1. CASE e # q.enc
      BY <1>1, <1>3, <2>6, <3>1
    <3>2. CASE e = q.enc
      <4>1. store'[e] = q.mem
        BY <1>1, <2>6, <3>2
      <4> QED
        BY <2>5, <2>6, <3>2, <4>1
    <3> QED
      BY <3>1, <3>2
  <2>7. ASSUME NEW i \in q.pend, q.pc = "parts",
               store' = [store EXCEPT ![q.enc] = run'[r].mem],
               \A o \in Part : o # i => run'[r].mem.parts[o] = q.mem.parts[o],
               run'[r].mem.parts[i].hash = q.mem.parts[i].hash,
               q.mem.parts[i].hash # q.conf[q.enc][i]
        PROVE  Fits(store'[e].parts[p], e, p)
    <3>1. q.pc \in Provisions
      BY <2>7 DEF Provisions
    <3>2. CASE e # q.enc
      BY <1>1, <1>3, <2>7, <3>2
    <3>3. CASE e = q.enc /\ p # i
      <4>1. store'[e].parts[p] = q.mem.parts[p]
        BY <1>1, <2>7, <3>3
      <4> QED
        BY <2>5, <3>1, <3>3, <4>1
    <3>4. CASE e = q.enc /\ p = i
      <4> DEFINE m == q.mem.parts[p]
                 n == store'[e].parts[p]
                 v == conf[e][p]
                 w == q.conf[e][p]
      <4>1. n.hash = m.hash /\ m.hash # w
        BY <1>1, <2>7, <3>4
      <4>2. m \in PartRec /\ v \in Version /\ w \in Version
        BY RunTyped DEF TypeOK
      <4>3. m.hash \in Nat /\ v \in Nat /\ w \in Nat
        BY <4>2, ConstantsAssumption DEF PartRec, Version
      <4>4. m.hash <= version /\ UpTo(m, v) /\ UpTo(m, w)
        BY <2>5, <3>1, <2>4, <3>4
      <4>5. v = 0 \/ w <= v
        BY <2>4, <3>1 DEF CallBehind
      <4>6. w # 0
        BY <2>7, <3>4 DEF Scope, Declared
      <4> HIDE DEF m, n, v, w
      <4>7. n.hash <= version /\ UpTo(n, v) /\ UpTo(n, w)
        BY <4>1, <4>3, <4>4, <4>5, <4>6 DEF UpTo
      <4> QED
        BY <4>7 DEF n, v, w
    <3> QED
      BY <3>2, <3>3, <3>4
  <2> HIDE DEF Fits
  <2> QED
    BY <2>2, <2>3, <2>6, <2>7, Stores
<1>5. RecordsBehind'
  BY <1>2, <1>3, <1>4 DEF RecordsBehind
<1>6. CallBehind(run[r])'
  <2>1. CASE Start(r)
    <3>1. \/ run'[r].conf = conf /\ store' = store
          \/ run'[r].op # "apply"
      BY <2>1, LoadYamlDoes, DestroyEnclaveDoes, DestroyPartitionDoes DEF Start, LoadYaml
    <3>2. \A e \in Enclave, p \in Part : conf[e][p] \in Nat
      <4>1. \A e \in Enclave, p \in Part : conf[e][p] \in Version
        BY DEF TypeOK
      <4> QED
        BY <4>1, ConstantsAssumption DEF Version
    <3> QED
      BY <1>2, <3>1, <3>2 DEF CallBehind, RecordsBehind
  <2>2. CASE AbortRequest(r)
    BY <2>2, Becomes, DefaultsTyped DEF AbortRequest, CallBehind
  <2>3. CASE Proceed(r)
    <3>1. run'[r].pc = "idle" \/ (run'[r].op = q.op /\ run'[r].conf = q.conf)
      BY <2>3, ProceedKeeps
    <3>2. q.pc # "idle"
      BY <2>3, ProceedBusy
    <3> QED
      BY <1>2, <1>4, <3>1, <3>2 DEF CallBehind
  <2> QED
    BY <2>1, <2>2, <2>3
<1> QED
  BY <1>5, <1>6

\* Outside the removal of enclaves, what is stored is a record of a wanted enclave.
LEMMA StoresWanted ==
  ASSUME TypeOK, SerialInv, NEW r \in Request, Scope(run[r]),
         Start(r) \/ Proceed(r) \/ AbortRequest(r)
  PROVE  \/ store' = store
         \/ Forget(r)
         \/ \E e \in run[r].want :
              /\ run[r].pc \in Provisions \cup {"enclaves", "imp"}
              /\ store'[e].status # "none"
              /\ \A o \in Enclave : o # e => store'[o] = store[o]
<1> DEFINE q == run[r]
           Goal == \/ store' = store
                   \/ Forget(r)
                   \/ \E e \in q.want :
                        /\ q.pc \in Provisions \cup {"enclaves", "imp"}
                        /\ store'[e].status # "none"
                        /\ \A o \in Enclave : o # e => store'[o] = store[o]
<1>1. q.enc \in Enclave /\ q.want \subseteq Enclave /\ store \in [Enclave -> EncRec]
  BY RunTyped DEF TypeOK
<1>2. ASSUME NEW e \in q.want, NEW rec, rec.status # "none",
             q.pc \in Provisions \cup {"enclaves", "imp"},
             store' = [store EXCEPT ![e] = rec]
      PROVE  Goal
  <2>1. e \in Enclave /\ store'[e] = rec /\ \A o \in Enclave : o # e => store'[o] = store[o]
    BY <1>1, <1>2
  <2> QED
    BY <1>2, <2>1
<1>3. ASSUME q.pc \in Provisions PROVE q.enc \in q.want /\ q.mem.status # "none"
  BY <1>3 DEF Scope, SerialInv, RequestOK, BookedEnclave, Provisions
<1>4. CASE \/ Start(r) \/ AbortRequest(r) \/ ListStore(r) \/ TeardownPartition(r)
           \/ TeardownEnclave(r) \/ BeginEnclaves(r) \/ ProvisionEnclave(r)
           \/ ProvisionPartition(r) \/ TerraformApply(r) \/ ProvisionExport(r)
           \/ BeginImports(r) \/ Finish(r)
  BY <1>4 DEF Start, LoadYaml, DestroyEnclave, DestroyPartition, AbortRequest,
     ListStore, TeardownPartition, TeardownEnclave, BeginEnclaves, ProvisionEnclave,
     ProvisionPartition, TerraformApply, ProvisionExport, BeginImports, Finish
<1>5. CASE \/ \E e \in Enclave : \/ RemoveEnclave(r, e) \/ SkipEnclave(r, e)
                                 \/ ReadImporter(r, e) \/ WireImport(r, e)
           \/ \E p \in Part : TerraformDestroy(r, p) \/ SkipPartition(r, p)
  BY <1>5 DEF RemoveEnclave, SkipEnclave, ReadImporter, WireImport, TerraformDestroy,
     SkipPartition
<1>6. CASE EnclaveError(r) \/ SaveEnclave(r) \/ SaveHandle(r)
  <2>1. q.pc \in Provisions
    BY <1>6 DEF EnclaveError, SaveEnclave, SaveHandle, Provisions
  <2>2. store' = store \/ store' = [store EXCEPT ![q.enc] = q.mem]
    BY <1>6, EnclaveErrorDoes, SaveEnclaveDoes, SaveHandleDoes
  <2> QED
    BY <1>2, <1>3, <2>1, <2>2
<1>7. CASE SaveImporter(r)
  <2>1. q.pc = "imp"
    BY <1>7 DEF SaveImporter
  <2>2. q.enc \in q.want /\ q.mem.status = store[q.enc].status /\ q.mem.status # "none"
    BY <2>1 DEF Scope
  <2>3. store' = [store EXCEPT ![q.enc] = IF q.changed THEN q.mem ELSE store[q.enc]]
    BY <1>7, SaveImporterDoes
  <2>4. (IF q.changed THEN q.mem ELSE store[q.enc]).status # "none"
    BY <2>2
  <2> QED
    BY <1>2, <2>1, <2>2, <2>3, <2>4
<1>8. ASSUME NEW e \in Enclave, EnclaveBegin(r, e) PROVE Goal
  <2>1. e \in q.todo /\ q.pc = "enclaves"
    BY <1>8 DEF EnclaveBegin, NextInOrder
  <2>2. e \in q.want
    BY <2>1 DEF Scope
  <2>3. run'[r].mem.status # "none" /\ store' = [store EXCEPT ![e] = run'[r].mem]
    BY <1>8, EnclaveBeginDoes
  <2> QED
    BY <1>2, <2>1, <2>2, <2>3
<1>9. ASSUME NEW p \in Part, PartitionBegin(r, p) PROVE Goal
  <2>1. q.pc \in Provisions
    BY <1>9 DEF PartitionBegin, Provisions
  <2>2. run'[r].mem.status = q.mem.status /\ store' = [store EXCEPT ![q.enc] = run'[r].mem]
    BY <1>9, PartitionBeginDoes
  <2> QED
    BY <1>2, <1>3, <2>1, <2>2
<1> QED
  BY <1>4, <1>5, <1>6, <1>7, <1>8, <1>9 DEF Proceed

\* delete_enclave and delete_partition leave no record without a status behind.
LEMMA AbsentStep ==
  ASSUME TypeOK, SerialInv, Absent, NEW r \in Request, Scope(run[r]),
         Start(r) \/ Proceed(r) \/ AbortRequest(r)
  PROVE  Absent'
<1>1. CASE store' = store
  BY <1>1 DEF Absent
<1>2. CASE Forget(r)
  <2> DEFINE e == run[r].enc
             p == run[r].part
             rec == SetPart(store[e], p, NoPart)
  <2>1. e \in Enclave /\ p \in Part /\ store \in [Enclave -> EncRec] /\ store[e] \in EncRec
    BY RunTyped DEF TypeOK
  <2>2. rec.status = store[e].status
    BY <2>1, DefaultsTyped, SetPartTyped
  <2>3. store[e] = NoRec => rec = NoRec
    <3>1. [NoRec.parts EXCEPT ![p] = NoPart] = NoRec.parts
      BY DEF NoRec
    <3>2. [NoRec EXCEPT !.parts = NoRec.parts] = NoRec
      BY DEF NoRec
    <3> QED
      BY <3>1, <3>2 DEF SetPart
  <2>4. store' = [store EXCEPT ![e] = rec] \/ store' = [store EXCEPT ![e] = NoRec]
    BY <1>2 DEF Forget
  <2> HIDE DEF rec
  <2> QED
    BY <2>1, <2>2, <2>3, <2>4 DEF Absent
<1>3. CASE \E e \in run[r].want :
             /\ store'[e].status # "none"
             /\ \A o \in Enclave : o # e => store'[o] = store[o]
  BY <1>3 DEF Absent
<1> QED
  BY <1>1, <1>2, <1>3, StoresWanted

\* Once an apply provisions, it goes on to its report.
LEMMA LoopGoesOn ==
  ASSUME TypeOK, NEW r \in Request, Proceed(r),
         run[r].pc \in Provisions \cup {"enclaves", "imports", "imp"}
  PROVE  run'[r].pc \in Provisions \cup {"enclaves", "imports", "imp", "idle"}
<1> DEFINE Goal == run'[r].pc \in Provisions \cup {"enclaves", "imports", "imp", "idle"}
<1>1. CASE \/ ListStore(r) \/ TeardownPartition(r) \/ TeardownEnclave(r) \/ Forget(r)
           \/ BeginEnclaves(r)
  BY <1>1 DEF ListStore, TeardownPartition, TeardownEnclave, Forget, BeginEnclaves,
     Provisions
<1>2. CASE \/ \E e \in Enclave : RemoveEnclave(r, e)
           \/ \E p \in Part : TerraformDestroy(r, p)
  BY <1>2 DEF RemoveEnclave, TerraformDestroy, Provisions
<1>3. CASE ProvisionEnclave(r) \/ EnclaveError(r) \/ ProvisionPartition(r) \/ SaveHandle(r)
  <2>1. run'[r].pc \in {"parts", "enc_err", "enclaves", "sa_save", "tf"}
    BY <1>3, ProvisionEnclaveDoes, EnclaveErrorDoes, ProvisionPartitionDoes, SaveHandleDoes
  <2> QED
    BY <2>1 DEF Provisions
<1>4. CASE TerraformApply(r) \/ ProvisionExport(r) \/ SaveEnclave(r) \/ BeginImports(r)
           \/ SaveImporter(r)
  <2>1. run'[r].pc \in {"parts", "save", "enclaves", "imports"}
    BY <1>4, TerraformApplyDoes, ProvisionExportDoes, SaveEnclaveDoes, BeginImportsDoes,
       SaveImporterDoes
  <2> QED
    BY <2>1 DEF Provisions
<1>5. CASE Finish(r)
  BY <1>5, Becomes, DefaultsTyped DEF Finish
<1>6. ASSUME NEW e \in Enclave,
             \/ SkipEnclave(r, e) \/ EnclaveBegin(r, e)
             \/ ReadImporter(r, e) \/ WireImport(r, e)
      PROVE  Goal
  <2>1. run'[r].pc \in {"enclaves", "enc", "imp", "imports"}
    BY <1>6, SkipEnclaveDoes, EnclaveBeginDoes, ReadImporterDoes, WireImportDoes
  <2> QED
    BY <2>1 DEF Provisions
<1>7. ASSUME NEW p \in Part, SkipPartition(r, p) \/ PartitionBegin(r, p) PROVE Goal
  BY <1>7, SkipPartitionDoes, PartitionBeginDoes DEF Provisions
<1> QED
  BY <1>1, <1>2, <1>3, <1>4, <1>5, <1>6, <1>7 DEF Proceed

\* Step 6 of reconcile() forgets every record that is not wanted, and nothing
\* after it brings one back.
LEMMA UnwantedStep ==
  ASSUME TypeOK, SerialInv, Absent, NEW r \in Request, Scope(run[r]), Unwanted(run[r]),
         Start(r) \/ Proceed(r) \/ AbortRequest(r)
  PROVE  Unwanted(run[r])'
<1> DEFINE q == run[r]
<1>1. q.enc \in Enclave /\ store \in [Enclave -> EncRec]
  BY RunTyped DEF TypeOK
<1>2. CASE Start(r)
  <2>1. run'[r].pc = "list" \/ (run'[r].op # "apply" /\ run'[r].pc \in {"td", "forget"})
    BY <1>2, LoadYamlDoes, DestroyEnclaveDoes, DestroyPartitionDoes DEF Start
  <2> QED
    BY <2>1 DEF Unwanted, Provisions
<1>3. CASE AbortRequest(r)
  BY <1>3, Becomes, DefaultsTyped DEF AbortRequest, Unwanted, Provisions
<1>4. CASE ListStore(r)
  BY <1>4, ListStoreDoes DEF ListStore, Unwanted, Absent, Provisions
<1>5. ASSUME NEW e \in Enclave, RemoveEnclave(r, e) PROVE Unwanted(run[r])'
  <2>1. /\ q.pc = "remove" /\ store' = store /\ run'[r].want = q.want
        /\ run'[r].op = q.op /\ run'[r].enc = e /\ run'[r].todo = q.todo \ {e}
        /\ run'[r].pc \in {"td", "forget"}
    BY <1>5, RemoveEnclaveDoes DEF RemoveEnclave, SameCall
  <2> QED
    BY <2>1 DEF Unwanted, Provisions
<1>6. CASE TeardownPartition(r) \/ \E p \in Part : TerraformDestroy(r, p)
  <2>1. /\ q.pc \in {"td", "td_sa"} /\ store' = store
    BY <1>6 DEF TeardownPartition, TerraformDestroy
  <2>2. /\ run'[r].want = q.want /\ run'[r].op = q.op /\ run'[r].enc = q.enc
        /\ run'[r].todo = q.todo /\ run'[r].pc \in {"td", "td_sa"}
    BY <1>6, TeardownPartitionDoes, TerraformDestroyDoes DEF SameCall, SameAim
  <2> QED
    BY <2>1, <2>2 DEF Unwanted, Provisions
<1>7. CASE TeardownEnclave(r)
  <2>1. CASE run'[r].pc = "idle"
    BY <2>1 DEF Unwanted, Provisions
  <2>2. CASE run'[r].pc # "idle"
    <3>1. /\ q.pc = "td" /\ store' = store /\ run'[r].want = q.want
          /\ run'[r].op = q.op /\ run'[r].enc = q.enc /\ run'[r].todo = q.todo
          /\ run'[r].pc = "forget"
      BY <1>7, <2>2, TeardownEnclaveDoes DEF TeardownEnclave, SameCall, SameAim
    <3> QED
      BY <3>1 DEF Unwanted, Provisions
  <2> QED
    BY <2>1, <2>2
<1>8. CASE Forget(r)
  <2>1. CASE q.op # "apply"
    BY <1>8, <2>1, ForgetDoes DEF Unwanted, Provisions
  <2>2. CASE q.op = "apply"
    <3>1. /\ q.pc = "forget" /\ store' = [store EXCEPT ![q.enc] = NoRec]
          /\ run'[r].want = q.want /\ run'[r].op = q.op /\ run'[r].todo = q.todo
          /\ run'[r].pc = "remove"
      BY <1>8, <2>2, ForgetDoes DEF Forget, SameCall
    <3> QED
      BY <1>1, <2>2, <3>1 DEF Unwanted, Provisions
  <2> QED
    BY <2>1, <2>2
<1>9. CASE BeginEnclaves(r)
  <2>1. /\ q.pc = "remove" /\ q.op = "apply" /\ q.todo = {} /\ store' = store
        /\ run'[r].want = q.want /\ run'[r].pc = "enclaves"
    BY <1>9, BeginEnclavesDoes
       DEF BeginEnclaves, SameCall, SerialInv, RequestOK, FreshSnapshot
  <2> QED
    BY <2>1 DEF Unwanted
<1>10. CASE Proceed(r) /\ q.pc \in Provisions \cup {"enclaves", "imports", "imp"}
  <2>1. CASE run'[r].pc = "idle"
    BY <2>1 DEF Unwanted, Provisions
  <2>2. CASE run'[r].pc # "idle"
    <3>1. run'[r].pc \in Provisions \cup {"enclaves", "imports", "imp"} /\ run'[r].want = q.want
      BY <1>10, <2>2, LoopGoesOn, ProceedKeeps
    <3>2. ~ Forget(r)
      BY <1>10 DEF Forget, Provisions
    <3>3. \A e \in Enclave \ q.want : store'[e] = store[e]
      BY <1>10, <3>2, StoresWanted
    <3>4. \A e \in Enclave \ q.want : store[e] = NoRec
      BY <1>10 DEF Unwanted
    <3> QED
      BY <3>1, <3>3, <3>4 DEF Unwanted, Provisions
  <2> QED
    BY <2>1, <2>2
<1>11. ASSUME Proceed(r), q.pc \notin Provisions \cup {"enclaves", "imports", "imp"}
       PROVE  Unwanted(run[r])'
  <2>1. ASSUME NEW e \in Enclave,
               \/ SkipEnclave(r, e) \/ EnclaveBegin(r, e)
               \/ ReadImporter(r, e) \/ WireImport(r, e)
        PROVE  FALSE
    BY <1>11, <2>1 DEF SkipEnclave, EnclaveBegin, ReadImporter, WireImport, Provisions
  <2>2. ASSUME NEW p \in Part, SkipPartition(r, p) \/ PartitionBegin(r, p) PROVE FALSE
    BY <1>11, <2>2 DEF SkipPartition, PartitionBegin, Provisions
  <2>3. ~ (\/ ProvisionEnclave(r) \/ EnclaveError(r) \/ ProvisionPartition(r)
           \/ SaveHandle(r) \/ TerraformApply(r) \/ ProvisionExport(r) \/ SaveEnclave(r)
           \/ BeginImports(r) \/ SaveImporter(r) \/ Finish(r))
    BY <1>11 DEF ProvisionEnclave, EnclaveError, ProvisionPartition, SaveHandle,
       TerraformApply, ProvisionExport, SaveEnclave, BeginImports, SaveImporter, Finish,
       Provisions
  <2> QED
    BY <1>4, <1>5, <1>6, <1>7, <1>8, <1>9, <1>11, <2>1, <2>2, <2>3 DEF Proceed
<1> QED
  BY <1>2, <1>3, <1>10, <1>11

\* The YAML an apply loaded is closed under imports, and stays what it was.
LEMMA ScopeOutside ==
  ASSUME TypeOK, NEW r \in Request,
         run'[r].pc \notin Provisions \cup {"enclaves", "imports", "imp"},
         run'[r].op = "apply" /\ run'[r].pc # "idle" =>
           \A i \in Imports : i[1] \in run'[r].want => i[2] \in run'[r].want
  PROVE  Scope(run[r])'
  BY DEF Scope, Provisions, OnPartition

\* An apply works on what it loaded.
LEMMA ScopeStep ==
  ASSUME TypeOK, SerialInv, NEW r \in Request, Scope(run[r]),
         Start(r) \/ Proceed(r) \/ AbortRequest(r)
  PROVE  Scope(run[r])'
<1> DEFINE q == run[r]
           Loop == Provisions \cup {"enclaves", "imports", "imp"}
<1>1. drivers' = drivers
  BY RequestsKeep
<1>2. CASE Start(r)
  <2>1. run'[r].pc \in {"list", "td", "forget"}
    BY <1>2, LoadYamlDoes, DestroyEnclaveDoes, DestroyPartitionDoes DEF Start
  <2>2. run'[r].op = "apply" => GraphValid /\ run'[r].want = listed
    BY <1>2, LoadYamlDoes, DestroyEnclaveDoes, DestroyPartitionDoes DEF Start, LoadYaml
  <2>3. run'[r].pc \notin Loop
    BY <2>1 DEF Provisions
  <2> QED
    BY <2>2, <2>3, ScopeOutside DEF GraphValid
<1>3. CASE AbortRequest(r) \/ Finish(r)
  <2>1. run'[r].pc = "idle"
    BY <1>3, Becomes, DefaultsTyped DEF AbortRequest, Finish
  <2> QED
    BY <2>1, ScopeOutside DEF Provisions
<1>4. ASSUME Proceed(r), run'[r].pc # "idle"
      PROVE  /\ run'[r].op = q.op /\ run'[r].want = q.want /\ run'[r].conf = q.conf
             /\ q.op = "apply" => \A i \in Imports : i[1] \in q.want => i[2] \in q.want
             /\ q.pc \in Loop => q.op = "apply" /\ q.todo \subseteq q.want
             /\ q.errs => run'[r].errs
  BY <1>4, ProceedKeeps, ProceedBusy DEF Scope
<1>5. CASE /\ Proceed(r)
           /\ \/ ListStore(r) \/ TeardownPartition(r) \/ TeardownEnclave(r) \/ Forget(r)
              \/ \E e \in Enclave : RemoveEnclave(r, e)
              \/ \E p \in Part : TerraformDestroy(r, p)
  <2>1. run'[r].pc \in {"idle", "remove", "td", "td_sa", "forget"}
    BY <1>5, ListStoreDoes, TeardownPartitionDoes, TeardownEnclaveDoes, ForgetDoes,
       RemoveEnclaveDoes, TerraformDestroyDoes
  <2>2. run'[r].pc \notin Loop
    BY <2>1 DEF Provisions
  <2> QED
    BY <1>4, <1>5, <2>2, ScopeOutside
<1>6. CASE Proceed(r) /\ BeginEnclaves(r)
  <2>1. /\ q.op = "apply" /\ run'[r].pc = "enclaves" /\ run'[r].todo = run'[r].want
    BY <1>6, BeginEnclavesDoes DEF BeginEnclaves, SameCall, SerialInv, RequestOK, FreshSnapshot
  <2> QED
    BY <1>4, <1>6, <2>1 DEF Scope, Provisions, OnPartition
<1>7. ASSUME NEW e \in Enclave, Proceed(r), SkipEnclave(r, e) PROVE Scope(run[r])'
  <2>1. q.pc = "enclaves" /\ run'[r].pc = "enclaves" /\ run'[r].todo = q.todo \ {e}
    BY <1>7, SkipEnclaveDoes DEF SkipEnclave
  <2> QED
    BY <1>4, <1>7, <2>1 DEF Scope, Provisions, OnPartition
<1>8. ASSUME NEW e \in Enclave, Proceed(r), EnclaveBegin(r, e) PROVE Scope(run[r])'
  <2>1. /\ q.pc = "enclaves" /\ e \in q.todo /\ e \in drivers
        /\ run'[r].pc = "enc" /\ run'[r].enc = e /\ run'[r].todo = q.todo \ {e}
    BY <1>8, EnclaveBeginDoes DEF EnclaveBegin, NextInOrder
  <2> QED
    BY <1>1, <1>4, <1>8, <2>1 DEF Scope, Provisions, OnPartition
<1>9. CASE Proceed(r) /\ ProvisionEnclave(r)
  <2>1. /\ q.pc = "enc" /\ run'[r].todo = q.todo /\ run'[r].enc = q.enc
        /\ \/ run'[r].pc = "parts" /\ run'[r].pend = Declared(q.conf, q.enc)
           \/ run'[r].pc = "enc_err" /\ run'[r].errs
    BY <1>9, ProvisionEnclaveDoes DEF ProvisionEnclave, SameAim
  <2>2. q.enc \in q.want /\ q.enc \in drivers /\ q.pc \in Loop
    BY <2>1 DEF Scope, Provisions
  <2> QED
    BY <1>1, <1>4, <1>9, <2>1, <2>2 DEF Scope, Provisions, OnPartition
<1>10. CASE Proceed(r) /\ (EnclaveError(r) \/ SaveEnclave(r) \/ SaveImporter(r))
  <2>1. /\ q.pc \in {"enc_err", "save", "imp"} /\ run'[r].pc \in {"enclaves", "imports"}
        /\ run'[r].todo = q.todo
    BY <1>10, EnclaveErrorDoes, SaveEnclaveDoes, SaveImporterDoes
       DEF EnclaveError, SaveEnclave, SaveImporter
  <2> QED
    BY <1>4, <1>10, <2>1 DEF Scope, Provisions, OnPartition
<1>11. ASSUME Proceed(r), q.pc \in OnPartition \cup {"parts"},
              run'[r].pc \in OnPartition \cup {"parts"} \/
                (run'[r].pc = "save" /\ run'[r].pend = {}),
              run'[r].enc = q.enc, run'[r].todo = q.todo, run'[r].pend \subseteq q.pend
       PROVE  Scope(run[r])'
  <2>1. /\ q.enc \in q.want /\ q.enc \in drivers /\ q.pc \in Loop
        /\ q.pend \subseteq Declared(q.conf, q.enc)
    BY <1>11 DEF Scope, Provisions, OnPartition
  <2>2. run'[r].pc # "idle"
    BY <1>11 DEF OnPartition
  <2> QED
    BY <1>1, <1>4, <1>11, <2>1, <2>2 DEF Scope, Provisions, OnPartition
<1>12. CASE Proceed(r) /\ \/ ProvisionPartition(r) \/ SaveHandle(r) \/ TerraformApply(r)
                          \/ ProvisionExport(r)
  <2>1. /\ q.pc \in {"sa", "sa_save", "tf", "parts"}
        /\ run'[r].enc = q.enc /\ run'[r].todo = q.todo /\ run'[r].pend = q.pend
        /\ \/ run'[r].pc \in {"sa_save", "parts", "tf"}
           \/ run'[r].pc = "save" /\ run'[r].pend = {}
    <3>1. CASE ProvisionPartition(r) \/ SaveHandle(r)
      BY <3>1, ProvisionPartitionDoes, SaveHandleDoes
         DEF ProvisionPartition, SaveHandle, SameAim
    <3>2. CASE TerraformApply(r) \/ ProvisionExport(r)
      BY <3>2, TerraformApplyDoes, ProvisionExportDoes
         DEF TerraformApply, ProvisionExport, SameAim
    <3> QED
      BY <1>12, <3>1, <3>2
  <2> QED
    BY <1>11, <1>12, <2>1 DEF OnPartition
<1>13. ASSUME NEW p \in Part, Proceed(r), SkipPartition(r, p) \/ PartitionBegin(r, p)
       PROVE  Scope(run[r])'
  <2>1. /\ q.pc = "parts" /\ run'[r].pc \in {"parts", "sa"}
        /\ run'[r].enc = q.enc /\ run'[r].todo = q.todo /\ run'[r].pend = q.pend \ {p}
    BY <1>13, SkipPartitionDoes, PartitionBeginDoes
       DEF SkipPartition, PartitionBegin, SameAim
  <2> QED
    BY <1>11, <1>13, <2>1 DEF OnPartition
<1>14. CASE Proceed(r) /\ BeginImports(r)
  <2>1. q.pc = "enclaves" /\ run'[r].pc = "imports" /\ run'[r].todo = q.want
    BY <1>14, BeginImportsDoes DEF BeginImports
  <2> QED
    BY <1>4, <1>14, <2>1 DEF Scope, Provisions, OnPartition
<1>15. ASSUME NEW e \in Enclave, Proceed(r), ReadImporter(r, e) PROVE Scope(run[r])'
  <2>1. /\ q.pc = "imports" /\ e \in q.todo /\ run'[r].todo = q.todo \ {e}
        /\ store' = store
        /\ \/ /\ run'[r].pc = "imp" /\ run'[r].enc = e /\ run'[r].mem = store[e]
              /\ e \in drivers /\ store[e].status # "none"
           \/ run'[r].pc = "imports"
    BY <1>15, ReadImporterDoes DEF ReadImporter
  <2> QED
    BY <1>1, <1>4, <1>15, <2>1 DEF Scope, Provisions, OnPartition
<1>16. ASSUME NEW x \in Enclave, Proceed(r), WireImport(r, x) PROVE Scope(run[r])'
  <2>1. /\ q.pc = "imp" /\ run'[r].todo = q.todo /\ store' = store
        /\ run'[r].pc = "imp" /\ run'[r].enc = q.enc
        /\ run'[r].mem.status = q.mem.status /\ run'[r].mem.export = q.mem.export
        /\ run'[r].changed \/ (run'[r].mem = q.mem /\ run'[r].changed = q.changed)
    BY <1>16, WireImportDoes DEF WireImport, SameAim
  <2>2. /\ q.enc \in q.want /\ q.enc \in drivers
        /\ q.mem.status = store[q.enc].status /\ q.mem.status # "none"
        /\ q.mem.export = store[q.enc].export
        /\ q.changed \/ q.mem.imports = store[q.enc].imports
    BY <2>1 DEF Scope
  <2> QED
    BY <1>1, <1>4, <1>16, <2>1, <2>2 DEF Scope, Provisions, OnPartition
<1>17. CASE Proceed(r)
  BY <1>3, <1>5, <1>6, <1>7, <1>8, <1>9, <1>10, <1>12, <1>13, <1>14, <1>15, <1>16, <1>17
     DEF Proceed
<1> QED
  BY <1>2, <1>3, <1>17

\* An enclave whose record is left alone is done as before.
LEMMA DoneKept ==
  ASSUME NEW r \in Request, NEW e \in Enclave, Done(run[r], e),
         run'[r].conf = run[r].conf, drivers' = drivers, store'[e] = store[e]
  PROVE  Done(run[r], e)'
  BY DEF Done, Declared

\* The steps on an enclave touch no other record: what was done before it still is.
LEMMA EarlierDone ==
  ASSUME TypeOK, NEW r \in Request, Proceed(r), Converging(run[r]), ~ run[r].errs,
         run[r].pc \in Provisions, run'[r].pc # "idle",
         run'[r].todo = run[r].todo, run'[r].enc = run[r].enc,
         \A o \in Enclave : o # run[r].enc => store'[o] = store[o]
  PROVE  \A e \in run'[r].want \ run'[r].todo : Done(run[r], e)' \/ e = run'[r].enc
<1>1. drivers' = drivers /\ run'[r].conf = run[r].conf /\ run'[r].want = run[r].want
  BY RequestsKeep, ProceedKeeps
<1>2. \A e \in run[r].want \ run[r].todo : Done(run[r], e) \/ e = run[r].enc
  BY DEF Converging
<1>3. run[r].want \subseteq Enclave
  BY RunTyped
<1> QED
  BY <1>1, <1>2, <1>3, DoneKept

\* Outside the loops there is nothing to say; nor is there after an error.
LEMMA ConvergingElsewhere ==
  ASSUME NEW r \in Request,
         \/ run'[r].errs
         \/ run'[r].pc \notin Provisions \cup {"enclaves", "imports", "imp"}
  PROVE  Converging(run[r])'
  BY DEF Converging, Provisions, OnPartition

\* Provisioning the enclaves, but for their partitions.
LEMMA ConvergingEnclaves ==
  ASSUME TypeOK, SerialInv, NEW r \in Request, Proceed(r),
         Scope(run[r]), Converging(run[r]),
         \/ BeginEnclaves(r) \/ \E e \in Enclave : SkipEnclave(r, e) \/ EnclaveBegin(r, e)
         \/ ProvisionEnclave(r) \/ EnclaveError(r) \/ SaveEnclave(r)
  PROVE  Converging(run[r])'
<1> DEFINE q == run[r]
           n == run'[r]
<1> SUFFICES ASSUME ~ n.errs, n.pc # "idle" PROVE Converging(run[r])'
  BY ConvergingElsewhere DEF Provisions
<1>1. /\ drivers' = drivers /\ n.conf = q.conf /\ n.want = q.want /\ ~ q.errs
  BY RequestsKeep, ProceedKeeps
<1>2. /\ q.want \subseteq Enclave /\ q.enc \in Enclave /\ store \in [Enclave -> EncRec]
  BY RunTyped DEF TypeOK
<1>3. CASE BeginEnclaves(r)
  <2>1. n.pc = "enclaves" /\ n.todo = q.want
    BY <1>3, BeginEnclavesDoes
  <2> QED
    BY <1>1, <2>1 DEF Converging, Provisions, OnPartition
<1>4. CASE \E e \in Enclave : SkipEnclave(r, e)
  BY <1>4, SkipEnclaveDoes
<1>5. ASSUME NEW e \in Enclave, EnclaveBegin(r, e) PROVE Converging(run[r])'
  <2>1. /\ q.pc = "enclaves" /\ n.pc = "enc" /\ n.enc = e /\ n.todo = q.todo \ {e}
        /\ store' = [store EXCEPT ![e] = n.mem]
    BY <1>5, EnclaveBeginDoes DEF EnclaveBegin
  <2>2. \A x \in q.want \ q.todo : Done(q, x)
    BY <1>1, <2>1 DEF Converging
  <2>3. \A x \in n.want \ n.todo : Done(run[r], x)' \/ x = n.enc
    BY <1>1, <1>2, <2>1, <2>2, DoneKept
  <2> QED
    BY <2>1, <2>3 DEF Converging, OnPartition
<1>6. CASE ProvisionEnclave(r)
  <2>1. /\ q.pc = "enc" /\ n.pc = "parts" /\ n.enc = q.enc /\ n.todo = q.todo
        /\ n.pend = Declared(q.conf, q.enc) /\ n.mem.status = "active" /\ store' = store
    BY <1>6, ProvisionEnclaveDoes DEF ProvisionEnclave, SameAim
  <2>2. \A e \in n.want \ n.todo : Done(run[r], e)' \/ e = n.enc
    BY <1>1, <2>1, EarlierDone DEF Provisions
  <2> QED
    BY <1>1, <2>1, <2>2 DEF Converging, OnPartition
<1>7. CASE EnclaveError(r)
  BY <1>1, <1>7 DEF EnclaveError, Scope
<1>8. CASE SaveEnclave(r)
  <2>1. /\ q.pc = "save" /\ n.pc = "enclaves" /\ n.todo = q.todo
        /\ store' = [store EXCEPT ![q.enc] = q.mem]
    BY <1>8, SaveEnclaveDoes DEF SaveEnclave
  <2>2. q.enc \in drivers /\ q.pend = {}
    BY <2>1 DEF Scope, Provisions
  <2>3. /\ q.mem.status = "active"
        /\ \A p \in Declared(q.conf, q.enc) : /\ q.mem.parts[p].status = "active"
                                              /\ q.mem.parts[p].hash = q.conf[q.enc][p]
        /\ q.enc \in Exporters => q.mem.export # NoHandle
        /\ \A x \in q.want \ q.todo : Done(q, x) \/ x = q.enc
    BY <1>1, <2>1, <2>2 DEF Converging, Provisions, OnPartition
  <2>4. store'[q.enc] = q.mem /\ \A o \in Enclave : o # q.enc => store'[o] = store[o]
    BY <1>2, <2>1
  <2>5. ASSUME NEW x \in Enclave, x = q.enc PROVE Done(run[r], x)'
    BY <1>1, <2>2, <2>3, <2>4, <2>5 DEF Done, Declared
  <2>6. \A x \in n.want \ n.todo : Done(run[r], x)'
    BY <1>1, <1>2, <2>1, <2>3, <2>4, <2>5, DoneKept
  <2> QED
    BY <2>1, <2>6 DEF Converging, OnPartition
<1> QED
  BY <1>3, <1>4, <1>5, <1>6, <1>7, <1>8

\* The partitions of an enclave: one that is passed over is Active at the version
\* of the YAML, because its hash is, and the others are applied.
LEMMA ConvergingPartitions ==
  ASSUME TypeOK, SerialInv, NEW r \in Request, Proceed(r), CopyFollows(run[r]),
         CallBehind(run[r]), Scope(run[r]), Converging(run[r]),
         \/ \E p \in Part : SkipPartition(r, p) \/ PartitionBegin(r, p)
         \/ ProvisionPartition(r) \/ SaveHandle(r) \/ TerraformApply(r)
         \/ ProvisionExport(r)
  PROVE  Converging(run[r])'
<1> DEFINE q == run[r]
           n == run'[r]
           Fit(m, p) == m.parts[p].status = "active" /\ m.parts[p].hash = q.conf[q.enc][p]
<1> SUFFICES ASSUME ~ n.errs, n.pc # "idle" PROVE Converging(run[r])'
  BY ConvergingElsewhere DEF Provisions
<1>1. /\ drivers' = drivers /\ n.conf = q.conf /\ n.want = q.want /\ ~ q.errs
  BY RequestsKeep, ProceedKeeps
<1>2. q.enc \in Enclave /\ store \in [Enclave -> EncRec]
  BY RunTyped DEF TypeOK
<1>3. ASSUME q.pc \in OnPartition \cup {"parts"}
      PROVE  /\ q.pc \in Provisions
             /\ q.mem.status = "active"
             /\ \A p \in Declared(q.conf, q.enc) :
                  p \in q.pend \/ (q.pc \in OnPartition /\ p = q.part) \/ Fit(q.mem, p)
  BY <1>1, <1>3 DEF Converging, Provisions, OnPartition
<1>4. ASSUME q.pc \in OnPartition \cup {"parts"},
             n.pc \in OnPartition \cup {"parts", "save"},
             n.todo = q.todo, n.enc = q.enc, n.mem.status = q.mem.status,
             \A o \in Enclave : o # q.enc => store'[o] = store[o],
             \A p \in Declared(q.conf, q.enc) :
               p \in n.pend \/ (n.pc \in OnPartition /\ p = n.part) \/ Fit(n.mem, p),
             n.pc = "save" /\ q.enc \in Exporters => n.mem.export # NoHandle
      PROVE  Converging(run[r])'
  <2>1. \A e \in n.want \ n.todo : Done(run[r], e)' \/ e = n.enc
    BY <1>1, <1>3, <1>4, EarlierDone
  <2>2. n.pc \notin {"enclaves", "imports", "imp"} /\ n.mem.status = "active"
    BY <1>3, <1>4 DEF OnPartition
  <2> QED
    BY <1>1, <1>4, <2>1, <2>2 DEF Converging
<1>5. ASSUME NEW p \in Part, SkipPartition(r, p) PROVE Converging(run[r])'
  <2>1. /\ q.pc = "parts" /\ p \in q.pend /\ q.mem.parts[p].hash = q.conf[q.enc][p]
        /\ n.pc = "parts" /\ n.enc = q.enc /\ n.part = q.part /\ n.todo = q.todo
        /\ n.mem = q.mem /\ n.pend = q.pend \ {p} /\ store' = store
    BY <1>5, SkipPartitionDoes DEF SkipPartition, HashUnchanged, SameAim
  <2>2. SameBook(q.mem.parts[p], store[q.enc].parts[p])
    BY <2>1 DEF CopyFollows, Provisions
  <2>3. q.op = "apply" /\ q.conf[q.enc][p] # 0
    BY <2>1 DEF Scope, Declared, Provisions, OnPartition
  <2>4. UpTo(store[q.enc].parts[p], q.conf[q.enc][p])
    BY <1>2, <2>1, <2>3 DEF CallBehind
  <2>5. Fit(q.mem, p)
    <3>1. q.conf[q.enc][p] \in Nat
      <4>1. q.conf[q.enc][p] \in Version
        BY RunTyped
      <4> QED
        BY <4>1, ConstantsAssumption DEF Version
    <3> QED
      BY <2>1, <2>2, <2>3, <2>4, <3>1 DEF UpTo, SameBook
  <2> QED
    BY <1>3, <1>4, <2>1, <2>5 DEF OnPartition
<1>6. ASSUME NEW p \in Part, PartitionBegin(r, p) PROVE Converging(run[r])'
  <2>1. /\ q.pc = "parts" /\ n.pc = "sa" /\ n.enc = q.enc /\ n.part = p /\ n.todo = q.todo
        /\ n.pend = q.pend \ {p} /\ n.mem.status = q.mem.status
        /\ \A o \in Part : o # p => n.mem.parts[o] = q.mem.parts[o]
        /\ store' = [store EXCEPT ![q.enc] = n.mem]
    BY <1>6, PartitionBeginDoes DEF PartitionBegin
  <2>2. \A o \in Enclave : o # q.enc => store'[o] = store[o]
    BY <1>2, <2>1
  <2>3. Declared(q.conf, q.enc) \subseteq Part
    BY DEF Declared
  <2> QED
    BY <1>3, <1>4, <2>1, <2>2, <2>3 DEF OnPartition
<1>7. CASE ProvisionPartition(r)
  <2>1. /\ q.pc = "sa" /\ n.pc = "sa_save" /\ n.enc = q.enc /\ n.part = q.part
        /\ n.todo = q.todo /\ n.pend = q.pend /\ n.mem.status = q.mem.status
        /\ \A p \in Part : p # q.part => n.mem.parts[p] = q.mem.parts[p]
        /\ store' = store
    BY <1>7, ProvisionPartitionDoes DEF ProvisionPartition, SameAim, OtherParts
  <2>2. Declared(q.conf, q.enc) \subseteq Part
    BY DEF Declared
  <2> QED
    BY <1>3, <1>4, <2>1, <2>2 DEF OnPartition
<1>8. CASE SaveHandle(r)
  <2>1. /\ q.pc = "sa_save" /\ n.pc = "tf" /\ n.enc = q.enc /\ n.part = q.part
        /\ n.todo = q.todo /\ n.pend = q.pend /\ n.mem = q.mem
        /\ store' = store \/ store' = [store EXCEPT ![q.enc] = q.mem]
    BY <1>8, SaveHandleDoes DEF SaveHandle, SameAim
  <2>2. \A o \in Enclave : o # q.enc => store'[o] = store[o]
    BY <1>2, <2>1
  <2> QED
    BY <1>3, <1>4, <2>1, <2>2 DEF OnPartition
<1>9. CASE TerraformApply(r)
  <2>1. /\ q.pc = "tf" /\ n.pc = "parts" /\ n.enc = q.enc /\ n.part = q.part
        /\ n.todo = q.todo /\ n.pend = q.pend /\ n.mem.status = q.mem.status
        /\ \A p \in Part : p # q.part => n.mem.parts[p] = q.mem.parts[p]
        /\ Fit(n.mem, q.part)
        /\ store' = store
    BY <1>9, TerraformApplyDoes DEF TerraformApply, SameAim, OtherParts
  <2>2. Declared(q.conf, q.enc) \subseteq Part
    BY DEF Declared
  <2> QED
    BY <1>3, <1>4, <2>1, <2>2 DEF OnPartition
<1>10. CASE ProvisionExport(r)
  <2>1. /\ q.pc = "parts" /\ n.pc = "save" /\ n.enc = q.enc /\ n.todo = q.todo
        /\ q.pend = {} /\ n.mem.parts = q.mem.parts /\ n.mem.status = q.mem.status
        /\ q.enc \in Exporters => n.mem.export # NoHandle
        /\ store' = store
    BY <1>10, ProvisionExportDoes DEF ProvisionExport, SameAim
  <2> QED
    BY <1>3, <1>4, <2>1 DEF OnPartition
<1> QED
  BY <1>5, <1>6, <1>7, <1>8, <1>9, <1>10

\* The imports: a wanted importer has a driver and a record, and each exporter has
\* an export, because it is wanted as well and done.
LEMMA ConvergingImports ==
  ASSUME TypeOK, SerialInv, NEW r \in Request, Proceed(r),
         Scope(run[r]), Converging(run[r]),
         \/ BeginImports(r) \/ SaveImporter(r)
         \/ \E e \in Enclave : ReadImporter(r, e) \/ WireImport(r, e)
  PROVE  Converging(run[r])'
<1> DEFINE q == run[r]
           n == run'[r]
           Wired(e) == \A x \in ImportsFrom(e) : store[e].imports[x] # NoHandle
           Wired2(e) == \A x \in ImportsFrom(e) : store'[e].imports[x] # NoHandle
<1> SUFFICES ASSUME ~ n.errs, n.pc # "idle" PROVE Converging(run[r])'
  BY ConvergingElsewhere DEF Provisions
<1>1. /\ drivers' = drivers /\ n.conf = q.conf /\ n.want = q.want /\ ~ q.errs
  BY RequestsKeep, ProceedKeeps
<1>2. /\ q.want \subseteq Enclave /\ q.enc \in Enclave /\ store \in [Enclave -> EncRec]
  BY RunTyped DEF TypeOK
<1>3. ASSUME q.pc \in {"imports", "imp"}
      PROVE  \A e \in q.want :
               Done(q, e) /\ (e \in q.todo \/ (q.pc = "imp" /\ e = q.enc) \/ Wired(e))
  BY <1>1, <1>3 DEF Converging
<1>4. ASSUME n.pc \in {"imports", "imp"},
             \A e \in q.want :
               Done(run[r], e)' /\ (e \in n.todo \/ (n.pc = "imp" /\ e = n.enc) \/ Wired2(e)),
             n.pc = "imp" =>
               \A x \in ImportsFrom(n.enc) : x \in n.wire \/ n.mem.imports[x] # NoHandle
      PROVE  Converging(run[r])'
  BY <1>1, <1>4 DEF Converging, Provisions, OnPartition
<1>5. ASSUME store' = store, \A e \in q.want : Done(q, e)
      PROVE  \A e \in q.want : Done(run[r], e)'
  BY <1>1, <1>2, <1>5, DoneKept
<1>6. CASE BeginImports(r)
  <2>1. /\ q.pc = "enclaves" /\ q.todo = {} /\ n.pc = "imports" /\ n.todo = q.want
        /\ store' = store
    BY <1>6, BeginImportsDoes DEF BeginImports
  <2>2. \A e \in q.want : Done(q, e)
    BY <1>1, <2>1 DEF Converging
  <2> QED
    BY <1>4, <1>5, <2>1, <2>2
<1>7. ASSUME NEW e \in Enclave, ReadImporter(r, e) PROVE Converging(run[r])'
  <2>1. /\ q.pc = "imports" /\ e \in q.todo /\ n.todo = q.todo \ {e} /\ store' = store
    BY <1>7, ReadImporterDoes DEF ReadImporter
  <2>2. e \in q.want /\ \A x \in q.want : Done(run[r], x)'
    BY <1>3, <1>5, <2>1 DEF Scope
  <2>3. e \in drivers /\ store[e].status # "none"
    BY <1>3, <2>1, <2>2 DEF Done
  <2>4. n.pc = "imp" /\ n.enc = e /\ n.wire = ImportsFrom(e)
    BY <1>7, <2>3, ReadImporterDoes
  <2> QED
    BY <1>3, <1>4, <2>1, <2>2, <2>4
<1>8. ASSUME NEW x \in Enclave, WireImport(r, x) PROVE Converging(run[r])'
  <2>1. /\ q.pc = "imp" /\ n.pc = "imp" /\ n.enc = q.enc /\ n.todo = q.todo
        /\ n.wire = q.wire \ {x} /\ store' = store
        /\ \A y \in Enclave : q.mem.imports[y] # NoHandle => n.mem.imports[y] # NoHandle
        /\ n.mem.imports[x] # NoHandle \/ store[x].export = NoHandle
    BY <1>8, WireImportDoes DEF WireImport, SameAim
  <2>2. x \in ImportsFrom(q.enc) => n.mem.imports[x] # NoHandle
    <3>1. SUFFICES ASSUME x \in ImportsFrom(q.enc) PROVE store[x].export # NoHandle
      BY <2>1
    <3>2. <<q.enc, x>> \in Imports /\ q.enc \in q.want /\ q.op = "apply"
      BY <2>1, <3>1 DEF ImportsFrom, Scope
    <3>3. x \in q.want /\ x \in Exporters
      BY <2>1, <3>2 DEF Scope, Exporters
    <3> QED
      BY <1>3, <2>1, <3>3 DEF Done
  <2>3. \A y \in ImportsFrom(q.enc) : y \in q.wire \/ q.mem.imports[y] # NoHandle
    BY <1>1, <2>1 DEF Converging
  <2>4. \A y \in ImportsFrom(n.enc) : y \in n.wire \/ n.mem.imports[y] # NoHandle
    BY <2>1, <2>2, <2>3 DEF ImportsFrom
  <2> QED
    BY <1>3, <1>4, <1>5, <2>1, <2>4
<1>9. CASE SaveImporter(r)
  <2>1. /\ q.pc = "imp" /\ q.wire = {} /\ n.pc = "imports" /\ n.todo = q.todo
        /\ store' = [store EXCEPT ![q.enc] = IF q.changed THEN q.mem ELSE store[q.enc]]
    BY <1>9, SaveImporterDoes DEF SaveImporter
  <2>2. /\ q.mem.status = store[q.enc].status /\ q.mem.export = store[q.enc].export
        /\ q.mem.parts = store[q.enc].parts
        /\ q.changed \/ q.mem.imports = store[q.enc].imports
    BY <2>1 DEF Scope, SerialInv, RequestOK, TruthfulCopy
  <2>3. \A x \in ImportsFrom(q.enc) : q.mem.imports[x] # NoHandle
    BY <1>1, <2>1 DEF Converging
  <2>4. /\ store'[q.enc].status = store[q.enc].status
        /\ store'[q.enc].export = store[q.enc].export
        /\ store'[q.enc].parts = store[q.enc].parts
        /\ store'[q.enc].imports = q.mem.imports
    BY <1>2, <2>1, <2>2
  <2>5. \A o \in Enclave : o # q.enc => store'[o] = store[o]
    BY <1>2, <2>1
  <2>6. ASSUME NEW e \in q.want
        PROVE  Done(run[r], e)' /\ (e \in n.todo \/ Wired2(e))
    <3>1. CASE e # q.enc
      BY <1>1, <1>2, <1>3, <2>1, <2>5, <3>1, DoneKept
    <3>2. CASE e = q.enc
      <4>1. Done(q, e)
        BY <1>3, <2>1
      <4>2. Done(run[r], e)'
        BY <1>1, <2>4, <3>2, <4>1 DEF Done, Declared
      <4> QED
        BY <2>3, <2>4, <3>2, <4>2
    <3> QED
      BY <3>1, <3>2
  <2> QED
    BY <1>4, <2>1, <2>6
<1> QED
  BY <1>6, <1>7, <1>8, <1>9

LEMMA ConvergingStep ==
  ASSUME TypeOK, SerialInv, NEW r \in Request, CopyFollows(run[r]),
         CallBehind(run[r]), Scope(run[r]), Converging(run[r]),
         Start(r) \/ Proceed(r) \/ AbortRequest(r)
  PROVE  Converging(run[r])'
<1>1. CASE Start(r)
  <2>1. run'[r].pc \in {"list", "td", "forget"}
    BY <1>1, LoadYamlDoes, DestroyEnclaveDoes, DestroyPartitionDoes DEF Start
  <2> QED
    BY <2>1, ConvergingElsewhere DEF Provisions
<1>2. CASE AbortRequest(r) \/ Finish(r)
  <2>1. run'[r].pc = "idle"
    BY <1>2, Becomes, DefaultsTyped DEF AbortRequest, Finish
  <2> QED
    BY <2>1, ConvergingElsewhere DEF Provisions
<1>3. CASE \/ ListStore(r) \/ TeardownPartition(r) \/ TeardownEnclave(r) \/ Forget(r)
           \/ \E e \in Enclave : RemoveEnclave(r, e)
           \/ \E p \in Part : TerraformDestroy(r, p)
  <2>1. run'[r].pc \in {"idle", "remove", "td", "td_sa", "forget"}
    BY <1>3, ListStoreDoes, TeardownPartitionDoes, TeardownEnclaveDoes, ForgetDoes,
       RemoveEnclaveDoes, TerraformDestroyDoes
  <2> QED
    BY <2>1, ConvergingElsewhere DEF Provisions
<1>4. CASE Proceed(r)
  BY <1>2, <1>3, <1>4, ConvergingEnclaves, ConvergingPartitions, ConvergingImports
     DEF Proceed
<1> QED
  BY <1>1, <1>2, <1>4

----------------------------------------------------------------------------
(* The invariant of the reconcile loop, for requests that do not overlap. *)

LEMMA IdleLoops ==
  ASSUME NEW q, q.pc = "idle"
  PROVE  CallBehind(q) /\ Unwanted(q) /\ Scope(q) /\ Converging(q)
  BY DEF CallBehind, Unwanted, Scope, Converging, Provisions, OnPartition

LEMMA IdleLoopsNext ==
  ASSUME NEW r \in Request, run'[r].pc = "idle"
  PROVE  (CallBehind(run[r]) /\ Unwanted(run[r]) /\ Scope(run[r]) /\ Converging(run[r]))'
  BY DEF CallBehind, Unwanted, Scope, Converging, Provisions, OnPartition

\* A commit without a revert asks for a version that nobody has applied yet.
LEMMA BehindCommit ==
  ASSUME ~ Reverts, TypeOK, BehindInv,
         NEW e \in Enclave, NEW cf \in [Part -> Version], Commit(e, cf)
  PROVE  BehindInv'
<1>1. store' = store /\ run' = run /\ version' = version + 1 /\ version \in Nat
  BY ConstantsAssumption DEF Commit, TypeOK
<1>2. \A o \in Enclave, p \in Part :
         /\ conf[o][p] \in Nat /\ store[o].parts[p].hash \in Nat
         /\ conf'[o][p] \in {0, conf[o][p], version + 1}
  <2>1. ASSUME NEW o \in Enclave, NEW p \in Part
        PROVE  conf[o][p] \in Version /\ store[o].parts[p] \in PartRec
    BY DEF TypeOK, EncRec
  <2>2. \A p \in Part : cf[p] \in {0, conf[e][p], version + 1}
    BY DEF Commit
  <2>3. conf' = [conf EXCEPT ![e] = cf] /\ conf \in [Enclave -> [Part -> Version]]
    BY DEF Commit, TypeOK
  <2>4. \A o \in Enclave, p \in Part : conf'[o][p] \in {0, conf[o][p], version + 1}
    BY <2>2, <2>3
  <2> QED
    BY <2>1, <2>4, ConstantsAssumption DEF PartRec, Version
<1>3. RecordsBehind'
  <2>1. ASSUME NEW o \in Enclave, NEW p \in Part
        PROVE  /\ store[o].parts[p].hash <= version' /\ conf'[o][p] <= version'
               /\ UpTo(store[o].parts[p], conf'[o][p])
    <3>1. /\ store[o].parts[p].hash <= version /\ conf[o][p] <= version
          /\ UpTo(store[o].parts[p], conf[o][p])
      BY DEF BehindInv, RecordsBehind
    <3>2. /\ conf[o][p] \in Nat /\ store[o].parts[p].hash \in Nat
          /\ conf'[o][p] \in {0, conf[o][p], version + 1}
      BY <1>2
    <3>3. CASE conf'[o][p] = 0
      BY <1>1, <3>1, <3>2, <3>3 DEF UpTo
    <3>4. CASE conf'[o][p] = conf[o][p]
      BY <1>1, <3>1, <3>2, <3>4
    <3>5. CASE conf'[o][p] = version + 1
      BY <1>1, <3>1, <3>2, <3>5 DEF UpTo
    <3> QED
      BY <3>2, <3>3, <3>4, <3>5
  <2> QED
    BY <1>1, <2>1 DEF RecordsBehind
<1>4. ASSUME NEW r \in Request PROVE CallBehind(run[r])'
  <2>1. CallBehind(run[r]) /\ run'[r] = run[r]
    BY <1>1 DEF BehindInv
  <2>2. \A o \in Enclave, p \in Part : run[r].conf[o][p] \in Nat
    <3>1. \A o \in Enclave, p \in Part : run[r].conf[o][p] \in Version
      BY RunTyped
    <3> QED
      BY <3>1, ConstantsAssumption DEF Version
  <2>3. ASSUME NEW o \in Enclave, NEW p \in Part, run[r].op = "apply", run[r].pc # "idle"
        PROVE  /\ run[r].conf[o][p] <= version'
               /\ conf'[o][p] = 0 \/ run[r].conf[o][p] <= conf'[o][p]
    <3>1. /\ run[r].conf[o][p] <= version
          /\ conf[o][p] = 0 \/ run[r].conf[o][p] <= conf[o][p]
      BY <2>1, <2>3 DEF CallBehind
    <3>2. conf'[o][p] \in {0, conf[o][p], version + 1} /\ run[r].conf[o][p] \in Nat
      BY <1>2, <2>2
    <3> QED
      BY <1>1, <3>1, <3>2
  <2> QED
    BY <1>1, <2>1, <2>3 DEF CallBehind
<1> QED
  BY <1>3, <1>4 DEF BehindInv

LEMMA LoopStep ==
  ASSUME ~ Overlap, ~ Reverts, TypeOK, SerialInv, CopiesFollow, BehindInv, ApplyInv,
         [Next]_vars
  PROVE  BehindInv' /\ ApplyInv'
<1>1. ASSUME NEW r \in Request, Start(r) \/ Proceed(r) \/ AbortRequest(r)
      PROVE  BehindInv' /\ ApplyInv'
  <2>1. /\ CopyFollows(run[r]) /\ CallBehind(run[r]) /\ Unwanted(run[r])
        /\ Scope(run[r]) /\ Converging(run[r]) /\ RecordsBehind /\ Absent
    BY DEF CopiesFollow, BehindInv, ApplyInv
  <2>2. /\ RecordsBehind' /\ CallBehind(run[r])'
    BY <1>1, <2>1, BehindRequest
  <2>3. Absent' /\ Unwanted(run[r])'
    BY <1>1, <2>1, AbsentStep, UnwantedStep
  <2>4. Scope(run[r])'
    BY <1>1, <2>1, ScopeStep
  <2>5. Converging(run[r])'
    BY <1>1, <2>1, ConvergingStep
  <2>6. ASSUME NEW o \in Request, o # r
        PROVE  (CallBehind(run[o]) /\ Unwanted(run[o]) /\ Scope(run[o]) /\ Converging(run[o]))'
    <3>1. run'[o].pc = "idle"
      BY <1>1, <2>6, OthersIdle
    <3> QED
      BY <3>1, IdleLoopsNext
  <2> QED
    BY <2>2, <2>3, <2>4, <2>5, <2>6 DEF BehindInv, ApplyInv
<1>2. ASSUME NEW e \in Enclave, NEW cf \in [Part -> Version], Commit(e, cf)
      PROVE  BehindInv' /\ ApplyInv'
  <2>1. store' = store /\ run' = run /\ drivers' = drivers
    BY <1>2 DEF Commit
  <2>2. Absent'
    BY <2>1 DEF ApplyInv, Absent
  <2>3. ASSUME NEW r \in Request
        PROVE  (Unwanted(run[r]) /\ Scope(run[r]) /\ Converging(run[r]))'
    <3>1. Unwanted(run[r]) /\ Scope(run[r]) /\ Converging(run[r]) /\ run'[r] = run[r]
      BY <2>1 DEF ApplyInv
    <3>2. \A o \in Enclave : Done(run[r], o) => Done(run[r], o)'
      BY <2>1, <3>1 DEF Done
    <3>3. run[r].want \subseteq Enclave
      BY RunTyped
    <3>4. Unwanted(run[r])' /\ Scope(run[r])'
      BY <2>1, <3>1 DEF Unwanted, Scope
    <3>5. Converging(run[r])'
      BY <2>1, <3>1, <3>2, <3>3 DEF Converging
    <3> QED
      BY <3>4, <3>5
  <2> QED
    BY <1>2, <2>2, <2>3, BehindCommit DEF ApplyInv
<1>3. ASSUME NEW D \in DriverSets, Restart(D) PROVE BehindInv' /\ ApplyInv'
  <2>1. \A r \in Request : run'[r].pc = "idle"
    BY <1>3, DefaultsTyped DEF Restart
  <2>2. store' = store /\ conf' = conf /\ version' = version
    BY <1>3 DEF Restart, yamlVars
  <2>3. RecordsBehind' /\ Absent'
    BY <2>2 DEF BehindInv, ApplyInv, RecordsBehind, Absent
  <2>4. \A r \in Request :
          (CallBehind(run[r]) /\ Unwanted(run[r]) /\ Scope(run[r]) /\ Converging(run[r]))'
    BY <2>1, IdleLoopsNext
  <2> QED
    BY <2>3, <2>4 DEF BehindInv, ApplyInv
<1>4. CASE UNCHANGED vars \/ \E i \in locked : ForceUnlock(i)
  <2>1. UNCHANGED <<conf, version, drivers, store, run>>
    BY <1>4 DEF vars, yamlVars, ForceUnlock
  <2> QED
    BY <2>1 DEF BehindInv, ApplyInv, RecordsBehind, CallBehind, Absent, Unwanted,
       Scope, Converging, Done
<1> QED
  BY <1>1, <1>2, <1>3, <1>4 DEF Next

LEMMA LoopInit ==
  ASSUME Init
  PROVE  BehindInv /\ ApplyInv
<1>1. \A r \in Request : run[r].pc = "idle"
  BY DefaultsTyped DEF Init
<1>2. \A r \in Request : CallBehind(run[r]) /\ Unwanted(run[r]) /\ Scope(run[r])
                         /\ Converging(run[r])
  BY <1>1, IdleLoops
<1>3. Absent
  BY DEF Init, Absent
<1>4. RecordsBehind
  <2>1. \A e \in Enclave, p \in Part : store[e].parts[p].hash = 0 /\ conf[e][p] = 1
    BY DEF Init, NoRec, NoPart
  <2> QED
    BY <2>1 DEF RecordsBehind, UpTo, Init
<1> QED
  BY <1>2, <1>3, <1>4 DEF BehindInv, ApplyInv

\* What a request has done so far is in the store and in the cloud, and what an
\* apply without errors has passed over is as its YAML asks.
THEOREM LoopCorrect ==
  ASSUME ~ Overlap
  PROVE  Spec => []LoopInv
<1>1. CASE Reverts
  <2>1. CopiesFollow /\ TeardownsEmpty => LoopInv
    BY <1>1 DEF LoopInv
  <2> QED
    BY <2>1, CopyCorrect, TeardownCorrect, PTL
<1>2. CASE ~ Reverts
  <2>1. /\ TypeOK /\ SerialInv /\ CopiesFollow /\ BehindInv /\ ApplyInv /\ [Next]_vars
        => BehindInv' /\ ApplyInv'
    BY <1>2, LoopStep
  <2>2. Init => BehindInv /\ ApplyInv
    BY LoopInit
  <2>3. CopiesFollow /\ TeardownsEmpty /\ BehindInv /\ ApplyInv => LoopInv
    BY DEF LoopInv
  <2> QED
    BY <2>1, <2>2, <2>3, TypeCorrect, SerialCorrect, CopyCorrect, TeardownCorrect, PTL
       DEF Spec
<1> QED
  BY <1>1, <1>2

\* A report of reconcile() without errors is the truth: every enclave of the YAML
\* it loaded is Active and wired, every declared partition Active at its version,
\* and no other enclave has a record.
THEOREM CleanReportTrue ==
  ASSUME ~ Overlap, ~ Reverts
  PROVE  Spec => ConvergedWhenClean
<1>1. SerialInv /\ LoopInv => ReportsTruly
  <2> SUFFICES ASSUME SerialInv, LoopInv, NEW r \in Request, run[r].pc = "imports",
                      Finish(r), ~ run[r].errs, NEW e \in Enclave
               PROVE  IF e \notin run[r].want THEN store[e] = NoRec
                      ELSE /\ store[e].status = "active"
                           /\ \A p \in Declared(run[r].conf, e) :
                                /\ store[e].parts[p].status = "active"
                                /\ store[e].parts[p].hash = run[r].conf[e][p]
                                /\ <<e, p>> \notin torn =>
                                     res[<<e, p>>] = run[r].conf[e][p]
                           /\ \A x \in ImportsFrom(e) : store[e].imports[x] # NoHandle
    BY DEF ReportsTruly
  <2>1. run[r].todo = {}
    BY DEF Finish
  <2>2. Unwanted(run[r]) /\ Converging(run[r])
    BY DEF LoopInv, ApplyInv
  <2>3. CASE e \notin run[r].want
    BY <2>2, <2>3 DEF Unwanted
  <2>4. CASE e \in run[r].want
    <3>1. /\ Done(run[r], e)
          /\ \A x \in ImportsFrom(e) : store[e].imports[x] # NoHandle
      BY <2>1, <2>2, <2>4 DEF Converging
    <3>2. \A p \in Declared(run[r].conf, e) : <<e, p>> \notin torn =>
             res[<<e, p>>] = run[r].conf[e][p]
      BY <3>1 DEF Done, Declared, SerialInv, ActiveIsApplied
    <3> QED
      BY <2>4, <3>1, <3>2 DEF Done
  <2> QED
    BY <2>3, <2>4
<1>2. SerialInv /\ LoopInv /\ [Next]_vars => [ReportsTruly]_vars
  BY <1>1
<1> QED
  BY <1>2, SerialCorrect, LoopCorrect, PTL DEF Spec, ConvergedWhenClean

=============================================================================
