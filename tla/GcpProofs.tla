----------------------------- MODULE GcpProofs ------------------------------
(***************************************************************************)
(* The two modules of the GCP driver, whose names are chosen apart, for    *)
(* any enclaves, partitions and bounds.                                    *)
(*                                                                         *)
(* GcpEnclave: what everything may be, and, as long as no two enclaves     *)
(* derive one project id, that a complete handle is true.                  *)
(*                                                                         *)
(* GcpIam: in any overlap of calls, teardowns and edits of a project's     *)
(* policy, the bindings a call brings back or drops are those that changed *)
(* after it had read the policy, or that it failed to read.                *)
(***************************************************************************)
EXTENDS GcpEnclave, GcpIam, WellFoundedInduction, TLAPS

----------------------------------------------------------------------------
(* The driver's calls for enclaves. *)

\* The hypothesis of what follows: no two enclaves derive one project id.
Distinct == \A e, f \in Enclave : ProjectOf[e] = ProjectOf[f] => e = f

\* What comes before a step.
Earlier(s) == {t \in Step : \E i, j \in DOMAIN Steps : i < j /\ Steps[i] = t /\ Steps[j] = s}

\* The steps a call has passed.
Passed(e) == {s \in Wants[e] : at[e] # "save" => s \in Earlier(step[e])}

\* A call that has the billing linked works on a project that is there for it ...
PastBilling(e) == \/ at[e] \in {"wait", "save"}
                  \/ at[e] = "ask" /\ step[e] # "billing"

\* ... and has made what it has passed, but for what nobody waited for.
Progress(e) ==
  /\ PastBilling(e) => project[ProjectOf[e]] = "active"
  /\ at[e] \in {"ask", "wait", "save"} =>
       \A s \in Passed(e) : has[ProjectOf[e]][s] = "ready" \/ s \in left[ProjectOf[e]]

\* A pending operation is waited for, or known to be left.
Attended(e) ==
  \A s \in Step : has[ProjectOf[e]][s] = "pending" =>
    s \in left[ProjectOf[e]] \/ (at[e] = "wait" /\ step[e] = s)

\* CompleteIsReal, of one enclave.
HandleReal(e) ==
  handle[e] /\ ~ torn[e] =>
    /\ project[ProjectOf[e]] = "active"
    /\ \A s \in Wants[e] \ left[ProjectOf[e]] : has[ProjectOf[e]][s] = "ready"

CallOK(e) == HandleReal(e) /\ Progress(e) /\ Attended(e)

GcpInv == \A e \in Enclave : CallOK(e)

\* A set of naturals that is not empty has a least element.
LEMMA Least ==
  ASSUME NEW S \in SUBSET Nat, S # {}
  PROVE  \E n \in S : \A m \in S : n <= m
<1>1. IsWellFoundedOn(OpToRel(<, Nat), Nat)
  BY NatLessThanWellFounded
<1>2. PICK x \in S : \A y \in S : ~ (<<y, x>> \in OpToRel(<, Nat))
  BY <1>1, WFMin
<1>3. \A y \in S : ~ y < x
  <2> SUFFICES ASSUME NEW y \in S, y < x PROVE FALSE
    OBVIOUS
  <2>1. <<y, x>> \in OpToRel(<, Nat)
    BY DEF OpToRel
  <2> QED
    BY <1>2, <2>1
<1> QED
  BY <1>3

LEMMA StepsAre ==
  /\ DOMAIN Steps = 1 .. 6
  /\ Step = {"billing", "apis", "sa", "vpc", "subnet", "dns"}
  /\ Steps \in [1 .. 6 -> Step]
  /\ \A i, j \in 1 .. 6 : Steps[i] = Steps[j] => i = j
  /\ Steps[1] = "billing"
<1>1. DOMAIN Steps = 1 .. 6
  BY DEF Steps
<1>2. Step = {Steps[i] : i \in 1 .. 6}
  BY <1>1 DEF Step, ToSet
<1>3. /\ Steps[1] = "billing" /\ Steps[2] = "apis" /\ Steps[3] = "sa"
      /\ Steps[4] = "vpc" /\ Steps[5] = "subnet" /\ Steps[6] = "dns"
  BY DEF Steps
<1>4. \A i \in 1 .. 6 : i = 1 \/ i = 2 \/ i = 3 \/ i = 4 \/ i = 5 \/ i = 6
  OBVIOUS
<1>5. Step = {"billing", "apis", "sa", "vpc", "subnet", "dns"}
  BY <1>2, <1>3, <1>4
<1>6. \A i, j \in 1 .. 6 : Steps[i] = Steps[j] => i = j
  BY <1>3, <1>4
<1>7. Steps \in [1 .. 6 -> Step]
  BY <1>1, <1>2 DEF Steps
<1> QED
  BY <1>1, <1>3, <1>5, <1>6, <1>7

\* The driver goes from a step to the next one that is wanted, and to the handle
\* after the last.
LEMMA AdvanceDoes ==
  ASSUME TypeOK, NEW e \in Enclave, Advance(e)
  PROVE  \/ /\ at' = [at EXCEPT ![e] = "save"] /\ step' = step
            /\ Wants[e] \subseteq Earlier(step[e]) \cup {step[e]}
         \/ \E s \in Step :
              /\ at' = [at EXCEPT ![e] = "ask"] /\ step' = [step EXCEPT ![e] = s]
              /\ Wants[e] \cap Earlier(s) \subseteq Earlier(step[e]) \cup {step[e]}
<1> DEFINE i == CHOOSE n \in DOMAIN Steps : Steps[n] = step[e]
           later == {n \in DOMAIN Steps : n > i /\ Steps[n] \in Wants[e]}
           k == CHOOSE n \in later : \A m \in later : n <= m
<1>1. i \in 1 .. 6 /\ Steps[i] = step[e]
  <2>1. \E n \in 1 .. 6 : Steps[n] = step[e]
    <3>1. step[e] \in Step
      BY DEF TypeOK
    <3> QED
      BY <3>1, StepsAre DEF Step, ToSet
  <2> QED
    BY <2>1, StepsAre
<1> HIDE DEF i
<1>2. IF later = {} THEN Goto(e, "save") ELSE Ask(e, Steps[k])
  BY DEF Advance, i
<1>3. \A s \in Wants[e] : \E n \in 1 .. 6 : Steps[n] = s
  BY GcpAssumption, StepsAre DEF Step, ToSet
<1>4. Wants[e] \subseteq Step
  BY GcpAssumption
<1>5. CASE later = {}
  <2>1. ASSUME NEW s \in Wants[e] PROVE s \in Earlier(step[e]) \cup {step[e]}
    <3>1. PICK n \in 1 .. 6 : Steps[n] = s
      BY <1>3
    <3>2. ~ (n > i)
      BY <1>5, <3>1, StepsAre
    <3>3. n = i \/ n < i
      BY <1>1, <3>2
    <3> QED
      BY <1>1, <1>4, <3>1, <3>3, StepsAre DEF Earlier
  <2> QED
    BY <1>2, <1>5, <2>1 DEF Goto
<1>6. CASE later # {}
  <2>1. k \in later /\ \A m \in later : k <= m
    <3>1. later \in SUBSET Nat
      BY StepsAre
    <3>2. \E n \in later : \A m \in later : n <= m
      BY <1>6, <3>1, Least
    <3> QED
      BY <3>2
  <2> HIDE DEF k
  <2>2. k \in 1 .. 6 /\ Steps[k] \in Step
    BY <2>1, StepsAre
  <2>3. ASSUME NEW s \in Wants[e] \cap Earlier(Steps[k])
        PROVE  s \in Earlier(step[e]) \cup {step[e]}
    <3>1. PICK n \in 1 .. 6 : n < k /\ Steps[n] = s
      <4>1. PICK n \in 1 .. 6, j \in 1 .. 6 : n < j /\ Steps[n] = s /\ Steps[j] = Steps[k]
        BY StepsAre DEF Earlier
      <4> QED
        BY <2>2, <4>1, StepsAre
    <3>2. ~ (n > i)
      BY <2>1, <2>2, <3>1, StepsAre
    <3>3. n = i \/ n < i
      BY <1>1, <3>2
    <3> QED
      BY <1>1, <1>4, <3>1, <3>3, StepsAre DEF Earlier
  <2> QED
    BY <1>2, <1>6, <2>2, <2>3 DEF Ask
<1> QED
  BY <1>5, <1>6

----------------------------------------------------------------------------
(* Types. *)

\* What an enclave and its project are.
LEMMA EnclaveTyped ==
  ASSUME TypeOK, NEW e \in Enclave
  PROVE  /\ ProjectOf[e] \in Project /\ step[e] \in Step /\ Wants[e] \subseteq Step
         /\ has[ProjectOf[e]] \in [Step -> {"none", "pending", "ready"}]
         /\ left[ProjectOf[e]] \subseteq Step
<1>1. ProjectOf[e] \in Project /\ Wants[e] \subseteq Step
  BY GcpAssumption
<1> QED
  BY <1>1 DEF TypeOK

LEMMA FaultTyped ==
  ASSUME TypeOK, Fault
  PROVE  faults' \in 0 .. MaxFaults
<1>1. MaxFaults \in Nat
  BY GcpAssumption
<1>2. faults \in 0 .. MaxFaults
  BY DEF TypeOK
<1> QED
  BY <1>1, <1>2 DEF Fault

\* A call goes to a point and a step that exist.
CallTyped == at \in [Enclave -> Points] /\ step \in [Enclave -> Step]

LEMMA GotoTyped ==
  ASSUME TypeOK, NEW e \in Enclave, NEW point \in Points, Goto(e, point)
  PROVE  CallTyped'
  BY DEF TypeOK, Goto, CallTyped

LEMMA AskTyped ==
  ASSUME TypeOK, NEW e \in Enclave, NEW s \in Step, Ask(e, s)
  PROVE  CallTyped'
  BY DEF TypeOK, Ask, CallTyped, Points

LEMMA ReturnTyped ==
  ASSUME TypeOK, NEW e \in Enclave, Return(e)
  PROVE  CallTyped'
  BY DEF TypeOK, Return, Goto, CallTyped, Points

LEMMA AdvanceTyped ==
  ASSUME TypeOK, NEW e \in Enclave, Advance(e)
  PROVE  CallTyped'
<1>1. /\ at \in [Enclave -> Points] /\ step \in [Enclave -> Step]
      /\ {"ask", "save"} \subseteq Points
  BY DEF TypeOK, Points
<1> QED
  BY <1>1, AdvanceDoes DEF CallTyped

\* What is not about the call: the project, its content, and the rest.
RestTyped ==
  /\ declared \in [Enclave -> BOOLEAN] /\ handle \in [Enclave -> BOOLEAN]
  /\ project \in [Project -> {"none", "creating", "active", "deleting"}]
  /\ has \in [Project -> [Step -> {"none", "pending", "ready"}]]
  /\ left \in [Project -> SUBSET Step] /\ torn \in [Enclave -> BOOLEAN]
  /\ faults \in 0 .. MaxFaults /\ edits \in 0 .. MaxEdits

LEMMA TypeParts == TypeOK => CallTyped /\ RestTyped
  BY DEF TypeOK, CallTyped, RestTyped

LEMMA TypesJoined == CallTyped' /\ RestTyped' => TypeOK'
  BY DEF TypeOK, CallTyped, RestTyped

LEMMA PutTyped ==
  ASSUME TypeOK, NEW p \in Project, NEW s \in Step, NEW x \in {"none", "pending", "ready"},
         SetHas(p, s, x)
  PROVE  has' \in [Project -> [Step -> {"none", "pending", "ready"}]]
<1>1. has \in [Project -> [Step -> {"none", "pending", "ready"}]]
  BY DEF TypeOK
<1> QED
  BY <1>1 DEF SetHas

\* The calls of the driver.
LEMMA DriverTyped ==
  ASSUME TypeOK, NEW e \in Enclave, Driver(e)
  PROVE  TypeOK'
<1> USE DEF bounds, cloud
<1>1. ProjectOf[e] \in Project /\ step[e] \in Step /\ "billing" \in Step
  BY EnclaveTyped, StepsAre
<1>2. RestTyped /\ CallTyped
  BY TypeParts
<1>3. CASE Look(e)
  <2>1. CallTyped'
    BY <1>3, ReturnTyped, GotoTyped DEF Look, Points
  <2>2. RestTyped'
    BY <1>2, <1>3, ReturnTyped DEF Look, RestTyped
  <2> QED
    BY <2>1, <2>2, TypesJoined
<1>4. CASE CreateProject(e)
  <2>1. CallTyped'
    BY <1>4, GotoTyped DEF CreateProject, Points
  <2>2. RestTyped'
    BY <1>1, <1>2, <1>4 DEF CreateProject, RestTyped, SetProject
  <2> QED
    BY <2>1, <2>2, TypesJoined
<1>5. CASE WaitProject(e)
  <2>1. CallTyped'
    BY <1>1, <1>5, ReturnTyped, AskTyped DEF WaitProject
  <2>2. RestTyped'
    BY <1>2, <1>5, ReturnTyped DEF WaitProject, RestTyped
  <2> QED
    BY <2>1, <2>2, TypesJoined
<1>6. CASE Fetch(e)
  <2>1. CallTyped'
    BY <1>1, <1>6, GotoTyped, AskTyped DEF Fetch, Points
  <2>2. RestTyped'
    BY <1>2, <1>6 DEF Fetch, RestTyped
  <2> QED
    BY <2>1, <2>2, TypesJoined
<1>7. CASE Undelete(e)
  <2>1. CallTyped'
    BY <1>1, <1>7, ReturnTyped, AskTyped DEF Undelete
  <2>2. RestTyped'
    BY <1>1, <1>2, <1>7, ReturnTyped DEF Undelete, RestTyped, SetProject
  <2> QED
    BY <2>1, <2>2, TypesJoined
<1>8. CASE Refused(e) \/ OperationFailed(e)
  <2>1. CallTyped'
    BY <1>8, ReturnTyped DEF Refused, OperationFailed
  <2>2. RestTyped'
    BY <1>2, <1>8, ReturnTyped DEF Refused, OperationFailed, RestTyped
  <2> QED
    BY <2>1, <2>2, TypesJoined
<1>9. CASE AskShort(e) \/ AskLong(e)
  <2>1. CallTyped'
    BY <1>9, GotoTyped, AdvanceTyped DEF AskShort, AskLong, Points
  <2>2. has' \in [Project -> [Step -> {"none", "pending", "ready"}]]
    BY <1>1, <1>9, PutTyped DEF AskShort, AskLong
  <2>3. RestTyped'
    BY <1>2, <1>9, <2>2 DEF AskShort, AskLong, RestTyped
  <2> QED
    BY <2>1, <2>3, TypesJoined
<1>10. CASE AskAgain(e) \/ Waited(e)
  <2>1. CallTyped'
    BY <1>10, GotoTyped, AdvanceTyped DEF AskAgain, Waited, Points
  <2>2. RestTyped'
    BY <1>2, <1>10 DEF AskAgain, Waited, RestTyped
  <2> QED
    BY <2>1, <2>2, TypesJoined
<1>11. CASE Save(e) \/ Forget(e)
  <2>1. CallTyped'
    BY <1>11, ReturnTyped DEF Save, Forget
  <2>2. RestTyped'
    BY <1>2, <1>11, ReturnTyped DEF Save, Forget, RestTyped
  <2> QED
    BY <2>1, <2>2, TypesJoined
<1>12. CASE DeleteProject(e)
  <2>1. CallTyped'
    BY <1>12, GotoTyped, ReturnTyped DEF DeleteProject, Points
  <2>2. RestTyped'
    BY <1>1, <1>2, <1>12, ReturnTyped DEF DeleteProject, RestTyped, SetProject
  <2> QED
    BY <2>1, <2>2, TypesJoined
<1> QED
  BY <1>3, <1>4, <1>5, <1>6, <1>7, <1>8, <1>9, <1>10, <1>11, <1>12 DEF Driver

\* The environment's steps: the operator, the cloud, and what goes wrong.
LEMMA OutsideTyped ==
  ASSUME TypeOK, NEW e \in Enclave,
         \/ Apply(e) \/ TearDown(e) \/ ForgetOnly(e) \/ Edit(e)
         \/ LookError(e) \/ FetchError(e) \/ Fail(e) \/ LostReply(e)
  PROVE  TypeOK'
<1> USE DEF bounds, cloud
<1>1. /\ ProjectOf[e] \in Project /\ step[e] \in Step /\ "billing" \in Step
      /\ MaxEdits \in Nat
  BY EnclaveTyped, StepsAre, GcpAssumption
<1>2. RestTyped /\ CallTyped
  BY TypeParts
<1>3. CASE Apply(e) \/ TearDown(e)
  <2>1. CallTyped'
    BY <1>3, GotoTyped DEF Apply, TearDown, Points
  <2>2. RestTyped'
    BY <1>2, <1>3 DEF Apply, TearDown, RestTyped, Goto
  <2> QED
    BY <2>1, <2>2, TypesJoined
<1>4. CASE ForgetOnly(e) \/ Edit(e)
  <2>1. CallTyped'
    BY <1>2, <1>4 DEF ForgetOnly, Edit, CallTyped
  <2>2. ASSUME ForgetOnly(e) PROVE RestTyped'
    BY <1>2, <2>2 DEF ForgetOnly, RestTyped
  <2>3. ASSUME Edit(e) PROVE RestTyped'
    <3>1. declared' = [declared EXCEPT ![e] = ~ @] /\ edits < MaxEdits /\ edits' = edits + 1
      BY <2>3, Zenon DEF Edit
    <3>2. declared \in [Enclave -> BOOLEAN] /\ edits \in 0 .. MaxEdits
      BY <1>2, Zenon DEF RestTyped
    <3>3. declared' \in [Enclave -> BOOLEAN]
      BY <3>1, <3>2
    <3>4. edits' \in 0 .. MaxEdits
      BY <1>1, <3>1, <3>2
    <3> QED
      BY <1>2, <2>3, <3>3, <3>4 DEF Edit, RestTyped
  <2>4. RestTyped'
    BY <1>4, <2>2, <2>3
  <2> QED
    BY <2>1, <2>4, TypesJoined
<1>5. CASE LookError(e) \/ FetchError(e)
  <2>1. CallTyped'
    BY <1>1, <1>5, GotoTyped, AskTyped DEF LookError, FetchError, Points
  <2>2. RestTyped'
    BY <1>2, <1>5, FaultTyped DEF LookError, FetchError, RestTyped
  <2> QED
    BY <2>1, <2>2, TypesJoined
<1>6. CASE Fail(e)
  <2>1. CallTyped'
    BY <1>6, ReturnTyped DEF Fail
  <2>2. faults' \in 0 .. MaxFaults
    BY <1>6, FaultTyped DEF Fail
  <2>3. left' \in [Project -> SUBSET Step]
    BY <1>1, <1>2, <1>6 DEF Fail, RestTyped
  <2>4. RestTyped'
    BY <1>2, <1>6, <2>1, <2>2, <2>3 DEF Fail, RestTyped
  <2> QED
    BY <2>1, <2>4, TypesJoined
<1>7. CASE LostReply(e)
  <2>1. CallTyped'
    BY <1>7, ReturnTyped DEF LostReply
  <2>2. faults' \in 0 .. MaxFaults
    BY <1>7, FaultTyped DEF LostReply
  <2>3. /\ project' \in [Project -> {"none", "creating", "active", "deleting"}]
        /\ torn' \in [Enclave -> BOOLEAN]
    BY <1>1, <1>2, <1>7 DEF LostReply, RestTyped, SetProject
  <2>4. has' \in [Project -> [Step -> {"none", "pending", "ready"}]]
    BY <1>1, <1>2, <1>7, PutTyped DEF LostReply, RestTyped
  <2>5. left' \in [Project -> SUBSET Step]
    <3>1. left \in [Project -> SUBSET Step]
      BY <1>2 DEF RestTyped
    <3>2. \/ left' = left
          \/ left' = [left EXCEPT ![ProjectOf[e]] = @ \cup {step[e]}]
      BY <1>7 DEF LostReply
    <3> QED
      BY <1>1, <3>1, <3>2
  <2>6. declared' = declared /\ handle' = handle /\ edits' = edits
    BY <1>7 DEF LostReply
  <2>7. RestTyped'
    BY <1>2, <2>1, <2>2, <2>3, <2>4, <2>5, <2>6 DEF RestTyped
  <2> QED
    BY <2>1, <2>7, TypesJoined
<1> QED
  BY <1>3, <1>4, <1>5, <1>6, <1>7

LEMMA CloudTyped ==
  ASSUME TypeOK, NEW p \in Project,
         \/ ProjectMade(p) \/ ProjectNotMade(p) \/ Purge(p)
         \/ \E s \in Step : Made(p, s) \/ NotMade(p, s)
  PROVE  TypeOK'
<1> USE DEF bounds, cloud
<1>1. RestTyped /\ CallTyped
  BY TypeParts
<1>2. CASE ProjectMade(p) \/ ProjectNotMade(p) \/ Purge(p)
  <2>1. at' = at /\ step' = step
    BY <1>2 DEF ProjectMade, ProjectNotMade, Purge
  <2>2. faults' \in 0 .. MaxFaults
    BY <1>1, <1>2, FaultTyped DEF ProjectMade, ProjectNotMade, Purge, RestTyped
  <2>3. project' \in [Project -> {"none", "creating", "active", "deleting"}]
    BY <1>1, <1>2 DEF ProjectMade, ProjectNotMade, Purge, RestTyped, SetProject
  <2>4. /\ has' \in [Project -> [Step -> {"none", "pending", "ready"}]]
        /\ left' \in [Project -> SUBSET Step]
    <3>1. Empty \in [Step -> {"none", "pending", "ready"}]
      BY DEF Empty
    <3> QED
      BY <1>1, <1>2, <3>1 DEF ProjectMade, ProjectNotMade, Purge, RestTyped
  <2>5. RestTyped'
    BY <1>1, <1>2, <2>2, <2>3, <2>4 DEF ProjectMade, ProjectNotMade, Purge, RestTyped
  <2>6. CallTyped'
    BY <1>1, <2>1 DEF CallTyped
  <2> QED
    BY <2>5, <2>6, TypesJoined
<1>3. ASSUME NEW s \in Step, Made(p, s) \/ NotMade(p, s) PROVE TypeOK'
  <2>1. CallTyped'
    BY <1>1, <1>3 DEF Made, NotMade, CallTyped
  <2>2. faults' \in 0 .. MaxFaults
    BY <1>1, <1>3, FaultTyped DEF Made, NotMade, RestTyped
  <2>3. has' \in [Project -> [Step -> {"none", "pending", "ready"}]]
    BY <1>3, PutTyped DEF Made, NotMade
  <2>4. left' \in [Project -> SUBSET Step]
    <3>1. left \in [Project -> SUBSET Step]
      BY <1>1 DEF RestTyped
    <3>2. left' = left \/ left' = [left EXCEPT ![p] = @ \ {s}]
      BY <1>3 DEF Made, NotMade
    <3> QED
      BY <3>1, <3>2
  <2>5. RestTyped'
    BY <1>1, <1>3, <2>2, <2>3, <2>4 DEF Made, NotMade, RestTyped
  <2> QED
    BY <2>1, <2>5, TypesJoined
<1> QED
  BY <1>2, <1>3

\* What the record, the call and the project of each enclave may be.
THEOREM GcpTyped == Spec => []TypeOK
<1>1. Init => TypeOK
  <2>1. Head(Steps) \in Step
    <3>1. Head(Steps) = "billing"
      BY DEF Steps
    <3> QED
      BY <3>1, StepsAre
  <2>2. Empty \in [Step -> {"none", "pending", "ready"}]
    BY DEF Empty
  <2>3. MaxFaults \in Nat /\ MaxEdits \in Nat
    BY GcpAssumption
  <2>4. ASSUME Init PROVE at \in [Enclave -> Points] /\ step \in [Enclave -> Step]
    <3>1. at = [e \in Enclave |-> "idle"] /\ step = [e \in Enclave |-> Head(Steps)]
      BY <2>4 DEF Init
    <3> QED
      BY <2>1, <3>1 DEF Points
  <2>5. ASSUME Init
        PROVE  /\ project \in [Project -> {"none", "creating", "active", "deleting"}]
               /\ has \in [Project -> [Step -> {"none", "pending", "ready"}]]
               /\ left \in [Project -> SUBSET Step]
    <3>1. /\ project = [p \in Project |-> "none"] /\ has = [p \in Project |-> Empty]
          /\ left = [p \in Project |-> {}]
      BY <2>5 DEF Init
    <3> QED
      BY <2>2, <3>1
  <2>6. ASSUME Init
        PROVE  /\ declared \in [Enclave -> BOOLEAN] /\ handle \in [Enclave -> BOOLEAN]
                            /\ torn \in [Enclave -> BOOLEAN]
               /\ faults \in 0 .. MaxFaults /\ edits \in 0 .. MaxEdits
    <3>1. /\ declared = [e \in Enclave |-> TRUE] /\ handle = [e \in Enclave |-> FALSE]
          /\ torn = [e \in Enclave |-> FALSE]
      BY <2>6, Zenon DEF Init
    <3>2. faults = 0 /\ edits = 0
      BY <2>6, Zenon DEF Init
    <3>4. /\ declared \in [Enclave -> BOOLEAN] /\ handle \in [Enclave -> BOOLEAN]
          /\ torn \in [Enclave -> BOOLEAN]
      BY <3>1
    <3>5. faults \in 0 .. MaxFaults /\ edits \in 0 .. MaxEdits
      BY <2>3, <3>2
    <3> QED
      BY <3>4, <3>5
  <2> QED
    BY <2>4, <2>5, <2>6 DEF TypeOK
<1>2. TypeOK /\ [Next]_vars => TypeOK'
  <2> SUFFICES ASSUME TypeOK, [Next]_vars PROVE TypeOK'
    OBVIOUS
  <2>1. CASE UNCHANGED vars
    BY <2>1 DEF vars, TypeOK
  <2>2. CASE Next
    BY <2>2, DriverTyped, OutsideTyped, CloudTyped DEF Next
  <2> QED
    BY <2>1, <2>2
<1> QED
  BY <1>1, <1>2, PTL DEF Spec

----------------------------------------------------------------------------
(* The handle and the call of each enclave. *)

\* What CallOK looks at stays as it is for an enclave.
SameFor(o) ==
  /\ at'[o] = at[o] /\ step'[o] = step[o] /\ handle'[o] = handle[o] /\ torn'[o] = torn[o]
  /\ project'[ProjectOf[o]] = project[ProjectOf[o]]
  /\ has'[ProjectOf[o]] = has[ProjectOf[o]] /\ left'[ProjectOf[o]] = left[ProjectOf[o]]

LEMMA SameKept ==
  ASSUME NEW o \in Enclave, CallOK(o), SameFor(o)
  PROVE  CallOK(o)'
  BY DEF CallOK, HandleReal, Progress, PastBilling, Passed, Attended, SameFor

\* A call of one enclave and its record are no concern of the others.
LEMMA OthersSame ==
  ASSUME Distinct, TypeOK, NEW e \in Enclave, NEW o \in Enclave, o # e,
         \/ Driver(e) \/ Apply(e) \/ TearDown(e) \/ ForgetOnly(e) \/ LookError(e)
         \/ FetchError(e) \/ Fail(e) \/ LostReply(e) \/ Edit(e)
  PROVE  SameFor(o)
<1> USE DEF bounds, cloud
<1>1. ProjectOf[o] # ProjectOf[e] /\ ProjectOf[o] \in Project /\ ProjectOf[e] \in Project
  BY EnclaveTyped DEF Distinct
<1>2. /\ at'[o] = at[o] /\ step'[o] = step[o]
  <2>1. ASSUME \/ \E point \in Points : Goto(e, point)
               \/ \E s \in Step : Ask(e, s)
               \/ Return(e)
               \/ Advance(e)
               \/ UNCHANGED <<at, step>>
        PROVE  at'[o] = at[o] /\ step'[o] = step[o]
    <3>1. at \in [Enclave -> Points] /\ step \in [Enclave -> Step]
      BY DEF TypeOK
    <3>2. \/ at' = at
          \/ \E x \in Points : at' = [at EXCEPT ![e] = x]
      BY <2>1, AdvanceDoes DEF Goto, Ask, Return, Points
    <3>3. \/ step' = step
          \/ \E x \in Step : step' = [step EXCEPT ![e] = x]
      BY <2>1, AdvanceDoes DEF Goto, Ask, Return
    <3> QED
      BY <3>1, <3>2, <3>3
  <2>2. "billing" \in Step
    BY StepsAre
  <2> QED
    BY <2>1, <2>2 DEF Driver, Look, CreateProject, WaitProject, Fetch, Undelete, Refused,
       AskShort, AskLong, AskAgain, Waited, OperationFailed, Save, DeleteProject, Forget,
       Apply, TearDown, ForgetOnly, LookError, FetchError, Fail, LostReply, Edit, Points
<1>3. handle'[o] = handle[o] /\ torn'[o] = torn[o]
  <2>1. handle \in [Enclave -> BOOLEAN] /\ torn \in [Enclave -> BOOLEAN]
    BY DEF TypeOK
  <2>2. /\ handle' = handle \/ \E x \in BOOLEAN : handle' = [handle EXCEPT ![e] = x]
        /\ torn' = torn \/ \E x \in BOOLEAN : torn' = [torn EXCEPT ![e] = x]
    BY DEF Driver, Look, CreateProject, WaitProject, Fetch, Undelete, Refused,
       AskShort, AskLong, AskAgain, Waited, OperationFailed, Save, DeleteProject, Forget,
       Apply, TearDown, ForgetOnly, LookError, FetchError, Fail, LostReply, Edit
  <2> QED
    BY <2>1, <2>2
<1>4. project'[ProjectOf[o]] = project[ProjectOf[o]]
  <2>1. project' = project \/ \E x : project' = [project EXCEPT ![ProjectOf[e]] = x]
    BY DEF Driver, Look, CreateProject, WaitProject, Fetch, Undelete, Refused,
       AskShort, AskLong, AskAgain, Waited, OperationFailed, Save, DeleteProject, Forget,
       Apply, TearDown, ForgetOnly, LookError, FetchError, Fail, LostReply, Edit, SetProject
  <2> QED
    BY <1>1, <2>1 DEF TypeOK
<1>5. has'[ProjectOf[o]] = has[ProjectOf[o]]
  <2>1. has' = has \/ \E x : has' = [has EXCEPT ![ProjectOf[e]][step[e]] = x]
    BY DEF Driver, Look, CreateProject, WaitProject, Fetch, Undelete, Refused,
       AskShort, AskLong, AskAgain, Waited, OperationFailed, Save, DeleteProject, Forget,
       Apply, TearDown, ForgetOnly, LookError, FetchError, Fail, LostReply, Edit, SetHas
  <2> QED
    BY <1>1, <2>1 DEF TypeOK
<1>6. left'[ProjectOf[o]] = left[ProjectOf[o]]
  <2>1. left' = left \/ left' = [left EXCEPT ![ProjectOf[e]] = @ \cup {step[e]}]
    BY DEF Driver, Look, CreateProject, WaitProject, Fetch, Undelete, Refused,
       AskShort, AskLong, AskAgain, Waited, OperationFailed, Save, DeleteProject, Forget,
       Apply, TearDown, ForgetOnly, LookError, FetchError, Fail, LostReply, Edit
  <2> QED
    BY <1>1, <2>1 DEF TypeOK
<1> QED
  BY <1>2, <1>3, <1>4, <1>5, <1>6 DEF SameFor

\* A call that ends, or is not between billing and the handle, is as good as before,
\* if somebody waits for what it leaves.
LEMMA ElsewhereOK ==
  ASSUME TypeOK, NEW e \in Enclave, CallOK(e),
         at'[e] \notin {"ask", "wait", "save"},
         project'[ProjectOf[e]] = project[ProjectOf[e]],
         has'[ProjectOf[e]] = has[ProjectOf[e]],
         left[ProjectOf[e]] \subseteq left'[ProjectOf[e]],
         handle'[e] /\ ~ torn'[e] => handle[e] /\ ~ torn[e],
         at[e] = "wait" => \/ has[ProjectOf[e]][step[e]] # "pending"
                           \/ step[e] \in left'[ProjectOf[e]]
  PROVE  CallOK(e)'
<1>1. HandleReal(e)'
  BY DEF CallOK, HandleReal
<1>2. Progress(e)'
  BY DEF Progress, PastBilling
<1>3. Attended(e)'
  BY DEF CallOK, Attended
<1> QED
  BY <1>1, <1>2, <1>3 DEF CallOK

\* Before the billing nothing is passed.
LEMMA BillingOK ==
  ASSUME TypeOK, NEW e \in Enclave, CallOK(e), at[e] # "wait",
         at'[e] = "ask", step'[e] = "billing",
         \/ project'[ProjectOf[e]] = project[ProjectOf[e]]
         \/ project[ProjectOf[e]] # "active",
         has'[ProjectOf[e]] = has[ProjectOf[e]], left'[ProjectOf[e]] = left[ProjectOf[e]],
         handle'[e] = handle[e], torn'[e] = torn[e]
  PROVE  CallOK(e)'
<1>1. HandleReal(e)'
  BY DEF CallOK, HandleReal
<1>2. Progress(e)'
  <2>1. Earlier("billing") = {}
    BY StepsAre DEF Earlier
  <2> QED
    BY <2>1 DEF Progress, PastBilling, Passed
<1>3. Attended(e)'
  BY DEF CallOK, Attended
<1> QED
  BY <1>1, <1>2, <1>3 DEF CallOK

\* A step that is ready, or left, is passed.
LEMMA AdvanceOK ==
  ASSUME TypeOK, NEW e \in Enclave, CallOK(e), Advance(e), at[e] \in {"ask", "wait"},
         project'[ProjectOf[e]] = "active", project[ProjectOf[e]] = "active",
         \A s \in Step : s # step[e] => has'[ProjectOf[e]][s] = has[ProjectOf[e]][s],
         \/ has'[ProjectOf[e]][step[e]] = "ready"
         \/ /\ has'[ProjectOf[e]][step[e]] = has[ProjectOf[e]][step[e]]
            /\ step[e] \in left[ProjectOf[e]],
         left'[ProjectOf[e]] = left[ProjectOf[e]],
         handle'[e] = handle[e], torn'[e] = torn[e]
  PROVE  CallOK(e)'
<1>1. step[e] \in Step /\ Wants[e] \subseteq Step
  BY EnclaveTyped
<1>2. HandleReal(e)'
  BY <1>1 DEF CallOK, HandleReal
<1>3. Progress(e)'
  <2>1. \A s \in Wants[e] \cap (Earlier(step[e]) \cup {step[e]}) :
          has'[ProjectOf[e]][s] = "ready" \/ s \in left[ProjectOf[e]]
    <3>1. \A s \in Wants[e] \cap Earlier(step[e]) :
            has[ProjectOf[e]][s] = "ready" \/ s \in left[ProjectOf[e]]
      BY DEF CallOK, Progress, Passed
    <3> QED
      BY <1>1, <3>1
  <2>2. Passed(e)' \subseteq Wants[e] \cap (Earlier(step[e]) \cup {step[e]})
    <3>1. at \in [Enclave -> Points] /\ step \in [Enclave -> Step]
      BY DEF TypeOK
    <3>2. CASE /\ at' = [at EXCEPT ![e] = "save"] /\ step' = step
               /\ Wants[e] \subseteq Earlier(step[e]) \cup {step[e]}
      BY <3>1, <3>2 DEF Passed
    <3>3. ASSUME NEW s \in Step,
                 at' = [at EXCEPT ![e] = "ask"], step' = [step EXCEPT ![e] = s],
                 Wants[e] \cap Earlier(s) \subseteq Earlier(step[e]) \cup {step[e]}
          PROVE  Passed(e)' \subseteq Wants[e] \cap (Earlier(step[e]) \cup {step[e]})
      <4>1. at'[e] = "ask" /\ step'[e] = s
        BY <3>1, <3>3
      <4>2. Passed(e)' = Wants[e] \cap Earlier(s)
        BY <4>1 DEF Passed
      <4> QED
        BY <3>3, <4>2
    <3> QED
      BY <3>2, <3>3, AdvanceDoes
  <2> QED
    BY <2>1, <2>2 DEF Progress
<1>4. Attended(e)'
  BY <1>1 DEF CallOK, Attended
<1> QED
  BY <1>2, <1>3, <1>4 DEF CallOK

\* What a call does to its own enclave, in terms of the enclave.
LEMMA GoesTo ==
  ASSUME TypeOK, NEW e \in Enclave
  PROVE  /\ \A point : Goto(e, point) => at'[e] = point /\ step'[e] = step[e]
         /\ \A s : Ask(e, s) => at'[e] = "ask" /\ step'[e] = s
         /\ Return(e) => at'[e] = "idle" /\ step'[e] = step[e]
  BY DEF TypeOK, Goto, Ask, Return

LEMMA Puts ==
  ASSUME TypeOK, NEW e \in Enclave, NEW x, SetHas(ProjectOf[e], step[e], x)
  PROVE  /\ has'[ProjectOf[e]][step[e]] = x
         /\ \A s \in Step : s # step[e] => has'[ProjectOf[e]][s] = has[ProjectOf[e]][s]
<1>1. ProjectOf[e] \in Project /\ step[e] \in Step
  BY EnclaveTyped
<1>2. has \in [Project -> [Step -> {"none", "pending", "ready"}]]
  BY DEF TypeOK
<1> QED
  BY <1>1, <1>2 DEF SetHas

\* The driver's own steps keep the handle true and the call on its way.
LEMMA DriverOK ==
  ASSUME TypeOK, NEW e \in Enclave, CallOK(e), Driver(e)
  PROVE  CallOK(e)'
<1> USE DEF bounds, cloud
<1> DEFINE p == ProjectOf[e]
<1>1. /\ p \in Project /\ step[e] \in Step /\ Wants[e] \subseteq Step
      /\ project \in [Project -> {"none", "creating", "active", "deleting"}]
  BY EnclaveTyped DEF TypeOK
<1>2. handle \in [Enclave -> BOOLEAN] /\ torn \in [Enclave -> BOOLEAN]
  BY DEF TypeOK
<1>3. CASE Look(e) \/ Refused(e) \/ OperationFailed(e)
  BY <1>3, GoesTo, ElsewhereOK DEF Look, Refused, OperationFailed
<1>4. CASE CreateProject(e)
  <2>1. CASE project[p] = "none"
    <3>1. at'[e] = "waitProject" /\ at[e] = "create"
      BY <1>4, <2>1, GoesTo DEF CreateProject
    <3>2. ~ (handle[e] /\ ~ torn[e])
      BY <2>1 DEF CallOK, HandleReal
    <3>3. handle' = handle /\ torn' = torn /\ has' = has /\ left' = left
      BY <1>4 DEF CreateProject
    <3> QED
      BY <3>1, <3>2, <3>3
         DEF CallOK, HandleReal, Progress, PastBilling, Passed, Attended
  <2>2. CASE project[p] # "none"
    BY <1>4, <2>2, GoesTo, ElsewhereOK DEF CreateProject
  <2> QED
    BY <2>1, <2>2
<1>5. CASE WaitProject(e)
  BY <1>5, GoesTo, ElsewhereOK, BillingOK DEF WaitProject
<1>6. CASE Fetch(e)
  BY <1>6, GoesTo, ElsewhereOK, BillingOK DEF Fetch
<1>7. CASE Undelete(e)
  BY <1>7, GoesTo, ElsewhereOK, BillingOK DEF Undelete
<1>8. CASE AskShort(e)
  <2>1. /\ at[e] = "ask" /\ project' = project /\ project[p] = "active" /\ Advance(e)
        /\ left' = left /\ handle' = handle /\ torn' = torn
        /\ SetHas(p, step[e], "ready")
    BY <1>8 DEF AskShort, Accepts
  <2> QED
    BY <2>1, Puts, AdvanceOK
<1>9. CASE AskLong(e)
  <2>1. /\ at[e] = "ask" /\ project' = project /\ project[p] = "active"
        /\ left' = left /\ handle' = handle /\ torn' = torn
        /\ has[p][step[e]] = "none" /\ at'[e] = "wait" /\ step'[e] = step[e]
        /\ SetHas(p, step[e], "pending")
    BY <1>9, GoesTo DEF AskLong, Accepts
  <2>2. /\ has'[p][step[e]] = "pending"
        /\ \A s \in Step : s # step[e] => has'[p][s] = has[p][s]
    BY <2>1, Puts
  <2>3. HandleReal(e)'
    BY <1>1, <2>1, <2>2 DEF CallOK, HandleReal
  <2>4. Progress(e)'
    <3>1. Passed(e)' = Passed(e)
      BY <2>1 DEF Passed
    <3>2. \A s \in Passed(e) : s \in Step /\ (has[p][s] = "ready" \/ s \in left[p])
      BY <1>1, <2>1 DEF CallOK, Progress, Passed
    <3> QED
      BY <2>1, <2>2, <3>1, <3>2 DEF Progress
  <2>5. Attended(e)'
    BY <2>1, <2>2 DEF CallOK, Attended
  <2> QED
    BY <2>3, <2>4, <2>5 DEF CallOK
<1>10. CASE AskAgain(e)
  <2>1. /\ at[e] = "ask" /\ project' = project /\ project[p] = "active"
        /\ left' = left /\ handle' = handle /\ torn' = torn /\ has' = has
        /\ has[p][step[e]] # "none"
    BY <1>10 DEF AskAgain, Accepts
  <2>2. has[p][step[e]] = "ready" \/ step[e] \in left[p]
    <3>1. has[p][step[e]] \in {"none", "pending", "ready"}
      BY <1>1, EnclaveTyped
    <3> QED
      BY <1>1, <2>1, <3>1 DEF CallOK, Attended
  <2>3. CASE Advance(e)
    BY <2>1, <2>2, <2>3, AdvanceOK
  <2>4. CASE Goto(e, "wait")
    <3>1. at'[e] = "wait" /\ step'[e] = step[e]
      BY <2>4, GoesTo
    <3>2. Progress(e)'
      BY <2>1, <3>1 DEF CallOK, Progress, Passed
    <3> QED
      BY <2>1, <3>1, <3>2 DEF CallOK, HandleReal, Attended
  <2> QED
    BY <1>10, <2>3, <2>4 DEF AskAgain
<1>11. CASE Waited(e)
  <2>1. /\ at[e] = "wait" /\ project' = project /\ Advance(e)
        /\ left' = left /\ handle' = handle /\ torn' = torn /\ has' = has
        /\ has[p][step[e]] = "ready"
    BY <1>11 DEF Waited
  <2>2. project[p] = "active"
    BY <2>1 DEF CallOK, Progress, PastBilling
  <2> QED
    BY <2>1, <2>2, AdvanceOK
<1>12. CASE Save(e)
  <2>1. /\ at[e] = "save" /\ at'[e] = "idle"
        /\ project' = project /\ has' = has /\ left' = left
    BY <1>12, GoesTo DEF Save
  <2>2. project[p] = "active" /\ \A s \in Wants[e] : has[p][s] = "ready" \/ s \in left[p]
    BY <2>1 DEF CallOK, Progress, PastBilling, Passed
  <2>3. HandleReal(e)'
    BY <2>1, <2>2 DEF HandleReal
  <2>4. Progress(e)' /\ Attended(e)'
    BY <2>1 DEF CallOK, Progress, PastBilling, Attended
  <2> QED
    BY <2>3, <2>4 DEF CallOK
<1>13. CASE DeleteProject(e)
  <2>1. CASE UNCHANGED <<project, torn>>
    BY <1>13, <2>1, GoesTo, ElsewhereOK DEF DeleteProject
  <2>2. CASE SetProject(p, "deleting") /\ torn' = [torn EXCEPT ![e] = TRUE]
    <3>1. /\ at[e] = "delete" /\ at'[e] \in {"forget", "idle"} /\ torn'[e]
          /\ has' = has /\ left' = left
      BY <1>2, <1>13, <2>2, GoesTo DEF DeleteProject
    <3> QED
      BY <3>1 DEF CallOK, HandleReal, Progress, PastBilling, Attended
  <2> QED
    BY <1>13, <2>1, <2>2 DEF DeleteProject
<1>14. CASE Forget(e)
  <2>1. /\ at[e] = "forget" /\ at'[e] = "idle" /\ ~ handle'[e]
        /\ project' = project /\ has' = has /\ left' = left
    BY <1>2, <1>14, GoesTo DEF Forget
  <2> QED
    BY <2>1, ElsewhereOK
<1> QED
  BY <1>3, <1>4, <1>5, <1>6, <1>7, <1>8, <1>9, <1>10, <1>11, <1>12, <1>13, <1>14 DEF Driver

\* So do the operator's, and the faults.
LEMMA OutsideOK ==
  ASSUME TypeOK, NEW e \in Enclave, CallOK(e),
         \/ Apply(e) \/ TearDown(e) \/ ForgetOnly(e) \/ LookError(e)
         \/ FetchError(e) \/ Fail(e) \/ LostReply(e) \/ Edit(e)
  PROVE  CallOK(e)'
<1> USE DEF bounds, cloud
<1> DEFINE p == ProjectOf[e]
<1>1. /\ p \in Project /\ step[e] \in Step /\ Wants[e] \subseteq Step
      /\ left \in [Project -> SUBSET Step]
  BY EnclaveTyped DEF TypeOK
<1>2. handle \in [Enclave -> BOOLEAN] /\ torn \in [Enclave -> BOOLEAN]
  BY DEF TypeOK
<1>3. CASE Apply(e) \/ TearDown(e) \/ LookError(e)
  BY <1>3, GoesTo, ElsewhereOK DEF Apply, TearDown, LookError
<1>4. CASE FetchError(e)
  BY <1>4, GoesTo, BillingOK DEF FetchError
<1>5. CASE ForgetOnly(e)
  <2>1. ~ handle'[e]
    BY <1>2, <1>5 DEF ForgetOnly
  <2> QED
    BY <1>5, <2>1, ElsewhereOK DEF ForgetOnly
<1>6. CASE Edit(e)
  BY <1>6, SameKept DEF Edit, SameFor
<1>7. CASE Fail(e)
  <2>1. /\ at'[e] = "idle" /\ project' = project /\ has' = has
        /\ handle' = handle /\ torn' = torn
    BY <1>7, GoesTo DEF Fail
  <2>2. /\ left[p] \subseteq left'[p]
        /\ at[e] = "wait" => has[p][step[e]] # "pending" \/ step[e] \in left'[p]
    BY <1>1, <1>7 DEF Fail
  <2> QED
    BY <2>1, <2>2, ElsewhereOK
<1>8. CASE LostReply(e)
  <2>1. at'[e] = "idle" /\ handle' = handle
    BY <1>8, GoesTo DEF LostReply
  <2>2. Progress(e)'
    BY <2>1 DEF Progress, PastBilling
  <2>3. CASE /\ at[e] = "create" /\ project[p] = "none"
             /\ UNCHANGED <<has, left, torn>>
    BY <2>1, <2>2, <2>3 DEF CallOK, HandleReal, Attended
  <2>4. CASE at[e] = "delete" /\ torn' = [torn EXCEPT ![e] = TRUE] /\ UNCHANGED <<has, left>>
    <3>1. torn'[e]
      BY <1>2, <2>4
    <3> QED
      BY <2>1, <2>2, <2>4, <3>1 DEF CallOK, HandleReal, Attended
  <2>5. CASE /\ at[e] = "ask" /\ has[p][step[e]] = "none" /\ UNCHANGED <<project, torn>>
             /\ SetHas(p, step[e], "pending")
             /\ left' = [left EXCEPT ![p] = @ \cup {step[e]}]
    <3>1. left'[p] = left[p] \cup {step[e]}
      BY <1>1, <2>5
    <3>2. \A s \in Step : s # step[e] => has'[p][s] = has[p][s]
      BY <2>5, Puts
    <3> QED
      BY <1>1, <2>1, <2>2, <2>5, <3>1, <3>2 DEF CallOK, HandleReal, Attended
  <2>6. CASE /\ at[e] = "ask" /\ UNCHANGED <<project, torn, left>>
             /\ SetHas(p, step[e], "ready")
    <3>1. /\ has'[p][step[e]] = "ready"
          /\ \A s \in Step : s # step[e] => has'[p][s] = has[p][s]
      BY <2>6, Puts
    <3> QED
      BY <1>1, <2>1, <2>2, <2>6, <3>1 DEF CallOK, HandleReal, Attended
  <2> QED
    BY <1>8, <2>3, <2>4, <2>5, <2>6 DEF LostReply
<1> QED
  BY <1>3, <1>4, <1>5, <1>6, <1>7, <1>8

\* What the cloud finishes, gives up or purges spoils no handle and no call.
LEMMA CloudOK ==
  ASSUME TypeOK, NEW p \in Project, NEW e \in Enclave, CallOK(e),
         \/ ProjectMade(p) \/ ProjectNotMade(p) \/ Purge(p)
         \/ \E s \in Step : Made(p, s) \/ NotMade(p, s)
  PROVE  CallOK(e)'
<1> USE DEF bounds, cloud
<1>1. /\ ProjectOf[e] \in Project /\ step[e] \in Step /\ Wants[e] \subseteq Step
      /\ project \in [Project -> {"none", "creating", "active", "deleting"}]
      /\ has \in [Project -> [Step -> {"none", "pending", "ready"}]]
      /\ left \in [Project -> SUBSET Step]
  BY EnclaveTyped DEF TypeOK
<1>2. at' = at /\ step' = step /\ handle' = handle /\ torn' = torn
  BY DEF ProjectMade, ProjectNotMade, Purge, Made, NotMade
<1>3. CASE ProjectOf[e] # p
  <2>1. project'[ProjectOf[e]] = project[ProjectOf[e]]
    BY <1>1, <1>3 DEF ProjectMade, ProjectNotMade, Purge, Made, NotMade, SetProject
  <2>2. has'[ProjectOf[e]] = has[ProjectOf[e]]
    BY <1>1, <1>3 DEF ProjectMade, ProjectNotMade, Purge, Made, NotMade, SetHas
  <2>3. left'[ProjectOf[e]] = left[ProjectOf[e]]
    BY <1>1, <1>3 DEF ProjectMade, ProjectNotMade, Purge, Made, NotMade
  <2> QED
    BY <1>2, <2>1, <2>2, <2>3, SameKept DEF SameFor
<1>4. CASE ProjectOf[e] = p /\ (ProjectMade(p) \/ ProjectNotMade(p))
  <2>1. project[p] = "creating" /\ has' = has /\ left' = left
    BY <1>4 DEF ProjectMade, ProjectNotMade
  <2> QED
    BY <1>2, <1>4, <2>1 DEF CallOK, HandleReal, Progress, PastBilling, Passed, Attended
<1>5. CASE ProjectOf[e] = p /\ Purge(p)
  <2>1. project[p] = "deleting" /\ \A s \in Step : has'[p][s] = "none"
    BY <1>1, <1>5 DEF Purge, Empty
  <2>2. ~ PastBilling(e) /\ ~ (handle[e] /\ ~ torn[e])
    BY <1>5, <2>1 DEF CallOK, HandleReal, Progress
  <2>3. Progress(e)'
    <3>1. ~ PastBilling(e)'
      BY <1>2, <2>2 DEF PastBilling
    <3>2. Passed(e)' = {} \/ at'[e] \notin {"ask", "wait", "save"}
      <4>1. Earlier("billing") = {}
        BY StepsAre DEF Earlier
      <4> QED
        BY <3>1, <4>1 DEF Passed, PastBilling
    <3> QED
      BY <3>1, <3>2 DEF Progress
  <2> QED
    BY <1>2, <1>5, <2>1, <2>2, <2>3 DEF CallOK, HandleReal, Attended
<1>6. ASSUME NEW s \in Step, ProjectOf[e] = p, Made(p, s) PROVE CallOK(e)'
  <2>1. project' = project /\ left'[p] = left[p] \ {s} /\ has'[p][s] = "ready"
        /\ \A t \in Step : t # s => has'[p][t] = has[p][t]
    BY <1>1, <1>6 DEF Made, SetHas
  <2>2. HandleReal(e)'
    BY <1>1, <1>2, <1>6, <2>1 DEF CallOK, HandleReal
  <2>3. Progress(e)'
    <3>1. Passed(e)' = Passed(e) /\ Passed(e) \subseteq Step /\ PastBilling(e)' = PastBilling(e)
      BY <1>1, <1>2 DEF Passed, PastBilling
    <3> QED
      BY <1>2, <1>6, <2>1, <3>1 DEF CallOK, Progress
  <2>4. Attended(e)'
    BY <1>2, <1>6, <2>1 DEF CallOK, Attended
  <2> QED
    BY <2>2, <2>3, <2>4 DEF CallOK
<1>7. ASSUME NEW s \in Step, ProjectOf[e] = p, NotMade(p, s) PROVE CallOK(e)'
  <2>1. project' = project /\ left' = left /\ has[p][s] = "pending" /\ has'[p][s] = "none"
        /\ \A t \in Step : t # s => has'[p][t] = has[p][t]
    BY <1>1, <1>7 DEF NotMade, SetHas
  <2>2. HandleReal(e)'
    BY <1>1, <1>2, <1>7, <2>1 DEF CallOK, HandleReal
  <2>3. Progress(e)'
    <3>1. Passed(e)' = Passed(e) /\ Passed(e) \subseteq Step /\ PastBilling(e)' = PastBilling(e)
      BY <1>1, <1>2 DEF Passed, PastBilling
    <3> QED
      BY <1>2, <1>7, <2>1, <3>1 DEF CallOK, Progress
  <2>4. Attended(e)'
    BY <1>2, <1>7, <2>1 DEF CallOK, Attended
  <2> QED
    BY <2>2, <2>3, <2>4 DEF CallOK
<1> QED
  BY <1>3, <1>4, <1>5, <1>6, <1>7

LEMMA GcpStep ==
  ASSUME Distinct, TypeOK, GcpInv, [Next]_vars
  PROVE  GcpInv'
<1>1. CASE UNCHANGED vars
  BY <1>1, SameKept DEF GcpInv, vars, SameFor
<1>2. ASSUME NEW e \in Enclave,
             \/ Driver(e) \/ Apply(e) \/ TearDown(e) \/ ForgetOnly(e) \/ LookError(e)
             \/ FetchError(e) \/ Fail(e) \/ LostReply(e) \/ Edit(e)
      PROVE  GcpInv'
  <2>1. CallOK(e)'
    BY <1>2, DriverOK, OutsideOK DEF GcpInv
  <2>2. ASSUME NEW o \in Enclave, o # e PROVE CallOK(o)'
    BY <1>2, <2>2, OthersSame, SameKept DEF GcpInv
  <2> QED
    BY <2>1, <2>2 DEF GcpInv
<1>3. ASSUME NEW p \in Project,
             \/ ProjectMade(p) \/ ProjectNotMade(p) \/ Purge(p)
             \/ \E s \in Step : Made(p, s) \/ NotMade(p, s)
      PROVE  GcpInv'
  BY <1>3, CloudOK DEF GcpInv
<1> QED
  BY <1>1, <1>2, <1>3 DEF Next

THEOREM GcpCorrect == ASSUME Distinct PROVE Spec => []GcpInv
<1>1. Init => GcpInv
  <2> SUFFICES ASSUME Init, NEW e \in Enclave PROVE CallOK(e)
    BY DEF GcpInv
  <2>1. ProjectOf[e] \in Project
    BY GcpAssumption
  <2>2. ~ handle[e]
    <3>1. handle = [f \in Enclave |-> FALSE]
      BY Zenon DEF Init
    <3> QED
      BY <3>1
  <2>3. at[e] = "idle"
    <3>1. at = [f \in Enclave |-> "idle"]
      BY Zenon DEF Init
    <3> QED
      BY <3>1
  <2>4. \A s \in Step : has[ProjectOf[e]][s] = "none"
    <3>1. has = [p \in Project |-> Empty]
      BY Zenon DEF Init
    <3> QED
      BY <2>1, <3>1 DEF Empty
  <2> QED
    BY <2>2, <2>3, <2>4 DEF CallOK, HandleReal, Progress, PastBilling, Attended
<1>2. TypeOK /\ GcpInv /\ [Next]_vars => GcpInv'
  BY GcpStep
<1> QED
  BY <1>1, <1>2, GcpTyped, PTL DEF Spec

\* However often provision_enclave is cut short, times out, meets what an earlier
\* call left or finds its project pending deletion: with one project per enclave, a
\* handle stamped complete names an active project with all that was wanted in it.
THEOREM CompleteReal == ASSUME Distinct PROVE Spec => []CompleteIsReal
<1>1. GcpInv => CompleteIsReal
  BY DEF GcpInv, CallOK, HandleReal, CompleteIsReal
<1> QED
  BY <1>1, GcpCorrect, PTL

----------------------------------------------------------------------------
(* The partitions' role bindings. *)

\* What a call is about to write is the policy, but for what it has missed.
ReadIsCurrent ==
  \A p \in Partition : phase[p] = "setProject" =>
    \A b \in Binding \ missed[p] : b \in read[p] <=> b \in policy

IInv == IamTypeOK /\ ReadIsCurrent /\ PolicyIsMeant /\ Ensured

LEMMA InitEstablishes == IamInit => IInv
<1> SUFFICES ASSUME IamInit PROVE IInv
  OBVIOUS
<1>1. /\ account \subseteq Partition /\ actAs \subseteq account
      /\ policy \subseteq Binding /\ meant \subseteq Binding /\ harmed \subseteq Binding
      /\ phase \in [Partition -> BindingPoints] /\ read \in [Partition -> SUBSET Binding]
      /\ granted \in [Partition -> SUBSET Policies] /\ missed \in [Partition -> SUBSET Binding]
  BY DEF IamInit, Binding, BindingPoints
<1>2. failures \in 0 .. MaxFailures /\ changes \in 0 .. MaxChanges
  BY IamAssumption DEF IamInit
<1>3. ReadIsCurrent /\ PolicyIsMeant /\ Ensured
  BY DEF IamInit, ReadIsCurrent, PolicyIsMeant, Ensured
<1> QED BY <1>1, <1>2, <1>3 DEF IInv, IamTypeOK

\* Where a call goes, what it drops and what it is granted have their types.
LEMMA CallParts ==
  ASSUME IamTypeOK, NEW p \in Partition
  PROVE  /\ \A x \in BindingPoints : GoOn(p, x) =>
              /\ phase' \in [Partition -> BindingPoints] /\ phase'[p] = x
              /\ \A q \in Partition \ {p} : phase'[q] = phase[q]
         /\ \A r \in SUBSET Binding : read' = [read EXCEPT ![p] = r] =>
              /\ read' \in [Partition -> SUBSET Binding] /\ read'[p] = r
              /\ \A q \in Partition \ {p} : read'[q] = read[q]
         /\ \A r \in Policies : Grant(p, r) =>
              /\ granted' \in [Partition -> SUBSET Policies] /\ granted'[p] = granted[p] \cup {r}
              /\ \A q \in Partition \ {p} : granted'[q] = granted[q]
         /\ granted' = [granted EXCEPT ![p] = {}] =>
              /\ granted' \in [Partition -> SUBSET Policies] /\ granted'[p] = {}
              /\ \A q \in Partition \ {p} : granted'[q] = granted[q]
         /\ Failure => failures' \in 0 .. MaxFailures
<1>1. Failure => failures' \in 0 .. MaxFailures
  BY IamAssumption DEF Failure, IamTypeOK
<1>2. /\ phase \in [Partition -> BindingPoints] /\ read \in [Partition -> SUBSET Binding]
      /\ granted \in [Partition -> SUBSET Policies]
  BY DEF IamTypeOK
<1>3. \A r \in Policies : granted[p] \cup {r} \in SUBSET Policies
  BY <1>2
<1> QED BY <1>1, <1>2, <1>3 DEF GoOn, Grant

\* What a call has missed grows with every change of the policy.
LEMMA MissDoes ==
  ASSUME IamTypeOK, NEW S \in SUBSET Binding, Miss(S)
  PROVE  /\ missed' \in [Partition -> SUBSET Binding]
         /\ \A q \in Partition : phase'[q] = "setProject" => missed'[q] = missed[q] \cup S
BY DEF Miss, IamTypeOK

\* A call's own step leaves the policy as it is.
LEMMA CallStep ==
  ASSUME IInv, NEW p \in Partition,
         \/ CreateAccount(p) \/ GetAccount(p) \/ SetAccount(p) \/ GetProject(p) \/ GetFails(p)
         \/ NotBound(p) \/ AccountGone(p) \/ Finish(p) \/ Abandon(p)
  PROVE  IInv'
<1>t. IamTypeOK /\ policy \in SUBSET Binding /\ {} \in SUBSET Binding
  BY DEF IInv, IamTypeOK
<1>b. {"idle", "getAccount", "setAccount", "getProject", "setProject", "done"} = BindingPoints
      /\ "account" \in Policies /\ "project" \in Policies
  BY DEF BindingPoints, Policies
<1> USE DEF history, iamBounds
<1>1. UNCHANGED <<policy, meant, harmed, changes>>
  BY DEF CreateAccount, GetAccount, SetAccount, GetProject, GetFails, NotBound, AccountGone,
         Finish, Abandon
<1>2. account' \subseteq Partition /\ actAs' \subseteq account' /\ actAs \subseteq actAs'
  BY <1>t DEF CreateAccount, GetAccount, SetAccount, GetProject, GetFails, NotBound, AccountGone,
         Finish, Abandon, IamTypeOK
<1>3. failures' \in 0 .. MaxFailures
  BY <1>t, CallParts DEF CreateAccount, GetAccount, SetAccount, GetProject, GetFails, NotBound,
     AccountGone, Finish, Abandon, IamTypeOK
<1>4. /\ granted' \in [Partition -> SUBSET Policies]
      /\ \A q \in Partition \ {p} : granted'[q] = granted[q]
      /\ "account" \in granted'[p] => "account" \in granted[p] \/ p \in actAs'
      /\ "project" \in granted'[p] => "project" \in granted[p] \/ p \in policy
  <2>1. CASE CreateAccount(p) \/ Abandon(p)
    BY <1>t, <2>1, CallParts DEF CreateAccount, Abandon
  <2>2. CASE GetAccount(p) \/ SetAccount(p)
    BY <1>t, <1>b, <2>2, CallParts DEF GetAccount, SetAccount, IamTypeOK
  <2>3. CASE GetProject(p)
    BY <1>t, <1>b, <2>3, CallParts DEF GetProject, IamTypeOK
  <2>4. CASE GetFails(p) \/ NotBound(p) \/ AccountGone(p) \/ Finish(p)
    BY <1>t, <2>4 DEF GetFails, NotBound, AccountGone, Finish, IamTypeOK
  <2> QED BY <2>1, <2>2, <2>3, <2>4
<1>5. /\ phase' \in [Partition -> BindingPoints]
      /\ \A q \in Partition \ {p} : phase'[q] = phase[q]
  <2>1. \E x \in BindingPoints : GoOn(p, x)
    BY <1>b DEF CreateAccount, GetAccount, SetAccount, GetProject, GetFails, NotBound,
                AccountGone, Finish, Abandon
  <2> QED BY <1>t, <2>1, CallParts
<1>6. /\ read' \in [Partition -> SUBSET Binding] /\ missed' \in [Partition -> SUBSET Binding]
      /\ \A q \in Partition \ {p} : phase'[q] = "setProject" =>
           read'[q] = read[q] /\ missed[q] \subseteq missed'[q]
      /\ phase'[p] = "setProject" =>
           \A b \in Binding \ missed'[p] : b \in read'[p] <=> b \in policy
  <2>1. CASE CreateAccount(p) \/ GetAccount(p) \/ SetAccount(p) \/ Finish(p)
    <3>1. UNCHANGED <<read, missed>>
      BY <2>1 DEF CreateAccount, GetAccount, SetAccount, Finish
    <3>2. phase'[p] # "setProject"
      BY <1>t, <1>b, <2>1, CallParts DEF CreateAccount, GetAccount, SetAccount, Finish
    <3> QED BY <1>t, <3>1, <3>2 DEF IamTypeOK
  <2>2. CASE NotBound(p) \/ AccountGone(p) \/ Abandon(p)
    <3>1. read' = [read EXCEPT ![p] = {}] /\ Miss({})
      BY <2>2 DEF NotBound, AccountGone, Abandon, Drop
    <3>2. phase'[p] # "setProject"
      BY <1>t, <1>b, <2>2, CallParts DEF NotBound, AccountGone, Abandon
    <3>3. /\ read' \in [Partition -> SUBSET Binding]
          /\ \A q \in Partition \ {p} : read'[q] = read[q]
      BY <1>t, <3>1, CallParts
    <3>4. /\ missed' \in [Partition -> SUBSET Binding]
          /\ \A q \in Partition : phase'[q] = "setProject" => missed'[q] = missed[q] \cup {}
      BY <1>t, <3>1, MissDoes
    <3> QED BY <3>2, <3>3, <3>4
  <2>3. CASE GetProject(p)
    <3>1. CASE p \in policy
      <4>1. UNCHANGED <<read, missed>> /\ GoOn(p, "done")
        BY <2>3, <3>1 DEF GetProject
      <4>2. phase'[p] # "setProject"
        BY <1>t, <1>b, <4>1, CallParts
      <4> QED BY <1>t, <4>1, <4>2 DEF IamTypeOK
    <3>2. CASE p \notin policy
      <4>1. read' = [read EXCEPT ![p] = policy] /\ UNCHANGED missed
        BY <2>3, <3>2 DEF GetProject
      <4> QED BY <1>t, <4>1, CallParts DEF IamTypeOK
    <3> QED BY <3>1, <3>2
  <2>4. CASE GetFails(p)
    <3>1. read' = [read EXCEPT ![p] = {}] /\ missed' = [missed EXCEPT ![p] = policy]
      BY <2>4 DEF GetFails
    <3> QED BY <1>t, <3>1, CallParts DEF IamTypeOK
  <2> QED BY <2>1, <2>2, <2>3, <2>4
<1>7. IamTypeOK'
  BY <1>1, <1>2, <1>3, <1>4, <1>5, <1>6 DEF IInv, IamTypeOK
<1>8. ReadIsCurrent'
  BY <1>1, <1>5, <1>6 DEF IInv, ReadIsCurrent
<1>9. PolicyIsMeant' /\ Ensured'
  BY <1>1, <1>2, <1>4 DEF IInv, PolicyIsMeant, Ensured
<1> QED BY <1>7, <1>8, <1>9 DEF IInv

\* The write: the policy changes only in p and in what the call has missed, and the other
\* calls miss what it changes.
LEMMA SetPolicyStep ==
  ASSUME IInv, NEW p \in Partition, SetPolicy(p) PROVE IInv'
<1> DEFINE S == {b \in Binding : (b \in policy) # (b \in policy')}
<1>t. IamTypeOK /\ S \in SUBSET Binding /\ {} \in SUBSET Binding /\ p \in Binding
  BY DEF IInv, Binding
<1>0. phase[p] = "setProject" /\ p \in account /\ UNCHANGED <<account, actAs, failures, changes>>
  BY DEF SetPolicy, iamBounds
<1>1. policy' = read[p] \cup {p} /\ policy' \subseteq Binding
  BY <1>t DEF SetPolicy, Written, IamTypeOK
<1>2. meant' = meant \cup {p} /\ harmed' = (harmed \cup missed[p]) \ {p}
      /\ meant' \subseteq Binding /\ harmed' \subseteq Binding
  BY <1>t DEF SetPolicy, IamTypeOK
<1>3. /\ phase' \in [Partition -> BindingPoints] /\ phase'[p] = "done"
      /\ \A q \in Partition \ {p} : phase'[q] = phase[q]
  BY <1>t, CallParts DEF SetPolicy, BindingPoints
<1>4. /\ granted' \in [Partition -> SUBSET Policies] /\ granted'[p] = granted[p] \cup {"project"}
      /\ \A q \in Partition \ {p} : granted'[q] = granted[q]
  BY <1>t, CallParts DEF SetPolicy, Policies
<1>5. /\ read' \in [Partition -> SUBSET Binding]
      /\ \A q \in Partition \ {p} : read'[q] = read[q]
  BY <1>t, CallParts DEF SetPolicy
<1>6. /\ missed' \in [Partition -> SUBSET Binding]
      /\ \A q \in Partition \ {p} : phase[q] = "setProject" => missed'[q] = missed[q] \cup S
  <2>1. Miss(S)
    BY DEF SetPolicy
  <2> HIDE DEF S
  <2> QED BY <1>t, <1>3, <2>1, MissDoes
<1>7. IamTypeOK'
  BY <1>0, <1>1, <1>2, <1>3, <1>4, <1>5, <1>6 DEF IInv, IamTypeOK
<1>8. \A b \in Binding \ missed[p] : b # p => (b \in policy <=> b \in policy')
  BY <1>0, <1>1 DEF IInv, ReadIsCurrent
<1>9. ReadIsCurrent'
  <2> SUFFICES ASSUME NEW q \in Partition, phase'[q] = "setProject",
                      NEW b \in Binding, b \notin missed'[q]
               PROVE  b \in read'[q] <=> b \in policy'
    BY DEF ReadIsCurrent
  <2>1. q # p
    BY <1>3
  <2>2. b \notin missed[q] /\ b \notin S /\ read'[q] = read[q] /\ phase[q] = "setProject"
    BY <1>3, <1>5, <1>6, <2>1
  <2>3. b \in policy <=> b \in policy'
    BY <2>2
  <2> QED BY <2>2, <2>3 DEF IInv, ReadIsCurrent
<1>10. PolicyIsMeant'
  BY <1>1, <1>2, <1>8 DEF IInv, PolicyIsMeant
<1>11. Ensured'
  <2> SUFFICES ASSUME NEW q \in Partition
               PROVE  /\ "account" \in granted'[q] => q \in actAs'
                      /\ "project" \in granted'[q] => q \in policy' \cup harmed'
    BY DEF Ensured
  <2>1. "account" \in granted'[q] => q \in actAs'
    BY <1>0, <1>4 DEF IInv, Ensured
  <2>2. q \in Binding
    BY DEF Binding
  <2>3. CASE q = p
    BY <1>1, <2>1, <2>3
  <2>4. CASE q # p
    BY <1>1, <1>2, <1>4, <1>8, <2>1, <2>2, <2>4 DEF IInv, Ensured
  <2> QED BY <2>3, <2>4
<1> QED BY <1>7, <1>9, <1>10, <1>11 DEF IInv

\* A teardown, or an edit of the operator's, changes one binding, and means it.
LEMMA OneChange ==
  ASSUME IInv, NEW x \in Binding, UNCHANGED <<phase, read, failures>>,
         \/ policy' = policy \ {x} /\ meant' = meant \ {x}
         \/ policy' = policy \cup {x} /\ meant' = meant \cup {x},
         harmed' = harmed \ {x}, Miss({x}),
         account' \subseteq account, actAs' = actAs \cap account', changes' \in 0 .. MaxChanges,
         granted' \in [Partition -> SUBSET Policies],
         \A q \in Partition : \/ granted'[q] = granted[q] /\ q # x /\ (q \in actAs => q \in actAs')
                              \/ granted'[q] = {}
  PROVE  IInv'
<1>t. IamTypeOK /\ {x} \in SUBSET Binding
  BY DEF IInv
<1>1. /\ missed' \in [Partition -> SUBSET Binding]
      /\ \A q \in Partition : phase'[q] = "setProject" => missed'[q] = missed[q] \cup {x}
  BY <1>t, MissDoes
<1>2. IamTypeOK'
  BY <1>t, <1>1 DEF IamTypeOK
<1>3. ReadIsCurrent'
  BY <1>1 DEF IInv, ReadIsCurrent
<1>4. PolicyIsMeant'
  BY DEF IInv, PolicyIsMeant
<1>5. Ensured'
  BY DEF IInv, Ensured
<1> QED BY <1>2, <1>3, <1>4, <1>5 DEF IInv

LEMMA DeleteStep ==
  ASSUME IInv, NEW p \in Partition, DeleteAccount(p) PROVE IInv'
<1>1. p \in Binding /\ IamTypeOK
  BY DEF IInv, Binding
<1>2. /\ UNCHANGED <<phase, read, failures, changes>> /\ Miss({p})
      /\ policy' = policy \ {p} /\ meant' = meant \ {p} /\ harmed' = harmed \ {p}
      /\ account' = account \ {p} /\ actAs' = actAs \ {p}
      /\ granted' = [granted EXCEPT ![p] = {}]
  BY DEF DeleteAccount, iamBounds
<1>3. /\ granted' \in [Partition -> SUBSET Policies] /\ granted'[p] = {}
      /\ \A q \in Partition \ {p} : granted'[q] = granted[q]
  BY <1>1, <1>2, CallParts
<1>4. account' \subseteq account /\ actAs' = actAs \cap account' /\ changes' \in 0 .. MaxChanges
  BY <1>1, <1>2 DEF IamTypeOK
<1> QED BY <1>1, <1>2, <1>3, <1>4, OneChange

LEMMA EditStep ==
  ASSUME IInv, NEW o \in Other, EditPolicy(o) PROVE IInv'
<1>1. o \in Binding /\ o \notin Partition /\ IamTypeOK
  BY IamAssumption DEF IInv, Binding
<1>2. /\ UNCHANGED <<account, actAs, phase, read, granted, failures>> /\ Miss({o})
      /\ harmed' = harmed \ {o}
      /\ \/ policy' = policy \ {o} /\ meant' = meant \ {o}
         \/ policy' = policy \cup {o} /\ meant' = meant \cup {o}
  BY DEF EditPolicy
<1>3. changes' \in 0 .. MaxChanges
  BY <1>1, IamAssumption DEF EditPolicy, IamTypeOK
<1>4. account' \subseteq account /\ actAs' = actAs \cap account'
      /\ granted' \in [Partition -> SUBSET Policies]
  BY <1>1, <1>2 DEF IamTypeOK
<1> QED BY <1>1, <1>2, <1>3, <1>4, OneChange

LEMMA StepPreserves == IInv /\ [IamNext]_iamVars => IInv'
<1> SUFFICES ASSUME IInv, [IamNext]_iamVars PROVE IInv'
  OBVIOUS
<1>1. ASSUME NEW p \in Partition, Provision(p) PROVE IInv'
  BY <1>1, CallStep, SetPolicyStep DEF Provision
<1>2. ASSUME NEW p \in Partition, DeleteAccount(p) PROVE IInv'
  BY <1>2, DeleteStep
<1>3. ASSUME NEW o \in Other, EditPolicy(o) PROVE IInv'
  BY <1>3, EditStep
<1>4. CASE UNCHANGED iamVars
  BY <1>4 DEF IInv, IamTypeOK, ReadIsCurrent, PolicyIsMeant, Ensured, iamVars
<1> QED BY <1>1, <1>2, <1>3, <1>4 DEF IamNext

LEMMA Inductive == IamSpec => []IInv
BY InitEstablishes, StepPreserves, PTL DEF IamSpec

\* PolicyIsMeant: the policy differs from what nclav and the operator have made of it only
\* where a call wrote what had changed since it read, or what it failed to read.
THEOREM PolicyKept == IamSpec => []PolicyIsMeant
<1>1. IInv => PolicyIsMeant
  BY DEF IInv
<1> QED BY <1>1, Inductive, PTL

\* Ensured: a binding ensure_iam_role_binding reports as made is there until its account is
\* deleted, or a call that did not know of it writes the project's policy.
THEOREM GrantsAreEnsured == IamSpec => []Ensured
<1>1. IInv => Ensured
  BY DEF IInv
<1> QED BY <1>1, Inductive, PTL

\* The variables keep their types.
THEOREM IamTyped == IamSpec => []IamTypeOK
<1>1. IInv => IamTypeOK
  BY DEF IInv
<1> QED BY <1>1, Inductive, PTL

=============================================================================
