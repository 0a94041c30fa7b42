----------------------------- MODULE AzureProofs -----------------------------
(* Type correctness of AzureEnclave, and that its handles tell the truth.    *)
EXTENDS AzureEnclave, TLAPS

----------------------------------------------------------------------------
(* The inductive invariant. *)

PastGroup == {"rg", "mi", "vnet", "getVnet", "zone", "link", "save"}
PastIdentity == {"vnet", "getVnet", "zone", "link", "save"}
Provisioning == {"sub", "group"} \cup PastGroup

\* A call has made what it has passed, but for what was early.
CallOK ==
  /\ at \in PastGroup => sub = "active" /\ has["group"] = "ready"
  /\ at \in PastIdentity => has["rg"] = "ready" /\ has["mi"] = "ready"
  /\ at \in Provisioning \ {"zone", "link", "save"} => vid = ""
  /\ at = "getVnet" => has["vnet"] = "ready"
  /\ at \in {"zone", "link", "save"} /\ vid # "" /\ "vnet" \notin early =>
       has["vnet"] = "ready"
  /\ at \in {"zone", "link"} => "zone" \in want
  /\ at \in {"link", "save"} /\ "zone" \in want /\ "zone" \notin early =>
       has["zone"] = "ready"
  /\ at = "save" /\ "zone" \in want /\ vid # "" /\ "link" \notin early =>
       has["link"] = "ready"
  /\ at \in {"role", "savePartition"} => sub = "active" /\ has["pmi"] = "ready"
  /\ at = "savePartition" => has["role"] = "ready" \/ denied
  /\ at = "terraform" => phandle = "driver"

\* Which records there can be, and when a call is made.
RecordsOK ==
  /\ at \in Provisioning => ~ handle.done
  /\ at \notin Provisioning \cup {"idle"} => handle.done
  /\ phandle # "none" => handle.done
  /\ torn => handle.done /\ sub \in {"none", "cancelled"}

Truth == CallOK /\ RecordsOK /\ CompleteIsReal /\ IdentityIsReal

AzureInv == TypeOK /\ Truth

----------------------------------------------------------------------------
(* Types. *)

\* What follows a step is a point of the call.
LEMMA AfterTyped ==
  ASSUME NEW x \in {"rg", "mi", "vnet", "zone", "link"}, NEW v \in Id
  PROVE  After(x, v) \in Point
BY DEF After, Point

\* The two handles the driver writes are handles.
LEMMA HandlesTyped ==
  ASSUME NEW v \in Id, NEW w
  PROVE  [done |-> TRUE, vid |-> v, zone |-> "zone" \in w] \in Handles /\ NoHandle \in Handles
<1>1. \A z \in BOOLEAN : [done |-> TRUE, vid |-> v, zone |-> z] \in Handles
  BY DEF Handles
<1>2. ("zone" \in w) \in BOOLEAN
  OBVIOUS
<1>3. NoHandle \in Handles
  BY DEF Handles, NoHandle, Id
<1> QED  BY <1>1, <1>2, <1>3, Zenon

\* No step goes over the bounds.
LEMMA BoundsStep ==
  ASSUME AzureAssumption, BoundsKept, Next
  PROVE  BoundsKept'
<1> USE DEF AzureAssumption, BoundsKept, Fault, bounds
<1>1. CASE GetNetwork
  <2>1. UNCHANGED edits /\ (UNCHANGED faults \/ Fault)
    BY <1>1 DEF GetNetwork
  <2> QED  BY <2>1
<1>2. CASE AssignRole
  BY <1>2 DEF AssignRole
<1>3. CASE TearDownPartition \/ ChangePartition
  BY <1>3 DEF TearDownPartition, ChangePartition
<1>4. CASE DeletePartitionIdentity
  BY <1>4 DEF DeletePartitionIdentity
<1>5. CASE SubscriptionNotMade
  BY <1>5 DEF SubscriptionNotMade
<1>6. CASE CancelError
  BY <1>6 DEF CancelError
<1>7. CASE Fail
  BY <1>7 DEF Fail
<1>8. CASE LostReply
  BY <1>8 DEF LostReply
<1>9. CASE Edit
  BY <1>9 DEF Edit
<1>10. ASSUME NEW x \in Long, NotMade(x) PROVE BoundsKept'
  BY <1>10 DEF NotMade
<1>11. CASE \/ NewSubscription \/ OldSubscription \/ PolledSubscription \/ MoveToGroup \/
             CreateIdentity \/ ResourceGroupConflict \/ Save \/ Refused \/
             CreatePartitionIdentity \/ SavePartition \/ ForgetPartition \/ Cancel \/
             Forget \/ Apply \/ ApplyPartition \/ Terraform \/ TearDown \/ SubscriptionMade \/ Purge
  BY <1>11 DEF NewSubscription, OldSubscription, PolledSubscription, MoveToGroup, CreateIdentity,
     ResourceGroupConflict, Save, Refused, CreatePartitionIdentity, SavePartition,
     ForgetPartition, Cancel, Forget, Apply, ApplyPartition, Terraform, TearDown, SubscriptionMade,
     Purge, PutShort
<1>12. ASSUME NEW x \in Long,
             PutDone(x) \/ PutAccepted(x) \/ PutConflict(x) \/ Polled(x) \/
             PollFailed(x) \/ Made(x)
      PROVE  BoundsKept'
  BY <1>12 DEF PutDone, PutAccepted, PutConflict, Polled, PollFailed, Made
<1> QED
  BY <1>1, <1>2, <1>3, <1>4, <1>5, <1>6, <1>7, <1>8, <1>9, <1>10, <1>11, <1>12 DEF Next, Driver, Cloud

\* Only the operator edits the configuration.
LEMMA YamlStep ==
  ASSUME YamlTyped, Next
  PROVE  YamlTyped'
<1> USE DEF YamlTyped, yaml
<1>1. CASE Edit
  BY <1>1 DEF Edit
<1>2. CASE \/ NewSubscription \/ OldSubscription \/ PolledSubscription \/ MoveToGroup \/
             CreateIdentity \/ ResourceGroupConflict \/ GetNetwork \/ Save \/ Refused \/
             CreatePartitionIdentity \/ AssignRole \/ SavePartition \/
             DeletePartitionIdentity \/ ForgetPartition \/ Cancel \/ Forget \/ Apply \/
             ApplyPartition \/ ChangePartition \/ Terraform \/ TearDownPartition \/ TearDown \/ SubscriptionMade \/
             Purge \/ SubscriptionNotMade \/ CancelError \/ Fail \/ LostReply
  BY <1>2 DEF NewSubscription, OldSubscription, PolledSubscription, MoveToGroup, CreateIdentity,
     ResourceGroupConflict, GetNetwork, Save, Refused, CreatePartitionIdentity, AssignRole,
     SavePartition, DeletePartitionIdentity, ForgetPartition, Cancel, Forget, Apply,
     ApplyPartition, ChangePartition, Terraform, TearDownPartition, TearDown, SubscriptionMade, Purge,
     SubscriptionNotMade, CancelError, Fail, LostReply, PutShort
<1>3. ASSUME NEW x \in Long,
             PutDone(x) \/ PutAccepted(x) \/ PutConflict(x) \/ Polled(x) \/
             PollFailed(x) \/ Made(x) \/ NotMade(x)
      PROVE  YamlTyped'
  BY <1>3 DEF PutDone, PutAccepted, PutConflict, Polled, PollFailed, Made, NotMade
<1> QED
  BY <1>1, <1>2, <1>3 DEF Next, Driver, Cloud

\* The records keep their types.
LEMMA RecordsStep ==
  ASSUME CallTyped, RecordsTyped, Next
  PROVE  RecordsTyped'
<1> USE DEF RecordsTyped, records
<1>1. CASE Save
  <2>1. handle' \in Handles
    BY <1>1, HandlesTyped DEF Save, CallTyped
  <2> QED  BY <1>1, <2>1 DEF Save
<1>2. CASE SavePartition \/ Terraform
  BY <1>2 DEF SavePartition, Terraform
<1>3. CASE DeletePartitionIdentity
  BY <1>3 DEF DeletePartitionIdentity
<1>4. CASE ForgetPartition
  BY <1>4 DEF ForgetPartition
<1>5. CASE Cancel
  BY <1>5 DEF Cancel
<1>6. CASE Forget
  BY <1>6, HandlesTyped DEF Forget, Id
<1>7. CASE LostReply
  BY <1>7 DEF LostReply
<1>8. CASE \/ NewSubscription \/ OldSubscription \/ PolledSubscription \/ MoveToGroup \/
             CreateIdentity \/ ResourceGroupConflict \/ GetNetwork \/ Refused \/
             CreatePartitionIdentity \/ AssignRole \/ Apply \/ ApplyPartition \/ ChangePartition \/
             TearDownPartition \/ TearDown \/ SubscriptionMade \/ Purge \/
             SubscriptionNotMade \/ CancelError \/ Fail \/ Edit
  BY <1>8 DEF NewSubscription, OldSubscription, PolledSubscription, MoveToGroup, CreateIdentity,
     ResourceGroupConflict, GetNetwork, Refused, CreatePartitionIdentity, AssignRole,
     Apply, ApplyPartition, ChangePartition, TearDownPartition, TearDown, SubscriptionMade, Purge,
     SubscriptionNotMade, CancelError, Fail, Edit, PutShort
<1>9. ASSUME NEW x \in Long,
             PutDone(x) \/ PutAccepted(x) \/ PutConflict(x) \/ Polled(x) \/
             PollFailed(x) \/ Made(x) \/ NotMade(x)
      PROVE  RecordsTyped'
  BY <1>9 DEF PutDone, PutAccepted, PutConflict, Polled, PollFailed, Made, NotMade
<1> QED
  BY <1>1, <1>2, <1>3, <1>4, <1>5, <1>6, <1>7, <1>8, <1>9 DEF Next, Driver, Cloud

\* The driver's call keeps its types.
LEMMA CallStep ==
  ASSUME YamlTyped, CallTyped, Next
  PROVE  CallTyped'
<1> USE DEF CallTyped, Long, Point, Id, Extra, Goto, Poll, Learn, Return, call
<1>1. CASE NewSubscription
  BY <1>1 DEF NewSubscription
<1>2. CASE OldSubscription
  BY <1>2 DEF OldSubscription
<1>3. CASE PolledSubscription
  BY <1>3 DEF PolledSubscription
<1>4. CASE MoveToGroup
  BY <1>4 DEF MoveToGroup, PutShort
<1>5. CASE CreateIdentity
  BY <1>5, AfterTyped DEF CreateIdentity, PutShort
<1>6. CASE ResourceGroupConflict
  BY <1>6 DEF ResourceGroupConflict
<1>7. CASE GetNetwork
  BY <1>7, AfterTyped DEF GetNetwork
<1>8. CASE Save
  BY <1>8 DEF Save
<1>9. CASE Refused
  BY <1>9 DEF Refused
<1>10. CASE CreatePartitionIdentity
  BY <1>10 DEF CreatePartitionIdentity, PutShort
<1>11. CASE AssignRole
  BY <1>11 DEF AssignRole
<1>12. CASE SavePartition \/ Terraform
  BY <1>12 DEF SavePartition, Terraform
<1>13. CASE DeletePartitionIdentity
  BY <1>13 DEF DeletePartitionIdentity
<1>14. CASE ForgetPartition
  BY <1>14 DEF ForgetPartition
<1>15. CASE Cancel
  BY <1>15 DEF Cancel
<1>16. CASE Forget
  BY <1>16 DEF Forget
<1>17. CASE Apply
  BY <1>17 DEF Apply, YamlTyped
<1>18. CASE ApplyPartition \/ ChangePartition
  BY <1>18 DEF ApplyPartition, ChangePartition
<1>19. CASE TearDownPartition
  BY <1>19 DEF TearDownPartition
<1>20. CASE TearDown
  BY <1>20 DEF TearDown
<1>21. CASE CancelError
  BY <1>21 DEF CancelError
<1>22. CASE Fail
  BY <1>22 DEF Fail
<1>23. CASE LostReply
  BY <1>23 DEF LostReply
<1>24. ASSUME NEW x \in Long, PutDone(x) PROVE CallTyped'
  BY <1>24, AfterTyped DEF PutDone
<1>25. ASSUME NEW x \in Long, PutAccepted(x) PROVE CallTyped'
  BY <1>25 DEF PutAccepted
<1>26. ASSUME NEW x \in Long, PutConflict(x) PROVE CallTyped'
  BY <1>26 DEF PutConflict
<1>27. ASSUME NEW x \in Long, Polled(x) PROVE CallTyped'
  <2>1. CASE x = "vnet"
    <3>1. After("vnet", "op") \in Point
      BY AfterTyped DEF Id
    <3> QED  BY <1>27, <2>1, <3>1 DEF Polled
  <2>2. CASE x # "vnet"
    <3>1. After(x, vid) \in Point
      BY AfterTyped
    <3> QED  BY <1>27, <2>2, <3>1 DEF Polled
  <2> QED  BY <2>1, <2>2
<1>28. ASSUME NEW x \in Long, PollFailed(x) PROVE CallTyped'
  BY <1>28 DEF PollFailed
<1>29. CASE \/ SubscriptionMade \/ Purge \/ SubscriptionNotMade \/ Edit
  BY <1>29 DEF SubscriptionMade, Purge, SubscriptionNotMade, Edit, PutShort
<1>30. ASSUME NEW x \in Long,
             Made(x) \/ NotMade(x)
      PROVE  CallTyped'
  BY <1>30 DEF Made, NotMade
<1> QED
  BY <1>1, <1>2, <1>3, <1>4, <1>5, <1>6, <1>7, <1>8, <1>9, <1>10, <1>11, <1>12, <1>13,
     <1>14, <1>15, <1>16, <1>17, <1>18, <1>19, <1>20, <1>21, <1>22, <1>23, <1>24, <1>25,
     <1>26, <1>27, <1>28, <1>29, <1>30 DEF Next, Driver, Cloud

\* What is in the cloud keeps its types.
LEMMA CloudStep ==
  ASSUME CloudTyped, Next
  PROVE  CloudTyped'
<1> USE DEF CloudTyped, Thing, Long, Nothing
<1>1. CASE NewSubscription
  BY <1>1 DEF NewSubscription
<1>2. CASE MoveToGroup
  BY <1>2 DEF MoveToGroup, PutShort
<1>3. CASE CreateIdentity
  BY <1>3 DEF CreateIdentity, PutShort
<1>4. CASE ResourceGroupConflict
  BY <1>4 DEF ResourceGroupConflict
<1>5. CASE CreatePartitionIdentity
  BY <1>5 DEF CreatePartitionIdentity, PutShort
<1>6. CASE AssignRole
  BY <1>6 DEF AssignRole
<1>7. CASE DeletePartitionIdentity
  BY <1>7 DEF DeletePartitionIdentity
<1>8. CASE Cancel
  BY <1>8 DEF Cancel
<1>9. CASE SubscriptionMade
  BY <1>9 DEF SubscriptionMade
<1>10. CASE Purge
  BY <1>10 DEF Purge
<1>11. CASE SubscriptionNotMade
  BY <1>11 DEF SubscriptionNotMade
<1>12. CASE LostReply
  BY <1>12 DEF LostReply
<1>13. ASSUME NEW x \in Long, PutDone(x) PROVE CloudTyped'
  BY <1>13 DEF PutDone
<1>14. ASSUME NEW x \in Long, PutAccepted(x) PROVE CloudTyped'
  BY <1>14 DEF PutAccepted
<1>15. ASSUME NEW x \in Long, Made(x) PROVE CloudTyped'
  BY <1>15 DEF Made
<1>16. ASSUME NEW x \in Long, NotMade(x) PROVE CloudTyped'
  BY <1>16 DEF NotMade
<1>17. CASE \/ OldSubscription \/ PolledSubscription \/ GetNetwork \/ Save \/ Refused \/
             SavePartition \/ ForgetPartition \/ Forget \/ Apply \/ ApplyPartition \/ ChangePartition \/
             Terraform \/ TearDownPartition \/ TearDown \/ CancelError \/ Fail \/ Edit
  BY <1>17 DEF OldSubscription, PolledSubscription, GetNetwork, Save, Refused, SavePartition,
     ForgetPartition, Forget, Apply, ApplyPartition, ChangePartition, Terraform,
     TearDownPartition, TearDown,
     CancelError, Fail, Edit, PutShort
<1>18. ASSUME NEW x \in Long,
             PutConflict(x) \/ Polled(x) \/ PollFailed(x)
      PROVE  CloudTyped'
  BY <1>18 DEF PutConflict, Polled, PollFailed
<1> QED
  BY <1>1, <1>2, <1>3, <1>4, <1>5, <1>6, <1>7, <1>8, <1>9, <1>10, <1>11, <1>12, <1>13,
     <1>14, <1>15, <1>16, <1>17, <1>18 DEF Next, Driver, Cloud

\* A call that stays where it is, with all it depends on.
LEMMA Unmoved ==
  ASSUME CallOK, at' = at, want' = want, vid' = vid, sub' = sub, has' = has, early' = early,
         denied' = denied, phandle' = phandle, ptorn' = ptorn
  PROVE  CallOK'
BY ZenonT(60) DEF CallOK

\* A complete handle stays true while what it may name stays.
LEMMA StillReal ==
  ASSUME CompleteIsReal, sub' = sub, handle' = handle, torn' = torn, early' = early,
         \A y \in {"group", "rg", "mi", "vnet", "zone", "link"} :
           has[y] = "ready" => has'[y] = "ready"
  PROVE  CompleteIsReal'
BY ZenonT(60) DEF CompleteIsReal

\* Every step keeps the inductive part: what a call has passed is there, and what is
\* recorded as complete was passed by a call.
LEMMA TruthStep ==
  ASSUME CallTyped, RecordsTyped, CloudTyped, Truth, Next
  PROVE  Truth'
<1> USE DEF Truth, CallOK, RecordsOK, CompleteIsReal, IdentityIsReal, CallTyped, RecordsTyped, CloudTyped,
        Thing, Long, Point, Id, PastGroup, PastIdentity, Provisioning, Handles, NoHandle, Nothing,
        Goto, Poll, Learn, Return, call, records, After, Accepts
<1>1. CASE NewSubscription
  BY <1>1 DEF NewSubscription
<1>2. CASE OldSubscription
  BY <1>2 DEF OldSubscription
<1>3. CASE PolledSubscription
  BY <1>3 DEF PolledSubscription
<1>4. CASE MoveToGroup
  BY <1>4 DEF MoveToGroup, PutShort
<1>5. CASE CreateIdentity
  BY <1>5 DEF CreateIdentity, PutShort
<1>6. CASE ResourceGroupConflict
  BY <1>6 DEF ResourceGroupConflict
<1>7. CASE GetNetwork
  BY <1>7 DEF GetNetwork
<1>8. CASE Save
  BY <1>8 DEF Save
<1>9. CASE Refused
  BY <1>9 DEF Refused
<1>10. CASE CreatePartitionIdentity
  <2>1. /\ sub = "active" /\ at = "pmi" /\ at' = "role" /\ has'["pmi"] = "ready"
        /\ vid' = vid /\ UNCHANGED <<want, records, sub, early, denied>>
    BY <1>10 DEF CreatePartitionIdentity, PutShort
  <2>2. \A y \in Thing \ {"pmi"} : has'[y] = has[y]
    BY <1>10 DEF CreatePartitionIdentity, PutShort
  <2>3. CallOK' /\ RecordsOK'
    BY <2>1, <2>2
  <2>4. CompleteIsReal'
    <3>1. sub' = sub /\ handle' = handle /\ torn' = torn /\ early' = early
      BY <2>1
    <3>2. \A y \in {"group", "rg", "mi", "vnet", "zone", "link"} : has'[y] = has[y]
      BY <2>2
    <3> QED  BY <3>1, <3>2, StillReal, Zenon DEF Truth
  <2>5. IdentityIsReal'
    BY <2>1, <2>2
  <2> QED  BY <2>3, <2>4, <2>5
<1>11. CASE AssignRole
  <2>1. /\ at = "role" /\ at' = "savePartition" /\ vid' = vid /\ UNCHANGED <<want, records, sub, early>>
    BY <1>11 DEF AssignRole
  <2>2. CASE has' = [has EXCEPT !["role"] = "ready"]
    BY <2>1, <2>2
  <2>3. CASE denied' = TRUE /\ UNCHANGED has
    BY <2>1, <2>3
  <2> QED  BY <1>11, <2>2, <2>3 DEF AssignRole
<1>12. CASE SavePartition \/ Terraform
  <2>1. CASE SavePartition
    BY <2>1 DEF SavePartition
  <2>2. CASE Terraform
    <3>1. /\ at = "terraform" /\ at' = "idle" /\ vid' = "" /\ phandle' \in {phandle, "terraform"}
          /\ UNCHANGED <<handle, torn, ptorn, sub, has, early, denied>>
      BY <2>2 DEF Terraform
    <3>2. CallOK'
      BY <3>1
    <3>3. RecordsOK' /\ IdentityIsReal'
      BY <3>1
    <3>4. CompleteIsReal'
      BY <3>1, StillReal
    <3> QED  BY <3>2, <3>3, <3>4
  <2> QED  BY <1>12, <2>1, <2>2
<1>13. CASE DeletePartitionIdentity
  <2>1. /\ at \in {"deletePmi", "removePmi"}
        /\ at' \in {"forgetPartition", "cancel", "forget"} /\ ptorn' = TRUE
        /\ UNCHANGED <<handle, phandle, torn, sub, early>>
    BY <1>13 DEF DeletePartitionIdentity
  <2>2. \A y \in Thing \ {"pmi", "role"} : has'[y] = has[y]
    BY <1>13 DEF DeletePartitionIdentity
  <2>3. CallOK' /\ RecordsOK'
    BY <2>1, <2>2
  <2>4. CompleteIsReal'
    <3>1. sub' = sub /\ handle' = handle /\ torn' = torn /\ early' = early
      BY <2>1
    <3>2. \A y \in {"group", "rg", "mi", "vnet", "zone", "link"} : has'[y] = has[y]
      BY <2>2
    <3> QED  BY <3>1, <3>2, StillReal, Zenon DEF Truth
  <2>5. IdentityIsReal'
    BY <2>1
  <2> QED  BY <2>3, <2>4, <2>5
<1>14. CASE ForgetPartition
  BY <1>14 DEF ForgetPartition
<1>15. CASE Cancel
  BY <1>15 DEF Cancel
<1>16. CASE Forget
  BY <1>16 DEF Forget
<1>17. CASE Apply
  BY <1>17 DEF Apply
<1>18. CASE ApplyPartition \/ ChangePartition
  <2>1. /\ at = "idle" /\ handle.done /\ at' \in {"pmi", "terraform"}
        /\ at' = "terraform" => phandle = "driver"
        /\ UNCHANGED <<want, vid, records, sub, has, early, denied>>
    BY <1>18 DEF ApplyPartition, ChangePartition
  <2>2. CallOK' /\ RecordsOK'
    BY <2>1
  <2>3. CompleteIsReal' /\ IdentityIsReal'
    BY <2>1, StillReal
  <2> QED  BY <2>2, <2>3
<1>19. CASE TearDownPartition
  <2>1. /\ at = "idle" /\ phandle # "none" /\ at' \in {"deletePmi", "forgetPartition"}
        /\ UNCHANGED <<want, vid, records, sub, has, early, denied>>
    BY <1>19 DEF TearDownPartition
  <2>2. CallOK' /\ RecordsOK'
    BY <2>1
  <2>3. CompleteIsReal' /\ IdentityIsReal'
    BY <2>1, StillReal
  <2> QED  BY <2>2, <2>3
<1>20. CASE TearDown
  BY <1>20 DEF TearDown
<1>21. CASE SubscriptionMade
  BY <1>21 DEF SubscriptionMade
<1>22. CASE Purge
  BY <1>22 DEF Purge
<1>23. CASE SubscriptionNotMade
  BY <1>23 DEF SubscriptionNotMade
<1>24. CASE CancelError
  BY <1>24 DEF CancelError
<1>25. CASE Fail
  BY <1>25 DEF Fail
<1>26. CASE LostReply
  <2>1. /\ at' = "idle" /\ vid' = "" /\ at # "idle" /\ UNCHANGED <<handle, phandle, ptorn, early, denied>>
    BY <1>26 DEF LostReply
  <2>2. CASE at = "sub" /\ sub = "none" /\ sub' = "creating" /\ UNCHANGED <<has, torn>>
    BY <2>1, <2>2
  <2>3. CASE UNCHANGED <<sub, torn>> /\ \A y \in Thing : has[y] = "ready" => has'[y] = "ready"
    BY <2>1, <2>3
  <2>4. CASE at = "cancel" /\ sub' = "cancelled" /\ torn' = TRUE /\ UNCHANGED has
    BY <2>1, <2>4
  <2>5. ASSUME has[at] = "none", at \in Thing,
               has' = [has EXCEPT ![at] = IF at \in Long THEN "pending" ELSE "ready"]
        PROVE  \A y \in Thing : has[y] = "ready" => has'[y] = "ready"
    BY <2>5
  <2>6. \/ at = "sub" /\ sub = "none" /\ sub' = "creating" /\ UNCHANGED <<has, torn>>
        \/ UNCHANGED <<sub, torn>> /\ has[at] = "none" /\ at \in Thing
             /\ has' = [has EXCEPT ![at] = IF at \in Long THEN "pending" ELSE "ready"]
        \/ at = "cancel" /\ sub' = "cancelled" /\ torn' = TRUE /\ UNCHANGED has
    BY <1>26 DEF LostReply
  <2> QED  BY <2>2, <2>3, <2>4, <2>5, <2>6
<1>27. CASE Edit
  <2>1. UNCHANGED <<call, records, sub, has, early, denied>>
    BY <1>27 DEF Edit
  <2>2. CallOK'
    BY <2>1
  <2>3. RecordsOK'
    BY <2>1
  <2>4. CompleteIsReal' /\ IdentityIsReal'
    BY <2>1
  <2> QED  BY <2>2, <2>3, <2>4
<1>28. ASSUME NEW x \in Long, PutDone(x) PROVE Truth'
  BY <1>28 DEF PutDone
<1>29. ASSUME NEW x \in Long, PutAccepted(x) PROVE Truth'
  BY <1>29 DEF PutAccepted
<1>30. ASSUME NEW x \in Long, PutConflict(x) PROVE Truth'
  BY <1>30 DEF PutConflict
<1>31. ASSUME NEW x \in Long, Polled(x) PROVE Truth'
  BY <1>31 DEF Polled
<1>32. ASSUME NEW x \in Long, PollFailed(x) PROVE Truth'
  BY <1>32 DEF PollFailed
<1>33. ASSUME NEW x \in Long, Made(x) PROVE Truth'
  <2>1. UNCHANGED <<call, records, sub, denied>>
    BY <1>33 DEF Made
  <2>2. \A y \in Thing : has[y] = "ready" \/ y \in early \ early' => has'[y] = "ready"
    BY <1>33 DEF Made
  <2>3. CallOK'
    BY <2>1, <2>2
  <2>4. RecordsOK'
    BY <2>1
  <2>5. CompleteIsReal'
    BY <2>1, <2>2
  <2>6. IdentityIsReal'
    BY <2>1, <2>2
  <2> QED  BY <2>3, <2>4, <2>5, <2>6
<1>34. ASSUME NEW x \in Long, NotMade(x) PROVE Truth'
  <2>1. UNCHANGED <<call, records, sub, early, denied>>
    BY <1>34 DEF NotMade
  <2>2. \A y \in Thing : has[y] = "ready" => has'[y] = "ready"
    BY <1>34 DEF NotMade
  <2>3. CallOK'
    BY <2>1, <2>2
  <2>4. RecordsOK'
    BY <2>1
  <2>5. CompleteIsReal'
    BY <2>1, <2>2
  <2>6. IdentityIsReal'
    BY <2>1, <2>2
  <2> QED  BY <2>3, <2>4, <2>5, <2>6
<1> QED
  BY <1>1, <1>2, <1>3, <1>4, <1>5, <1>6, <1>7, <1>8, <1>9, <1>10, <1>11, <1>12, <1>13, <1>14, <1>15, <1>16, <1>17, <1>18, <1>19, <1>20, <1>21, <1>22, <1>23, <1>24, <1>25, <1>26, <1>27, <1>28, <1>29, <1>30, <1>31, <1>32, <1>33, <1>34 DEF Next, Driver, Cloud

----------------------------------------------------------------------------
(* The theorems. *)

\* It holds to begin with.
LEMMA InitHolds == ASSUME AzureAssumption PROVE Init => AzureInv
<1> SUFFICES ASSUME Init PROVE AzureInv
  OBVIOUS
<1>1. YamlTyped /\ CallTyped
  BY DEF Init, YamlTyped, CallTyped, Point, Id
<1>2. RecordsTyped
  BY HandlesTyped DEF Init, RecordsTyped, Id
<1>3. CloudTyped
  BY DEF Init, CloudTyped, Nothing
<1>4. BoundsKept
  <2>1. faults = 0 /\ edits = 0
    BY DEF Init
  <2> QED  BY <2>1, AzureAssumption DEF BoundsKept, AzureAssumption
<1>5. Truth
  BY DEF Init, Truth, CallOK, RecordsOK, CompleteIsReal, IdentityIsReal, NoHandle, PastGroup,
     PastIdentity, Provisioning
<1> QED  BY <1>1, <1>2, <1>3, <1>4, <1>5 DEF AzureInv, TypeOK

\* Every step keeps it.
LEMMA StepKeeps == ASSUME AzureAssumption, AzureInv, [Next]_vars PROVE AzureInv'
<1>1. CASE Next
  BY <1>1, YamlStep, CallStep, RecordsStep, CloudStep, BoundsStep, TruthStep DEF AzureInv, TypeOK
<1>2. CASE UNCHANGED vars
  <2>1. TypeOK'
    BY <1>2 DEF AzureInv, TypeOK, YamlTyped, CallTyped, RecordsTyped, CloudTyped, BoundsKept,
       vars
  <2>2. UNCHANGED <<call, records, sub, has, early, denied>>
    BY <1>2 DEF vars, call, records
  <2>3. /\ at' = at /\ want' = want /\ vid' = vid /\ sub' = sub /\ has' = has /\ early' = early
        /\ denied' = denied /\ handle' = handle /\ phandle' = phandle /\ torn' = torn /\ ptorn' = ptorn
    BY <2>2 DEF call, records
  <2>4. CallOK'
    BY <2>3, Unmoved, Zenon DEF AzureInv, Truth
  <2>5. RecordsOK'
    BY <2>3 DEF AzureInv, Truth, RecordsOK
  <2>6. CompleteIsReal' /\ IdentityIsReal'
    BY <2>3 DEF AzureInv, Truth, CompleteIsReal, IdentityIsReal
  <2> QED  BY <2>1, <2>4, <2>5, <2>6 DEF AzureInv, Truth
<1> QED  BY <1>1, <1>2

\* So it holds for ever.
LEMMA Inductive == ASSUME AzureAssumption PROVE Spec => []AzureInv
<1>1. AzureInv /\ [Next]_vars => AzureInv'
  BY AzureAssumption, StepKeeps
<1>2. Init => AzureInv
  BY AzureAssumption, InitHolds
<1> QED  BY <1>1, <1>2, PTL DEF Spec

\* The variables of the driver's call, of its two records and of the cloud keep their
\* types.
THEOREM AzureTyped == ASSUME AzureAssumption PROVE Spec => []TypeOK
<1>1. AzureInv => TypeOK
  BY DEF AzureInv
<1> QED  BY <1>1, AzureAssumption, Inductive, PTL

\* A complete handle names what exists: provision_enclave stamps it only after every
\* step went through, and nothing but a teardown takes any of it away.
THEOREM CompleteReal == ASSUME AzureAssumption PROVE Spec => []CompleteIsReal
<1>1. AzureInv => CompleteIsReal
  BY DEF AzureInv, Truth
<1> QED  BY <1>1, AzureAssumption, Inductive, PTL

\* A partition's handle means an identity that is there and, unless granting it failed,
\* has its role: provision_partition and teardown_partition in any order of calls.
THEOREM IdentityReal == ASSUME AzureAssumption PROVE Spec => []IdentityIsReal
<1>1. AzureInv => IdentityIsReal
  BY DEF AzureInv, Truth
<1> QED  BY <1>1, AzureAssumption, Inductive, PTL

=============================================================================
