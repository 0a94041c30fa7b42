------------------------------ MODULE AwsProofs ------------------------------
(* What holds of AwsEnclave for any enclaves, accounts and names, and any     *)
(* number of faults and edits.                                                *)
EXTENDS AwsEnclave, TLAPS

----------------------------------------------------------------------------
(* The inductive invariant. *)

InAccount == {"move", "assume", "vpc", "subnet", "zone", "save"}
Provisioning == {"create", "wait"} \cup InAccount
OfPartition == {"partition", "attach", "savePartition"}
WithRole == {"terraform", "detach", "delete"}

\* What is not there holds nothing; and nothing was made twice.
AccountOK(a) ==
  /\ account[a] \in {"none", "creating"} =>
       /\ ~ unit[a] /\ role[a] = "none" /\ \A t \in Thing : made[a][t] = 0
  /\ \A t \in Thing : made[a][t] <= 1

\* A call inside an account has it to itself, and has made there what it has passed.
CallOK(e) == LET a == AccountOf[e] IN
  /\ at[e] \in InAccount => Open(e)
  /\ at[e] \in {"wait", "move", "assume", "vpc"} /\ maker[a] = e /\ account[a] # "none" =>
       \A t \in Thing : made[a][t] = 0
  /\ at[e] \in InAccount \ {"move"} => unit[a]
  /\ at[e] \in {"subnet", "zone", "save"} => made[a]["vpc"] = 1
  /\ at[e] \in {"zone", "save"} => made[a]["subnet"] = 1
  /\ at[e] = "save" => made[a]["zone"] = 1
  /\ at[e] = "subnet" => made[a]["subnet"] = 0
  /\ at[e] \in {"subnet", "zone"} => made[a]["zone"] = 0

\* Which call is made with which records, and what the handles say.
RecordOK(e) == LET a == AccountOf[e] IN
  /\ at[e] \in Provisioning => ~ handle[e]
  /\ at[e] \in OfPartition \cup WithRole \cup {"parted", "forget"} => handle[e]
  /\ at[e] \in WithRole => phandle[e] = "driver"
  /\ phandle[e] # "none" => handle[e]
  /\ at[e] = "delete" => ptorn[e]
  /\ handle[e] /\ maker[a] = e => account[a] # "creating"
  /\ handle[e] /\ ~ torn[e] => Open(e) /\ unit[a] /\ \A t \in Thing : made[a][t] = 1

\* The role of a partition, as long as its account can be entered.
RoleOK(e) == LET a == AccountOf[e] IN
  /\ phandle[e] # "none" /\ ~ ptorn[e] /\ ~ torn[e] => role[a] = "attached"
  /\ at[e] = "savePartition" /\ ~ torn[e] => role[a] = "attached"

AwsInv ==
  /\ TypeOK
  /\ \A a \in Account : AccountOK(a)
  /\ \A e \in Enclave : CallOK(e) /\ RecordOK(e) /\ RoleOK(e)

----------------------------------------------------------------------------
(* What a step of an enclave's call may touch. *)

SameRecord(e) == /\ handle'[e] = handle[e] /\ phandle'[e] = phandle[e]
                 /\ torn'[e] = torn[e] /\ ptorn'[e] = ptorn[e]
SameRoom(a) == account'[a] = account[a] /\ maker'[a] = maker[a]
SameAccount(a) == SameRoom(a) /\ unit'[a] = unit[a] /\ made'[a] = made[a] /\ role'[a] = role[a]

\* An account is requested, or its maker works in it.
MadeBy(e, a) == /\ account[a] = "none" /\ account'[a] = "creating" /\ maker'[a] = e
                /\ unit'[a] = unit[a] /\ made'[a] = made[a] /\ role'[a] = role[a]
InsideBy(e, a) == /\ account[a] = "open" /\ maker[a] = e
                  /\ maker'[a] = e /\ account'[a] \in {"open", "closed"}

OwnStep(e) ==
  \/ Apply(e) \/ ApplyPartition(e) \/ TearDown(e) \/ Provision(e)
  \/ Partition(e) \/ CloseAccount(e) \/ KeepAccount(e) \/ Forget(e)
  \/ Fail(e) \/ LostReply(e) \/ Edit(e)

\* The call moves, and its enclave's records; those of others stay.
LEMMA OthersCalls ==
  ASSUME AwsAssumption, TypeOK, NEW e \in Enclave, OwnStep(e),
         NEW f \in Enclave, f # e
  PROVE  at'[f] = at[f] /\ SameRecord(f)
<1> USE DEF TypeOK, CallsTyped, RecordsTyped, SameRecord, Goto, Return, records, history
<1>1. CASE Apply(e)
  BY <1>1 DEF Apply
<1>2. CASE ApplyPartition(e)
  BY <1>2 DEF ApplyPartition
<1>3. CASE Terraform(e)
  BY <1>3 DEF Terraform
<1>4. CASE TearDown(e)
  BY <1>4 DEF TearDown
<1>5. CASE CreateAccount(e)
  BY <1>5 DEF CreateAccount
<1>6. CASE WaitForAccount(e)
  BY <1>6 DEF WaitForAccount
<1>7. CASE MoveAccount(e)
  BY <1>7 DEF MoveAccount
<1>8. CASE AssumeRole(e)
  BY <1>8 DEF AssumeRole
<1>9. CASE Make(e)
  BY <1>9 DEF Make
<1>10. CASE Save(e)
  BY <1>10 DEF Save
<1>11. CASE Refused(e)
  BY <1>11 DEF Refused
<1>12. CASE CreateRole(e)
  BY <1>12 DEF CreateRole
<1>13. CASE AttachPolicy(e)
  BY <1>13 DEF AttachPolicy
<1>14. CASE SavePartition(e)
  BY <1>14 DEF SavePartition
<1>15. CASE Detach(e)
  BY <1>15 DEF Detach
<1>16. CASE DeleteRole(e)
  BY <1>16 DEF DeleteRole
<1>17. CASE ForgetPartition(e)
  BY <1>17 DEF ForgetPartition
<1>18. CASE CloseAccount(e)
  BY <1>18 DEF CloseAccount
<1>19. CASE Forget(e)
  BY <1>19 DEF Forget
<1>20. CASE Fail(e)
  BY <1>20 DEF Fail
<1>21. CASE LostReply(e)
  BY <1>21 DEF LostReply
<1>22. CASE Edit(e)
  BY <1>22 DEF Edit
<1>23. CASE PassOver(e)
  BY <1>23 DEF PassOver
<1>24. CASE KeepAccount(e)
  BY <1>24 DEF KeepAccount
<1> QED  BY <1>1, <1>2, <1>3, <1>4, <1>5, <1>6, <1>7, <1>8, <1>9, <1>10, <1>11, <1>12, <1>13,
            <1>14, <1>15, <1>16, <1>17, <1>18, <1>19, <1>20, <1>21, <1>22,
            <1>23, <1>24
         DEF OwnStep, Provision, Partition

\* Only the account of that name changes.
LEMMA OtherAccounts ==
  ASSUME AwsAssumption, TypeOK, NEW e \in Enclave, OwnStep(e),
         NEW a \in Account, a # AccountOf[e]
  PROVE  SameAccount(a)
<1> USE DEF TypeOK, CloudTyped, SameAccount, SameRoom, SetAccount, Made, cloud
<1>1. CASE Apply(e)
  BY <1>1 DEF Apply
<1>2. CASE ApplyPartition(e)
  BY <1>2 DEF ApplyPartition
<1>3. CASE Terraform(e)
  BY <1>3 DEF Terraform
<1>4. CASE TearDown(e)
  BY <1>4 DEF TearDown
<1>5. CASE CreateAccount(e)
  BY <1>5 DEF CreateAccount
<1>6. CASE WaitForAccount(e)
  BY <1>6 DEF WaitForAccount
<1>7. CASE MoveAccount(e)
  BY <1>7 DEF MoveAccount
<1>8. CASE AssumeRole(e)
  BY <1>8 DEF AssumeRole
<1>9. CASE Make(e)
  BY <1>9 DEF Make
<1>10. CASE Save(e)
  BY <1>10 DEF Save
<1>11. CASE Refused(e)
  BY <1>11 DEF Refused
<1>12. CASE CreateRole(e)
  BY <1>12 DEF CreateRole
<1>13. CASE AttachPolicy(e)
  BY <1>13 DEF AttachPolicy
<1>14. CASE SavePartition(e)
  BY <1>14 DEF SavePartition
<1>15. CASE Detach(e)
  BY <1>15 DEF Detach
<1>16. CASE DeleteRole(e)
  BY <1>16 DEF DeleteRole
<1>17. CASE ForgetPartition(e)
  BY <1>17 DEF ForgetPartition
<1>18. CASE CloseAccount(e)
  BY <1>18 DEF CloseAccount
<1>19. CASE Forget(e)
  BY <1>19 DEF Forget
<1>20. CASE Fail(e)
  BY <1>20 DEF Fail
<1>21. CASE LostReply(e)
  BY <1>21 DEF LostReply
<1>22. CASE Edit(e)
  BY <1>22 DEF Edit
<1>23. CASE PassOver(e)
  BY <1>23 DEF PassOver
<1>24. CASE KeepAccount(e)
  BY <1>24 DEF KeepAccount
<1> QED  BY <1>1, <1>2, <1>3, <1>4, <1>5, <1>6, <1>7, <1>8, <1>9, <1>10, <1>11, <1>12, <1>13,
            <1>14, <1>15, <1>16, <1>17, <1>18, <1>19, <1>20, <1>21, <1>22,
            <1>23, <1>24
         DEF OwnStep, Provision, Partition

\* An account changes by being requested, or at the hands of its maker.
LEMMA ItsAccount ==
  ASSUME AwsAssumption, TypeOK, NEW e \in Enclave, OwnStep(e),
         NEW a \in Account, a = AccountOf[e]
  PROVE  SameAccount(a) \/ MadeBy(e, a) \/ InsideBy(e, a)
<1> USE DEF TypeOK, CloudTyped, SameAccount, SameRoom, MadeBy, InsideBy, SetAccount,
           Made, Open, cloud
<1>1. CASE Apply(e)
  BY <1>1 DEF Apply
<1>2. CASE ApplyPartition(e)
  BY <1>2 DEF ApplyPartition
<1>3. CASE Terraform(e)
  BY <1>3 DEF Terraform
<1>4. CASE TearDown(e)
  BY <1>4 DEF TearDown
<1>5. CASE CreateAccount(e)
  BY <1>5 DEF CreateAccount
<1>6. CASE WaitForAccount(e)
  BY <1>6 DEF WaitForAccount
<1>7. CASE MoveAccount(e)
  BY <1>7 DEF MoveAccount
<1>8. CASE AssumeRole(e)
  BY <1>8 DEF AssumeRole
<1>9. CASE Make(e)
  BY <1>9 DEF Make
<1>10. CASE Save(e)
  BY <1>10 DEF Save
<1>11. CASE Refused(e)
  BY <1>11 DEF Refused
<1>12. CASE CreateRole(e)
  BY <1>12 DEF CreateRole
<1>13. CASE AttachPolicy(e)
  BY <1>13 DEF AttachPolicy
<1>14. CASE SavePartition(e)
  BY <1>14 DEF SavePartition
<1>15. CASE Detach(e)
  BY <1>15 DEF Detach
<1>16. CASE DeleteRole(e)
  BY <1>16 DEF DeleteRole
<1>17. CASE ForgetPartition(e)
  BY <1>17 DEF ForgetPartition
<1>18. CASE CloseAccount(e)
  BY <1>18 DEF CloseAccount
<1>19. CASE Forget(e)
  BY <1>19 DEF Forget
<1>20. CASE Fail(e)
  BY <1>20 DEF Fail
<1>21. CASE LostReply(e)
  BY <1>21 DEF LostReply
<1>22. CASE Edit(e)
  BY <1>22 DEF Edit
<1>23. CASE PassOver(e)
  BY <1>23 DEF PassOver
<1>24. CASE KeepAccount(e)
  BY <1>24 DEF KeepAccount
<1> QED  BY <1>1, <1>2, <1>3, <1>4, <1>5, <1>6, <1>7, <1>8, <1>9, <1>10, <1>11, <1>12, <1>13,
            <1>14, <1>15, <1>16, <1>17, <1>18, <1>19, <1>20, <1>21, <1>22,
            <1>23, <1>24
         DEF OwnStep, Provision, Partition

\* A call goes from point to point, and returns ok or an error.
LEMMA CallsStep ==
  ASSUME AwsAssumption, TypeOK, NEW e \in Enclave, OwnStep(e)
  PROVE  CallsTyped'
<1> USE DEF TypeOK, CallsTyped, AwsAssumption, Goto, Return, Points, Making
<1>1. CASE Apply(e)
  BY <1>1 DEF Apply
<1>2. CASE ApplyPartition(e)
  BY <1>2 DEF ApplyPartition
<1>3. CASE Terraform(e)
  BY <1>3 DEF Terraform
<1>4. CASE TearDown(e)
  BY <1>4 DEF TearDown
<1>5. CASE CreateAccount(e)
  BY <1>5 DEF CreateAccount
<1>6. CASE WaitForAccount(e)
  BY <1>6 DEF WaitForAccount
<1>7. CASE MoveAccount(e)
  BY <1>7 DEF MoveAccount
<1>8. CASE AssumeRole(e)
  BY <1>8 DEF AssumeRole
<1>9. CASE Make(e)
  <2>1. After(at[e]) \in Points
    BY DEF After
  <2> QED  BY <1>9, <2>1 DEF Make
<1>10. CASE Save(e)
  BY <1>10 DEF Save
<1>11. CASE Refused(e)
  BY <1>11 DEF Refused
<1>12. CASE CreateRole(e)
  BY <1>12 DEF CreateRole
<1>13. CASE AttachPolicy(e)
  BY <1>13 DEF AttachPolicy
<1>14. CASE SavePartition(e)
  BY <1>14 DEF SavePartition
<1>15. CASE Detach(e)
  BY <1>15 DEF Detach
<1>16. CASE DeleteRole(e)
  BY <1>16 DEF DeleteRole
<1>17. CASE ForgetPartition(e)
  BY <1>17 DEF ForgetPartition
<1>18. CASE CloseAccount(e)
  BY <1>18 DEF CloseAccount
<1>19. CASE Forget(e)
  BY <1>19 DEF Forget
<1>20. CASE Fail(e)
  BY <1>20 DEF Fail
<1>21. CASE LostReply(e)
  BY <1>21 DEF LostReply
<1>22. CASE Edit(e)
  BY <1>22 DEF Edit
<1>23. CASE PassOver(e)
  BY <1>23 DEF PassOver
<1>24. CASE KeepAccount(e)
  BY <1>24 DEF KeepAccount
<1> QED  BY <1>1, <1>2, <1>3, <1>4, <1>5, <1>6, <1>7, <1>8, <1>9, <1>10, <1>11, <1>12, <1>13,
            <1>14, <1>15, <1>16, <1>17, <1>18, <1>19, <1>20, <1>21, <1>22,
            <1>23, <1>24
         DEF OwnStep, Provision, Partition

\* Records and history are Booleans.
LEMMA RecordsStep ==
  ASSUME AwsAssumption, TypeOK, NEW e \in Enclave, OwnStep(e)
  PROVE  RecordsTyped'
<1> USE DEF TypeOK, RecordsTyped, AwsAssumption, records, history
<1>1. CASE Apply(e)
  BY <1>1 DEF Apply
<1>2. CASE ApplyPartition(e)
  BY <1>2 DEF ApplyPartition
<1>3. CASE Terraform(e)
  BY <1>3 DEF Terraform
<1>4. CASE TearDown(e)
  BY <1>4 DEF TearDown
<1>5. CASE CreateAccount(e)
  BY <1>5 DEF CreateAccount
<1>6. CASE WaitForAccount(e)
  BY <1>6 DEF WaitForAccount
<1>7. CASE MoveAccount(e)
  BY <1>7 DEF MoveAccount
<1>8. CASE AssumeRole(e)
  BY <1>8 DEF AssumeRole
<1>9. CASE Make(e)
  BY <1>9 DEF Make
<1>10. CASE Save(e)
  BY <1>10 DEF Save
<1>11. CASE Refused(e)
  BY <1>11 DEF Refused
<1>12. CASE CreateRole(e)
  BY <1>12 DEF CreateRole
<1>13. CASE AttachPolicy(e)
  BY <1>13 DEF AttachPolicy
<1>14. CASE SavePartition(e)
  BY <1>14 DEF SavePartition
<1>15. CASE Detach(e)
  BY <1>15 DEF Detach
<1>16. CASE DeleteRole(e)
  BY <1>16 DEF DeleteRole
<1>17. CASE ForgetPartition(e)
  BY <1>17 DEF ForgetPartition
<1>18. CASE CloseAccount(e)
  BY <1>18 DEF CloseAccount
<1>19. CASE Forget(e)
  BY <1>19 DEF Forget
<1>20. CASE Fail(e)
  BY <1>20 DEF Fail
<1>21. CASE LostReply(e)
  BY <1>21 DEF LostReply
<1>22. CASE Edit(e)
  BY <1>22 DEF Edit
<1>23. CASE PassOver(e)
  BY <1>23 DEF PassOver
<1>24. CASE KeepAccount(e)
  BY <1>24 DEF KeepAccount
<1> QED  BY <1>1, <1>2, <1>3, <1>4, <1>5, <1>6, <1>7, <1>8, <1>9, <1>10, <1>11, <1>12, <1>13,
            <1>14, <1>15, <1>16, <1>17, <1>18, <1>19, <1>20, <1>21, <1>22,
            <1>23, <1>24
         DEF OwnStep, Provision, Partition

\* An account is in one of its states, with at most two of each thing.
LEMMA CloudStep ==
  ASSUME AwsAssumption, TypeOK, NEW e \in Enclave, OwnStep(e)
  PROVE  CloudTyped'
<1> USE DEF TypeOK, CloudTyped, AwsAssumption, cloud, SetAccount, Made, Thing, Making, Open
<1>1. CASE Apply(e)
  BY <1>1 DEF Apply
<1>2. CASE ApplyPartition(e)
  BY <1>2 DEF ApplyPartition
<1>3. CASE Terraform(e)
  BY <1>3 DEF Terraform
<1>4. CASE TearDown(e)
  BY <1>4 DEF TearDown
<1>5. CASE CreateAccount(e)
  <2>1. AccountOf[e] \in Account
    OBVIOUS
  <2>2. account' \in [Account -> {"none", "creating", "open", "closed"}]
    <3>1. UNCHANGED account \/ SetAccount(AccountOf[e], "creating")
      BY <1>5 DEF CreateAccount
    <3> QED  BY <2>1, <3>1
  <2>3. maker' \in [Account -> Enclave]
    BY <1>5, <2>1 DEF CreateAccount
  <2> QED  BY <1>5, <2>2, <2>3 DEF CreateAccount
<1>6. CASE WaitForAccount(e)
  BY <1>6 DEF WaitForAccount
<1>7. CASE MoveAccount(e)
  BY <1>7 DEF MoveAccount
<1>8. CASE AssumeRole(e)
  BY <1>8 DEF AssumeRole
<1>9. CASE Make(e)
  <2>1. AccountOf[e] \in Account
    OBVIOUS
  <2>2. ASSUME NEW a \in Account, NEW u \in Thing, made[a][u] < 2,
               made' = [made EXCEPT ![a][u] = @ + 1]
        PROVE  made' \in [Account -> [Thing -> 0 .. 2]]
    <3> HIDE DEF Thing
    <3>0. made[a] \in [Thing -> 0 .. 2]
      BY <2>2
    <3>1. made[a][u] \in 0 .. 2 /\ made[a][u] + 1 \in 0 .. 2
      BY <2>2, <3>0
    <3>2. [made[a] EXCEPT ![u] = made[a][u] + 1] \in [Thing -> 0 .. 2]
      BY <3>0, <3>1
    <3>3. made' = [made EXCEPT ![a] = [made[a] EXCEPT ![u] = made[a][u] + 1]]
      BY <2>2
    <3> QED  BY <3>2, <3>3
  <2> QED  BY <1>9, <2>1, <2>2 DEF Make
<1>10. CASE Save(e)
  BY <1>10 DEF Save
<1>11. CASE Refused(e)
  BY <1>11 DEF Refused
<1>12. CASE CreateRole(e)
  BY <1>12 DEF CreateRole
<1>13. CASE AttachPolicy(e)
  BY <1>13 DEF AttachPolicy
<1>14. CASE SavePartition(e)
  BY <1>14 DEF SavePartition
<1>15. CASE Detach(e)
  BY <1>15 DEF Detach
<1>16. CASE DeleteRole(e)
  BY <1>16 DEF DeleteRole
<1>17. CASE ForgetPartition(e)
  BY <1>17 DEF ForgetPartition
<1>18. CASE CloseAccount(e)
  BY <1>18 DEF CloseAccount
<1>19. CASE Forget(e)
  BY <1>19 DEF Forget
<1>20. CASE Fail(e)
  BY <1>20 DEF Fail
<1>21. CASE LostReply(e)
  <2>1. AccountOf[e] \in Account
    OBVIOUS
  <2>2. ASSUME NEW a \in Account, NEW u \in Thing, made[a][u] < 2,
               made' = [made EXCEPT ![a][u] = @ + 1]
        PROVE  made' \in [Account -> [Thing -> 0 .. 2]]
    <3> HIDE DEF Thing
    <3>0. made[a] \in [Thing -> 0 .. 2]
      BY <2>2
    <3>1. made[a][u] \in 0 .. 2 /\ made[a][u] + 1 \in 0 .. 2
      BY <2>2, <3>0
    <3>2. [made[a] EXCEPT ![u] = made[a][u] + 1] \in [Thing -> 0 .. 2]
      BY <3>0, <3>1
    <3>3. made' = [made EXCEPT ![a] = [made[a] EXCEPT ![u] = made[a][u] + 1]]
      BY <2>2
    <3> QED  BY <3>2, <3>3
  <2>3. /\ account' \in [Account -> {"none", "creating", "open", "closed"}]
        /\ maker' \in [Account -> Enclave]
    <3>1. \/ UNCHANGED <<account, maker>> \/ Made(e, AccountOf[e])
          \/ SetAccount(AccountOf[e], "closed") /\ UNCHANGED maker
      BY <1>21 DEF LostReply
    <3> QED  BY <2>1, <3>1
  <2>4. made' \in [Account -> [Thing -> 0 .. 2]]
    <3>1. \/ UNCHANGED made
          \/ /\ at[e] \in Thing /\ made[AccountOf[e]][at[e]] < 2
             /\ made' = [made EXCEPT ![AccountOf[e]][at[e]] = @ + 1]
      BY <1>21 DEF LostReply
    <3> QED  BY <2>1, <2>2, <3>1
  <2> QED  BY <1>21, <2>3, <2>4 DEF LostReply
<1>22. CASE Edit(e)
  BY <1>22 DEF Edit
<1>23. CASE PassOver(e)
  BY <1>23 DEF PassOver
<1>24. CASE KeepAccount(e)
  BY <1>24 DEF KeepAccount
<1> QED  BY <1>1, <1>2, <1>3, <1>4, <1>5, <1>6, <1>7, <1>8, <1>9, <1>10, <1>11, <1>12, <1>13,
            <1>14, <1>15, <1>16, <1>17, <1>18, <1>19, <1>20, <1>21, <1>22,
            <1>23, <1>24
         DEF OwnStep, Provision, Partition

\* No step goes over the bounds.
LEMMA BoundsStep ==
  ASSUME AwsAssumption, TypeOK, NEW e \in Enclave, OwnStep(e)
  PROVE  BoundsKept'
<1> USE DEF TypeOK, BoundsKept, AwsAssumption, Fault, bounds
<1>1. CASE Apply(e)
  BY <1>1 DEF Apply
<1>2. CASE ApplyPartition(e)
  BY <1>2 DEF ApplyPartition
<1>3. CASE Terraform(e)
  BY <1>3 DEF Terraform
<1>4. CASE TearDown(e)
  BY <1>4 DEF TearDown
<1>5. CASE CreateAccount(e)
  BY <1>5 DEF CreateAccount
<1>6. CASE WaitForAccount(e)
  BY <1>6 DEF WaitForAccount
<1>7. CASE MoveAccount(e)
  BY <1>7 DEF MoveAccount
<1>8. CASE AssumeRole(e)
  BY <1>8 DEF AssumeRole
<1>9. CASE Make(e)
  BY <1>9 DEF Make
<1>10. CASE Save(e)
  BY <1>10 DEF Save
<1>11. CASE Refused(e)
  BY <1>11 DEF Refused
<1>12. CASE CreateRole(e)
  BY <1>12 DEF CreateRole
<1>13. CASE AttachPolicy(e)
  BY <1>13 DEF AttachPolicy
<1>14. CASE SavePartition(e)
  BY <1>14 DEF SavePartition
<1>15. CASE Detach(e)
  BY <1>15 DEF Detach
<1>16. CASE DeleteRole(e)
  BY <1>16 DEF DeleteRole
<1>17. CASE ForgetPartition(e)
  BY <1>17 DEF ForgetPartition
<1>18. CASE CloseAccount(e)
  BY <1>18 DEF CloseAccount
<1>19. CASE Forget(e)
  BY <1>19 DEF Forget
<1>20. CASE Fail(e)
  BY <1>20 DEF Fail
<1>21. CASE LostReply(e)
  BY <1>21 DEF LostReply
<1>22. CASE Edit(e)
  BY <1>22 DEF Edit
<1>23. CASE PassOver(e)
  BY <1>23 DEF PassOver
<1>24. CASE KeepAccount(e)
  BY <1>24 DEF KeepAccount
<1> QED  BY <1>1, <1>2, <1>3, <1>4, <1>5, <1>6, <1>7, <1>8, <1>9, <1>10, <1>11, <1>12, <1>13,
            <1>14, <1>15, <1>16, <1>17, <1>18, <1>19, <1>20, <1>21, <1>22,
            <1>23, <1>24
         DEF OwnStep, Provision, Partition

----------------------------------------------------------------------------
(* What the actions that branch do to the call's enclave and to its account. *)

ApplyEffect(e, a) ==
  /\ at'[e] = "create" /\ ~ handle[e]
  /\ SameRecord(e) /\ SameAccount(a)
ApplyPartitionEffect(e, a) ==
  /\ handle[e]
  /\ at'[e] = "partition" \/ (at'[e] = "terraform" /\ phandle[e] = "driver")
  /\ SameRecord(e) /\ SameAccount(a)
CreateAccountEffect(e, a) ==
  /\ at[e] = "create"
  /\ (MadeBy(e, a) /\ at'[e] = "wait") \/ (SameAccount(a) /\ at'[e] = "idle")
  /\ SameRecord(e)
WaitForAccountEffect(e, a) ==
  /\ at[e] = "wait"
  /\ at'[e] = "idle" \/ (Open(e) /\ at'[e] = "move")
  /\ SameRecord(e) /\ SameAccount(a)
MakeEffect(e, a) ==
  /\ at[e] \in Making /\ Open(e) /\ at'[e] = After(at[e])
  /\ \A t \in Thing : made'[a][t] = IF t = at[e] THEN made[a][t] + 1 ELSE made[a][t]
  /\ SameRecord(e) /\ SameRoom(a) /\ unit'[a] = unit[a] /\ role'[a] = role[a]
AttachPolicyEffect(e, a) ==
  /\ at[e] = "attach" /\ Open(e)
  /\ \/ role'[a] = "attached" /\ at'[e] = "savePartition"
     \/ role'[a] = role[a] /\ at'[e] = "idle"
  /\ SameRecord(e) /\ SameRoom(a) /\ unit'[a] = unit[a] /\ made'[a] = made[a]
DetachEffect(e, a) ==
  /\ at[e] = "detach"
  /\ \/ SameRecord(e) /\ SameAccount(a) /\ at'[e] = "parted"
     \/ ptorn'[e] = TRUE /\ at'[e] = "delete"
  /\ handle'[e] = handle[e] /\ phandle'[e] = phandle[e] /\ torn'[e] = torn[e]
  /\ SameRoom(a) /\ unit'[a] = unit[a] /\ made'[a] = made[a]
CloseAccountEffect(e, a) ==
  /\ at[e] = "parted"
  /\ \/ Open(e) /\ account'[a] = "closed" /\ torn'[e] = TRUE /\ at'[e] = "forget"
     \/ account'[a] = account[a] /\ torn'[e] = torn[e] /\ at'[e] \in {"forget", "idle"}
  /\ handle'[e] = handle[e] /\ phandle'[e] = phandle[e] /\ ptorn'[e] = ptorn[e]
  /\ maker'[a] = maker[a] /\ unit'[a] = unit[a] /\ made'[a] = made[a] /\ role'[a] = role[a]
LostReplyEffect(e, a) ==
  /\ at'[e] = "idle"
  /\ \/ SameRecord(e) /\ at[e] = "create" /\ MadeBy(e, a)
     \/ /\ SameRecord(e) /\ at[e] \in Making /\ Open(e)
        /\ \A t \in Thing : made'[a][t] = IF t = at[e] THEN made[a][t] + 1 ELSE made[a][t]
        /\ SameRoom(a) /\ unit'[a] = unit[a] /\ role'[a] = role[a]
     \/ /\ Open(e) /\ account'[a] = "closed" /\ torn'[e] = TRUE
        /\ handle'[e] = handle[e] /\ phandle'[e] = phandle[e] /\ ptorn'[e] = ptorn[e]
        /\ maker'[a] = maker[a] /\ unit'[a] = unit[a] /\ made'[a] = made[a] /\ role'[a] = role[a]

\* Each does what its effect says.
LEMMA Branches ==
  ASSUME TypeOK, NEW e \in Enclave, NEW a \in Account, a = AccountOf[e]
  PROVE  /\ Apply(e) => ApplyEffect(e, a)
         /\ ApplyPartition(e) => ApplyPartitionEffect(e, a)
         /\ CreateAccount(e) => CreateAccountEffect(e, a)
         /\ WaitForAccount(e) => WaitForAccountEffect(e, a)
         /\ Make(e) => MakeEffect(e, a)
         /\ AttachPolicy(e) => AttachPolicyEffect(e, a)
         /\ Detach(e) => DetachEffect(e, a)
         /\ CloseAccount(e) => CloseAccountEffect(e, a)
         /\ LostReply(e) => LostReplyEffect(e, a)
<1> USE DEF TypeOK, CallsTyped, RecordsTyped, CloudTyped, SameRecord, SameAccount, SameRoom, MadeBy,
           Goto, Return, SetAccount, Made, Open, records, cloud, history
<1>1. Apply(e) => ApplyEffect(e, a)
  BY DEF Apply, ApplyEffect
<1>2. ApplyPartition(e) => ApplyPartitionEffect(e, a)
  BY DEF ApplyPartition, ApplyPartitionEffect
<1>3. CreateAccount(e) => CreateAccountEffect(e, a)
  BY DEF CreateAccount, CreateAccountEffect
<1>4. WaitForAccount(e) => WaitForAccountEffect(e, a)
  BY DEF WaitForAccount, WaitForAccountEffect
<1>5. Make(e) => MakeEffect(e, a)
  <2>1. ASSUME NEW u \in Thing, made' = [made EXCEPT ![a][u] = @ + 1]
        PROVE  \A t \in Thing : made'[a][t] = IF t = u THEN made[a][t] + 1 ELSE made[a][t]
    BY <2>1
  <2>2. Making = Thing
    BY DEF Making, Thing
  <2> QED  BY <2>1, <2>2 DEF Make, MakeEffect
<1>6. AttachPolicy(e) => AttachPolicyEffect(e, a)
  BY DEF AttachPolicy, AttachPolicyEffect
<1>7. Detach(e) => DetachEffect(e, a)
  BY DEF Detach, DetachEffect
<1>8. CloseAccount(e) => CloseAccountEffect(e, a)
  BY DEF CloseAccount, CloseAccountEffect
<1>9. LostReply(e) => LostReplyEffect(e, a)
  <2>1. ASSUME NEW u \in Thing, made' = [made EXCEPT ![a][u] = @ + 1]
        PROVE  \A t \in Thing : made'[a][t] = IF t = u THEN made[a][t] + 1 ELSE made[a][t]
    BY <2>1
  <2>2. Making = Thing
    BY DEF Making, Thing
  <2> SUFFICES ASSUME LostReply(e) PROVE LostReplyEffect(e, a)
    OBVIOUS
  <2>3. CASE at[e] = "create" /\ account[a] = "none" /\ Made(e, a) /\ UNCHANGED <<made, torn>>
    BY <2>3 DEF LostReply, LostReplyEffect
  <2>4. CASE /\ at[e] \in Making /\ Open(e) /\ made' = [made EXCEPT ![a][at[e]] = @ + 1]
             /\ UNCHANGED <<account, maker, torn>>
    BY <2>1, <2>2, <2>4 DEF LostReply, LostReplyEffect
  <2>5. CASE /\ Open(e) /\ SetAccount(a, "closed") /\ torn' = [torn EXCEPT ![e] = TRUE]
             /\ UNCHANGED <<maker, made>>
    BY <2>5 DEF LostReply, LostReplyEffect
  <2> QED  BY <2>3, <2>4, <2>5 DEF LostReply
<1> QED  BY <1>1, <1>2, <1>3, <1>4, <1>5, <1>6, <1>7, <1>8, <1>9

\* A call has made what it has passed, after each step of its own,
LEMMA OwnCall ==
  ASSUME AwsAssumption, TypeOK, NEW e \in Enclave, OwnStep(e), NEW a \in Account, a = AccountOf[e],
         CallOK(e), RecordOK(e), RoleOK(e), AccountOK(a)
  PROVE  CallOK(e)'
<1> USE DEF TypeOK, CallsTyped, RecordsTyped, CloudTyped, CallOK, InAccount, Open, Thing,
           AccountOK, Making, Points, After, Goto, Return, SetAccount, Made, records, cloud,
           history
<1>t. /\ at[e] \in Points /\ account[a] \in {"none", "creating", "open", "closed"}
      /\ unit[a] \in BOOLEAN /\ handle[e] \in BOOLEAN /\ phandle[e] \in {"none", "driver", "terraform"}
      /\ torn[e] \in BOOLEAN /\ ptorn[e] \in BOOLEAN /\ made[a] \in [Thing -> 0 .. 2]
  OBVIOUS
<1>1. CASE Apply(e)
  <2>1. ApplyEffect(e, a)
    BY <1>1, Branches
  <2> HIDE DEF TypeOK
  <2> QED  BY <2>1, <1>t DEF ApplyEffect, SameRecord, SameAccount, SameRoom, MadeBy
<1>2. CASE ApplyPartition(e)
  <2>1. ApplyPartitionEffect(e, a)
    BY <1>2, Branches
  <2> HIDE DEF TypeOK
  <2> QED  BY <2>1, <1>t DEF ApplyPartitionEffect, SameRecord, SameAccount, SameRoom, MadeBy
<1>3. CASE Terraform(e)
  BY <1>3 DEF Terraform
<1>4. CASE TearDown(e)
  BY <1>4 DEF TearDown
<1>5. CASE CreateAccount(e)
  <2>1. CreateAccountEffect(e, a)
    BY <1>5, Branches
  <2> HIDE DEF TypeOK
  <2> QED  BY <2>1, <1>t DEF CreateAccountEffect, SameRecord, SameAccount, SameRoom, MadeBy
<1>6. CASE WaitForAccount(e)
  <2>1. WaitForAccountEffect(e, a)
    BY <1>6, Branches
  <2> HIDE DEF TypeOK
  <2> QED  BY <2>1, <1>t DEF WaitForAccountEffect, SameRecord, SameAccount, SameRoom, MadeBy
<1>7. CASE MoveAccount(e)
  BY <1>7 DEF MoveAccount
<1>8. CASE AssumeRole(e)
  BY <1>8 DEF AssumeRole
<1>9. CASE Make(e)
  <2>1. MakeEffect(e, a)
    BY <1>9, Branches
  <2> HIDE DEF TypeOK
  <2> QED  BY <2>1, <1>t DEF MakeEffect, SameRecord, SameAccount, SameRoom, MadeBy
<1>10. CASE Save(e)
  BY <1>10 DEF Save
<1>11. CASE Refused(e)
  BY <1>11 DEF Refused
<1>12. CASE CreateRole(e)
  BY <1>12 DEF CreateRole
<1>13. CASE AttachPolicy(e)
  <2>1. AttachPolicyEffect(e, a)
    BY <1>13, Branches
  <2> HIDE DEF TypeOK
  <2> QED  BY <2>1, <1>t DEF AttachPolicyEffect, SameRecord, SameAccount, SameRoom, MadeBy
<1>14. CASE SavePartition(e)
  BY <1>14 DEF SavePartition
<1>15. CASE Detach(e)
  <2>1. DetachEffect(e, a)
    BY <1>15, Branches
  <2> HIDE DEF TypeOK
  <2> QED  BY <2>1, <1>t DEF DetachEffect, SameRecord, SameAccount, SameRoom, MadeBy
<1>16. CASE DeleteRole(e)
  BY <1>16 DEF DeleteRole
<1>17. CASE ForgetPartition(e)
  BY <1>17 DEF ForgetPartition
<1>18. CASE CloseAccount(e)
  <2>1. CloseAccountEffect(e, a)
    BY <1>18, Branches
  <2> HIDE DEF TypeOK
  <2> QED  BY <2>1, <1>t DEF CloseAccountEffect, SameRecord, SameAccount, SameRoom, MadeBy
<1>19. CASE Forget(e)
  BY <1>19 DEF Forget
<1>20. CASE Fail(e)
  BY <1>20 DEF Fail
<1>21. CASE LostReply(e)
  <2>1. LostReplyEffect(e, a)
    BY <1>21, Branches
  <2> HIDE DEF TypeOK
  <2> QED  BY <2>1, <1>t DEF LostReplyEffect, SameRecord, SameAccount, SameRoom, MadeBy
<1>22. CASE Edit(e)
  BY <1>22 DEF Edit
<1>23. CASE PassOver(e)
  BY <1>23 DEF PassOver
<1>24. CASE KeepAccount(e)
  BY <1>24 DEF KeepAccount
<1> QED  BY <1>1, <1>2, <1>3, <1>4, <1>5, <1>6, <1>7, <1>8, <1>9, <1>10, <1>11, <1>12, <1>13,
            <1>14, <1>15, <1>16, <1>17, <1>18, <1>19, <1>20, <1>21, <1>22,
            <1>23, <1>24
         DEF OwnStep, Provision, Partition

\* is made with the records it is made with,
LEMMA OwnRecord ==
  ASSUME AwsAssumption, TypeOK, NEW e \in Enclave, OwnStep(e), NEW a \in Account, a = AccountOf[e],
         CallOK(e), RecordOK(e), RoleOK(e), AccountOK(a)
  PROVE  RecordOK(e)'
<1> USE DEF TypeOK, CallsTyped, RecordsTyped, CloudTyped, RecordOK, CallOK, InAccount,
           Provisioning, OfPartition, WithRole, Open, Thing, AccountOK, Making, Points, After,
           Goto, Return, SetAccount, Made, records, cloud, history
<1>t. /\ at[e] \in Points /\ account[a] \in {"none", "creating", "open", "closed"}
      /\ unit[a] \in BOOLEAN /\ handle[e] \in BOOLEAN /\ phandle[e] \in {"none", "driver", "terraform"}
      /\ torn[e] \in BOOLEAN /\ ptorn[e] \in BOOLEAN /\ made[a] \in [Thing -> 0 .. 2]
  OBVIOUS
<1>1. CASE Apply(e)
  <2>1. ApplyEffect(e, a)
    BY <1>1, Branches
  <2> HIDE DEF TypeOK
  <2> QED  BY <2>1, <1>t DEF ApplyEffect, SameRecord, SameAccount, SameRoom, MadeBy
<1>2. CASE ApplyPartition(e)
  <2>1. ApplyPartitionEffect(e, a)
    BY <1>2, Branches
  <2> HIDE DEF TypeOK
  <2> QED  BY <2>1, <1>t DEF ApplyPartitionEffect, SameRecord, SameAccount, SameRoom, MadeBy
<1>3. CASE Terraform(e)
  BY <1>3 DEF Terraform
<1>4. CASE TearDown(e)
  BY <1>4 DEF TearDown
<1>5. CASE CreateAccount(e)
  <2>1. CreateAccountEffect(e, a)
    BY <1>5, Branches
  <2> HIDE DEF TypeOK
  <2> QED  BY <2>1, <1>t DEF CreateAccountEffect, SameRecord, SameAccount, SameRoom, MadeBy
<1>6. CASE WaitForAccount(e)
  <2>1. WaitForAccountEffect(e, a)
    BY <1>6, Branches
  <2> HIDE DEF TypeOK
  <2> QED  BY <2>1, <1>t DEF WaitForAccountEffect, SameRecord, SameAccount, SameRoom, MadeBy
<1>7. CASE MoveAccount(e)
  BY <1>7 DEF MoveAccount
<1>8. CASE AssumeRole(e)
  BY <1>8 DEF AssumeRole
<1>9. CASE Make(e)
  <2>1. MakeEffect(e, a)
    BY <1>9, Branches
  <2> HIDE DEF TypeOK
  <2> QED  BY <2>1, <1>t DEF MakeEffect, SameRecord, SameAccount, SameRoom, MadeBy
<1>10. CASE Save(e)
  BY <1>10 DEF Save
<1>11. CASE Refused(e)
  BY <1>11 DEF Refused
<1>12. CASE CreateRole(e)
  BY <1>12 DEF CreateRole
<1>13. CASE AttachPolicy(e)
  <2>1. AttachPolicyEffect(e, a)
    BY <1>13, Branches
  <2> HIDE DEF TypeOK
  <2> QED  BY <2>1, <1>t DEF AttachPolicyEffect, SameRecord, SameAccount, SameRoom, MadeBy
<1>14. CASE SavePartition(e)
  BY <1>14 DEF SavePartition
<1>15. CASE Detach(e)
  <2>1. DetachEffect(e, a)
    BY <1>15, Branches
  <2> HIDE DEF TypeOK
  <2> QED  BY <2>1, <1>t DEF DetachEffect, SameRecord, SameAccount, SameRoom, MadeBy
<1>16. CASE DeleteRole(e)
  BY <1>16 DEF DeleteRole
<1>17. CASE ForgetPartition(e)
  BY <1>17 DEF ForgetPartition
<1>18. CASE CloseAccount(e)
  <2>1. CloseAccountEffect(e, a)
    BY <1>18, Branches
  <2> HIDE DEF TypeOK
  <2> QED  BY <2>1, <1>t DEF CloseAccountEffect, SameRecord, SameAccount, SameRoom, MadeBy
<1>19. CASE Forget(e)
  BY <1>19 DEF Forget
<1>20. CASE Fail(e)
  BY <1>20 DEF Fail
<1>21. CASE LostReply(e)
  <2>1. LostReplyEffect(e, a)
    BY <1>21, Branches
  <2> HIDE DEF TypeOK
  <2>2. CASE SameRecord(e) /\ MadeBy(e, a)
    BY <2>1, <2>2, <1>t DEF LostReplyEffect, SameRecord, MadeBy
  <2>3. CASE at[e] \in Making
    BY <2>1, <2>3, <1>t DEF LostReplyEffect, SameRecord, SameRoom, MadeBy
  <2>4. CASE account'[a] = "closed"
    BY <2>1, <2>4, <1>t DEF LostReplyEffect, SameRecord, SameRoom, MadeBy
  <2> QED  BY <2>1, <2>2, <2>3, <2>4 DEF LostReplyEffect
<1>22. CASE Edit(e)
  BY <1>22 DEF Edit
<1>23. CASE PassOver(e)
  BY <1>23 DEF PassOver
<1>24. CASE KeepAccount(e)
  BY <1>24 DEF KeepAccount
<1> QED  BY <1>1, <1>2, <1>3, <1>4, <1>5, <1>6, <1>7, <1>8, <1>9, <1>10, <1>11, <1>12, <1>13,
            <1>14, <1>15, <1>16, <1>17, <1>18, <1>19, <1>20, <1>21, <1>22,
            <1>23, <1>24
         DEF OwnStep, Provision, Partition

\* and knows what became of the role.
LEMMA OwnRole ==
  ASSUME AwsAssumption, TypeOK, NEW e \in Enclave, OwnStep(e), NEW a \in Account, a = AccountOf[e],
         CallOK(e), RecordOK(e), RoleOK(e), AccountOK(a)
  PROVE  RoleOK(e)'
<1> USE DEF TypeOK, CallsTyped, RecordsTyped, CloudTyped, RoleOK, RecordOK, CallOK, InAccount,
           Provisioning, OfPartition, WithRole, Open, AccountOK, Making, Points, After, Goto,
           Return, SetAccount, Made, records, cloud, history
<1>t. /\ at[e] \in Points /\ account[a] \in {"none", "creating", "open", "closed"}
      /\ unit[a] \in BOOLEAN /\ handle[e] \in BOOLEAN /\ phandle[e] \in {"none", "driver", "terraform"}
      /\ torn[e] \in BOOLEAN /\ ptorn[e] \in BOOLEAN /\ made[a] \in [Thing -> 0 .. 2]
  OBVIOUS
<1>1. CASE Apply(e)
  <2>1. ApplyEffect(e, a)
    BY <1>1, Branches
  <2> HIDE DEF TypeOK
  <2> QED  BY <2>1, <1>t DEF ApplyEffect, SameRecord, SameAccount, SameRoom, MadeBy
<1>2. CASE ApplyPartition(e)
  <2>1. ApplyPartitionEffect(e, a)
    BY <1>2, Branches
  <2> HIDE DEF TypeOK
  <2> QED  BY <2>1, <1>t DEF ApplyPartitionEffect, SameRecord, SameAccount, SameRoom, MadeBy
<1>3. CASE Terraform(e)
  BY <1>3 DEF Terraform
<1>4. CASE TearDown(e)
  BY <1>4 DEF TearDown
<1>5. CASE CreateAccount(e)
  <2>1. CreateAccountEffect(e, a)
    BY <1>5, Branches
  <2> HIDE DEF TypeOK
  <2> QED  BY <2>1, <1>t DEF CreateAccountEffect, SameRecord, SameAccount, SameRoom, MadeBy
<1>6. CASE WaitForAccount(e)
  <2>1. WaitForAccountEffect(e, a)
    BY <1>6, Branches
  <2> HIDE DEF TypeOK
  <2> QED  BY <2>1, <1>t DEF WaitForAccountEffect, SameRecord, SameAccount, SameRoom, MadeBy
<1>7. CASE MoveAccount(e)
  BY <1>7 DEF MoveAccount
<1>8. CASE AssumeRole(e)
  BY <1>8 DEF AssumeRole
<1>9. CASE Make(e)
  <2>1. MakeEffect(e, a)
    BY <1>9, Branches
  <2> HIDE DEF TypeOK
  <2> QED  BY <2>1, <1>t DEF MakeEffect, SameRecord, SameAccount, SameRoom, MadeBy
<1>10. CASE Save(e)
  BY <1>10 DEF Save
<1>11. CASE Refused(e)
  BY <1>11 DEF Refused
<1>12. CASE CreateRole(e)
  BY <1>12 DEF CreateRole
<1>13. CASE AttachPolicy(e)
  <2>1. AttachPolicyEffect(e, a)
    BY <1>13, Branches
  <2> HIDE DEF TypeOK
  <2> QED  BY <2>1, <1>t DEF AttachPolicyEffect, SameRecord, SameAccount, SameRoom, MadeBy
<1>14. CASE SavePartition(e)
  BY <1>14 DEF SavePartition
<1>15. CASE Detach(e)
  <2>1. DetachEffect(e, a)
    BY <1>15, Branches
  <2> HIDE DEF TypeOK
  <2> QED  BY <2>1, <1>t DEF DetachEffect, SameRecord, SameAccount, SameRoom, MadeBy
<1>16. CASE DeleteRole(e)
  BY <1>16 DEF DeleteRole
<1>17. CASE ForgetPartition(e)
  BY <1>17 DEF ForgetPartition
<1>18. CASE CloseAccount(e)
  <2>1. CloseAccountEffect(e, a)
    BY <1>18, Branches
  <2> HIDE DEF TypeOK
  <2> QED  BY <2>1, <1>t DEF CloseAccountEffect, SameRecord, SameAccount, SameRoom, MadeBy
<1>19. CASE Forget(e)
  BY <1>19 DEF Forget
<1>20. CASE Fail(e)
  BY <1>20 DEF Fail
<1>21. CASE LostReply(e)
  <2>1. LostReplyEffect(e, a)
    BY <1>21, Branches
  <2> HIDE DEF TypeOK
  <2> QED  BY <2>1, <1>t DEF LostReplyEffect, SameRecord, SameAccount, SameRoom, MadeBy
<1>22. CASE Edit(e)
  BY <1>22 DEF Edit
<1>23. CASE PassOver(e)
  BY <1>23 DEF PassOver
<1>24. CASE KeepAccount(e)
  BY <1>24 DEF KeepAccount
<1> QED  BY <1>1, <1>2, <1>3, <1>4, <1>5, <1>6, <1>7, <1>8, <1>9, <1>10, <1>11, <1>12, <1>13,
            <1>14, <1>15, <1>16, <1>17, <1>18, <1>19, <1>20, <1>21, <1>22,
            <1>23, <1>24
         DEF OwnStep, Provision, Partition

----------------------------------------------------------------------------
(* What a step does to the others, and to the account. *)

\* What an enclave works on or holds is no other's: their steps leave what is said of it.
LEMMA OthersKeep ==
  ASSUME AwsAssumption, AwsInv, NEW e \in Enclave, NEW f \in Enclave, f # e, OwnStep(e)
  PROVE  CallOK(f)' /\ RecordOK(f)' /\ RoleOK(f)'
<1> DEFINE a == AccountOf[f]
<1>1. a \in Account /\ AccountOf[e] \in Account
  BY DEF AwsAssumption
<1>2. at'[f] = at[f] /\ SameRecord(f)
  BY OthersCalls DEF AwsInv
<1>3. SameAccount(a) \/ MadeBy(e, a) \/ InsideBy(e, a)
  <2>1. CASE a = AccountOf[e]
    BY <1>1, <2>1, ItsAccount DEF AwsInv
  <2>2. CASE a # AccountOf[e]
    BY <1>1, <2>2, OtherAccounts DEF AwsInv
  <2> QED  BY <2>1, <2>2
<1>4. CallOK(f) /\ RecordOK(f) /\ RoleOK(f)
  BY DEF AwsInv
<1>5. CASE SameAccount(a)
  <2> USE <1>2, <1>4, <1>5 DEF SameAccount, SameRoom, SameRecord, Open
  <2>1. CallOK(f)'
    BY DEF CallOK
  <2>2. RecordOK(f)'
    BY DEF RecordOK
  <2>3. RoleOK(f)'
    BY DEF RoleOK
  <2> QED  BY <2>1, <2>2, <2>3
<1>6. CASE MadeBy(e, a) \/ InsideBy(e, a)
  <2>1. ~ Open(f) /\ ~ Open(f)' /\ maker'[a] # f
    BY <1>6 DEF MadeBy, InsideBy, Open
  <2> USE <1>2, <1>4, <2>1 DEF SameRecord
  <2>2. CallOK(f)'
    BY DEF CallOK, InAccount, Open
  <2>3. RecordOK(f)'
    BY DEF RecordOK
  <2>4. RoleOK(f)'
    BY DEF RoleOK, RecordOK, OfPartition
  <2> QED  BY <2>2, <2>3, <2>4
<1> QED  BY <1>3, <1>5, <1>6

\* An account that is left alone keeps what is said of it.
LEMMA AccountStays ==
  ASSUME NEW a \in Account, AccountOK(a), SameAccount(a)
  PROVE  AccountOK(a)'
BY DEF AccountOK, SameAccount, SameRoom

\* A call makes a thing only where it is missing.
LEMMA MadeStep ==
  ASSUME AwsAssumption, TypeOK, NEW e \in Enclave, OwnStep(e), NEW a \in Account, a = AccountOf[e],
         CallOK(e), AccountOK(a)
  PROVE  \A t \in Thing : made'[a][t] <= 1
<1>1. CASE Make(e)
  BY <1>1, Branches DEF MakeEffect, CallOK, AccountOK, Open, Making, Thing
<1>2. CASE LostReply(e)
  <2>1. LostReplyEffect(e, a)
    BY <1>2, Branches
  <2>2. CASE made'[a] = made[a]
    BY <2>2 DEF AccountOK
  <2>3. CASE made'[a] # made[a]
    BY <2>1, <2>3 DEF LostReplyEffect, CallOK, AccountOK, Open, Making, Thing, MadeBy
  <2> QED  BY <2>2, <2>3
<1>3. CASE ~ Make(e) /\ ~ LostReply(e)
  <2>1. UNCHANGED made
    BY <1>3 DEF OwnStep, Provision, Partition, Apply, ApplyPartition, Terraform, PassOver, KeepAccount,
       TearDown, CreateAccount, WaitForAccount, MoveAccount, AssumeRole, Save, Refused,
       CreateRole, AttachPolicy, SavePartition, Detach, DeleteRole, ForgetPartition,
       CloseAccount, Forget, Fail, Edit, cloud
  <2> QED  BY <2>1 DEF AccountOK
<1> QED  BY <1>1, <1>2, <1>3

\* A call leaves its account as an account may be.
LEMMA OwnAccount ==
  ASSUME AwsAssumption, TypeOK, NEW e \in Enclave, OwnStep(e), NEW a \in Account, a = AccountOf[e],
         CallOK(e), AccountOK(a)
  PROVE  AccountOK(a)'
<1>1. \A t \in Thing : made'[a][t] <= 1
  BY MadeStep
<1>2. CASE SameAccount(a)
  BY <1>2, AccountStays
<1>3. CASE MadeBy(e, a)
  BY <1>1, <1>3 DEF AccountOK, MadeBy
<1>4. CASE InsideBy(e, a)
  BY <1>1, <1>4 DEF AccountOK, InsideBy
<1> QED  BY <1>2, <1>3, <1>4, ItsAccount

----------------------------------------------------------------------------
(* The cloud's own steps. *)

\* An account that was requested is made, or is not, or one that was closed is gone.
LEMMA CloudKeeps ==
  ASSUME AwsAssumption, AwsInv, NEW a \in Account, AccountMade(a) \/ AccountNotMade(a) \/ Purge(a)
  PROVE  AwsInv'
<1> USE DEF SetAccount
<1>1. /\ \A e \in Enclave : at'[e] = at[e] /\ SameRecord(e)
      /\ \A b \in Account : b # a => SameAccount(b)
  BY DEF AccountMade, AccountNotMade, Purge, records, history, SameRecord, SameAccount, SameRoom,
         AwsInv, TypeOK, CloudTyped
<1>2. \/ /\ account[a] = "creating" /\ account'[a] \in {"open", "none"}
         /\ maker'[a] = maker[a] /\ unit'[a] = unit[a] /\ made'[a] = made[a] /\ role'[a] = role[a]
      \/ /\ account[a] = "closed" /\ account'[a] = "none" /\ maker'[a] = maker[a]
         /\ unit'[a] = FALSE /\ (\A t \in Thing : made'[a][t] = 0) /\ role'[a] = "none"
  BY DEF AccountMade, AccountNotMade, Purge, AwsInv, TypeOK, CloudTyped
<1>3. TypeOK'
  <2> USE DEF AwsInv, TypeOK
  <2>1. CallsTyped' /\ RecordsTyped'
    BY DEF CallsTyped, RecordsTyped, AccountMade, AccountNotMade, Purge, records, history
  <2>2. CloudTyped'
    <3>1. CASE AccountMade(a)
      BY <3>1 DEF CloudTyped, AccountMade
    <3>2. CASE AccountNotMade(a)
      BY <3>2 DEF CloudTyped, AccountNotMade
    <3>3. CASE Purge(a)
      <4>1. [t \in Thing |-> 0] \in [Thing -> 0 .. 2]
        OBVIOUS
      <4>2. made' \in [Account -> [Thing -> 0 .. 2]]
        BY <3>3, <4>1 DEF CloudTyped, Purge
      <4> QED  BY <3>3, <4>2 DEF CloudTyped, Purge
    <3> QED  BY <3>1, <3>2, <3>3
  <2>3. BoundsKept'
    BY DEF BoundsKept, AccountMade, AccountNotMade, Purge, Fault, bounds, AwsAssumption
  <2> QED  BY <2>1, <2>2, <2>3
<1>4. ASSUME NEW b \in Account PROVE AccountOK(b)'
  <2>1. CASE b # a
    BY <1>1, <2>1, AccountStays DEF AwsInv
  <2>2. CASE b = a
    BY <1>2, <2>2 DEF AwsInv, AccountOK
  <2> QED  BY <2>1, <2>2
<1>5. ASSUME NEW e \in Enclave PROVE CallOK(e)' /\ RecordOK(e)' /\ RoleOK(e)'
  <2> DEFINE b == AccountOf[e]
  <2>1. /\ b \in Account /\ at'[e] = at[e] /\ SameRecord(e)
        /\ CallOK(e) /\ RecordOK(e) /\ RoleOK(e) /\ AccountOK(b)
    BY <1>1 DEF AwsAssumption, AwsInv
  <2>2. CASE b # a
    <3>1. SameAccount(b)
      BY <1>1, <2>1, <2>2
    <3> USE <2>1, <3>1 DEF SameAccount, SameRoom, SameRecord, Open
    <3>2. CallOK(e)'
      BY DEF CallOK
    <3>3. RecordOK(e)'
      BY DEF RecordOK
    <3>4. RoleOK(e)'
      BY DEF RoleOK
    <3> QED  BY <3>2, <3>3, <3>4
  <2>3. CASE b = a
    <3>1. ~ Open(e) /\ at[e] \notin InAccount
      BY <1>2, <2>1, <2>3 DEF CallOK, Open
    <3> USE <1>2, <2>1, <2>3, <3>1 DEF SameRecord
    <3>2. CallOK(e)'
      BY DEF CallOK, InAccount
    <3>3. RecordOK(e)'
      BY DEF RecordOK, Open
    <3>4. RoleOK(e)'
      BY DEF RoleOK, RecordOK, Open, OfPartition, WithRole
    <3> QED  BY <3>2, <3>3, <3>4
  <2> QED  BY <2>2, <2>3
<1> QED  BY <1>3, <1>4, <1>5 DEF AwsInv

----------------------------------------------------------------------------
(* The theorems. *)

\* At first nothing is there, and no call is made.
LEMMA InitHolds == ASSUME AwsAssumption, Init PROVE AwsInv
<1> DEFINE Empty == [t \in Thing |-> 0]
<1>1. /\ declared = [e \in Enclave |-> TRUE]
      /\ handle = [e \in Enclave |-> FALSE] /\ phandle = [e \in Enclave |-> "none"]
      /\ at = [e \in Enclave |-> "idle"] 
      /\ torn = [e \in Enclave |-> FALSE] /\ ptorn = [e \in Enclave |-> FALSE]
  BY Zenon DEF Init
<1>2. /\ account = [a \in Account |-> "none"] /\ maker \in [Account -> Enclave]
      /\ unit = [a \in Account |-> FALSE] /\ made = [a \in Account |-> Empty]
      /\ role = [a \in Account |-> "none"]
  BY Zenon DEF Init
<1>3. faults = 0 /\ edits = 0
  BY Zenon DEF Init
<1>4. Empty \in [Thing -> 0 .. 2]
  OBVIOUS
<1>5. \A t \in Thing : Empty[t] = 0
  OBVIOUS
<1> HIDE DEF Empty
<1>6. TypeOK
  <2>1. CallsTyped
    BY <1>1 DEF CallsTyped, Points
  <2>2. RecordsTyped
    BY <1>1 DEF RecordsTyped
  <2>3. CloudTyped
    BY <1>2, <1>4 DEF CloudTyped
  <2>4. BoundsKept
    BY <1>3 DEF AwsAssumption, BoundsKept
  <2> QED  BY <2>1, <2>2, <2>3, <2>4 DEF TypeOK
<1>7. ASSUME NEW a \in Account PROVE AccountOK(a)
  <2>1. made[a] = Empty /\ unit[a] = FALSE /\ role[a] = "none"
    BY <1>2
  <2> QED  BY <1>5, <2>1 DEF AccountOK
<1>8. ASSUME NEW e \in Enclave PROVE CallOK(e) /\ RecordOK(e) /\ RoleOK(e)
  <2>1. at[e] = "idle" /\ ~ handle[e] /\ phandle[e] = "none"
    BY <1>1
  <2> QED  BY <2>1 DEF CallOK, RecordOK, RoleOK, InAccount, Provisioning, OfPartition, WithRole
<1> QED  BY <1>6, <1>7, <1>8 DEF AwsInv

\* The steps of an enclave's call keep the invariant.
LEMMA OwnKeeps ==
  ASSUME AwsAssumption, AwsInv, NEW e \in Enclave, OwnStep(e)
  PROVE  AwsInv'
<1>1. TypeOK'
  BY CallsStep, RecordsStep, CloudStep, BoundsStep DEF AwsInv, TypeOK
<1>2. ASSUME NEW a \in Account PROVE AccountOK(a)'
  <2>1. CASE a = AccountOf[e]
    BY <2>1, OwnAccount DEF AwsInv
  <2>2. CASE a # AccountOf[e]
    BY <2>2, OtherAccounts, AccountStays DEF AwsInv
  <2> QED  BY <2>1, <2>2
<1>3. CallOK(e)' /\ RecordOK(e)' /\ RoleOK(e)'
  <2>1. AccountOf[e] \in Account
    BY DEF AwsAssumption
  <2> QED  BY <2>1, OwnCall, OwnRecord, OwnRole DEF AwsInv
<1>4. ASSUME NEW f \in Enclave PROVE CallOK(f)' /\ RecordOK(f)' /\ RoleOK(f)'
  BY <1>3, OthersKeep
<1> QED  BY <1>1, <1>2, <1>4 DEF AwsInv

\* Nothing moves in a step that does not concern the driver.
LEMMA Stutters == ASSUME AwsInv, UNCHANGED vars PROVE AwsInv'
<1> USE DEF vars, records, cloud, history, bounds
<1>1. TypeOK'
  BY DEF AwsInv, TypeOK, CallsTyped, RecordsTyped, CloudTyped, BoundsKept
<1>2. ASSUME NEW a \in Account PROVE AccountOK(a)'
  BY DEF AwsInv, AccountOK
<1>3. ASSUME NEW e \in Enclave PROVE CallOK(e)' /\ RecordOK(e)' /\ RoleOK(e)'
  BY DEF AwsInv, CallOK, RecordOK, RoleOK, Open
<1> QED  BY <1>1, <1>2, <1>3 DEF AwsInv

\* Every step keeps it.
LEMMA StepKeeps == ASSUME AwsAssumption, AwsInv, [Next]_vars PROVE AwsInv'
<1>1. CASE UNCHANGED vars
  BY <1>1, Stutters
<1>2. ASSUME NEW e \in Enclave, OwnStep(e) PROVE AwsInv'
  BY <1>2, OwnKeeps
<1>3. ASSUME NEW a \in Account, AccountMade(a) \/ AccountNotMade(a) \/ Purge(a) PROVE AwsInv'
  BY <1>3, CloudKeeps
<1> QED  BY <1>1, <1>2, <1>3 DEF Next, OwnStep

\* What holds at first and is kept by every step holds always.
LEMMA Inductive == ASSUME AwsAssumption PROVE Spec => []AwsInv
<1>1. Init => AwsInv
  BY InitHolds
<1>2. AwsInv /\ [Next]_vars => AwsInv'
  BY StepKeeps
<1> QED  BY <1>1, <1>2, PTL DEF Spec

\* Every value keeps its type, whatever enclaves share a name.
THEOREM AwsTyped == ASSUME AwsAssumption PROVE Spec => []TypeOK
<1>1. AwsInv => TypeOK
  BY DEF AwsInv
<1> QED  BY <1>1, Inductive, PTL

\* What provision_enclave makes without a name is never made twice in an account,
\* however often it is cut short.
THEOREM NothingTwice == ASSUME AwsAssumption PROVE Spec => []MadeOnce
<1>1. AwsInv => MadeOnce
  BY DEF AwsInv, AccountOK, MadeOnce
<1> QED  BY <1>1, Inductive, PTL

\* A complete handle names an open account of the enclave's own with everything in it,
\* though any number of enclaves derive its name.
THEOREM CompleteReal == ASSUME AwsAssumption PROVE Spec => []CompleteIsReal
<1>1. AwsInv => CompleteIsReal
  BY DEF AwsInv, RecordOK, CompleteIsReal
<1> QED  BY <1>1, Inductive, PTL

\* A recorded partition has its role, with the policy attached.
THEOREM RoleReal == ASSUME AwsAssumption PROVE Spec => []RoleIsReal
<1>1. AwsInv => RoleIsReal
  BY DEF AwsInv, RoleOK, RoleIsReal
<1> QED  BY <1>1, Inductive, PTL

=============================================================================
