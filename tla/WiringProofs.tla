---------------------------- MODULE WiringProofs ----------------------------
(* That CloudWiring's imports are connected, and that the scan composed with *)
(* it tells the truth about the records.                                     *)
EXTENDS OrphanScan, TLAPS

----------------------------------------------------------------------------
(* The inductive invariant of the wiring. *)

Importing == {"addr", "addrWait", "getAddr", "rule", "ruleWait", "dns", "subscription",
              "endpoint", "queue", "endpointWait", "nic", "saveImport"}

\* The importer's A record is there only where the import needs one ...
NeedsRecord == On("gcp", {"tcp"}) \/ (On("azure", {"http", "tcp"}) /\ cfg.zone)

\* ... and this is what an import has reached when its endpoint is done.
Reached ==
  /\ ep.st = "ready" \/ early
  /\ rec.export # 0 \/ kept
  /\ ep.st # "none" => ep.to = rec.export \/ kept

WiringTyped ==
  /\ cfg.cloud \in {"gcp", "azure", "aws"} /\ cfg.kind \in {"http", "tcp", "queue"}
  /\ cfg.zone \in BOOLEAN
  /\ made \in Nat /\ alive \subseteq Nat \ {0}
  /\ ep \in [st : State, to : Nat] /\ (ep.st # "none" => ep.to # 0)
  /\ early \in BOOLEAN /\ kept \in BOOLEAN

\* Which cloud, and which type of export, a point of the import belongs to.
PointOK ==
  /\ at \in {"addr", "addrWait", "getAddr", "rule", "ruleWait"} => On("gcp", {"tcp"})
  /\ at = "subscription" => On("gcp", {"queue"})
  /\ at \in {"endpoint", "nic"} => On("azure", {"http", "tcp"})
  /\ at = "queue" => On("azure", {"queue"})
  /\ at = "endpointWait" => cfg.cloud = "azure"
  /\ at = "dns" => NeedsRecord

\* While an import is made its handle is missing and its export stays; a wait is for
\* the endpoint that was asked for, and what follows it finds an endpoint.
ImportOK ==
  /\ at \in Importing => imp.to = None /\ rec.export # None
  /\ at \in {"ruleWait", "endpointWait"} =>
       rec.export # 0 /\ (ep.st # "none" => ep.to = rec.export)
  /\ at \in {"dns", "nic"} => Reached
  /\ at = "saveImport" /\ NeedsEndpoint => Reached
  /\ On("gcp", {"queue"}) => ep.st # "pending"

\* What WiredIsConnected says, also of an endpoint that is still pending.
ConnectedOK ==
  imp.to # None =>
    /\ NeedsEndpoint => (ep.st = "ready" \/ early) /\ (imp.to # 0 \/ kept)
    /\ NeedsEndpoint /\ ep.st # "none" => ep.to = imp.to \/ kept
    /\ dns # "none" => dns = imp.ip

\* There is one address a record can have been given on GCP, where the first one stays;
\* on Azure the last import has written its own.
RecordOK ==
  /\ cfg.cloud = "gcp" => dns \in {"none", "ip"} /\ (at \in {"rule", "ruleWait", "dns"} => ip = "ip")
  /\ dns # "none" => NeedsRecord
  /\ at = "saveImport" /\ dns # "none" => dns = ip

WiringInv == WiringTyped /\ PointOK /\ ImportOK /\ RecordOK /\ ConnectedOK

(* The inductive invariant of the scan: what it has read it has not forgotten. *)

ScanInv ==
  /\ held => known.part
  /\ left # {} => known.there /\ ~ known.part
  /\ report # {} => ~ known.part
  /\ scan = "listed" => left \subseteq alive /\ ~ asked
  /\ asked => left \subseteq report

----------------------------------------------------------------------------
(* The wiring: one lemma per part of the invariant, one step per action. *)

\* An endpoint that is asked for has the target that is asked for, which is a service.
LEMMA Asked ==
  ASSUME WiringInv,
         CreateRule \/ Subscribe \/ PutEndpoint \/ PutQueueEndpoint \/ LostReply
  PROVE  \/ UNCHANGED ep
         \/ /\ rec.export \in Nat \ {0} /\ ep' \in [st : State, to : Nat]
            /\ ep'.st \in {"pending", "ready"} /\ ep'.to = rec.export
<1> DEFINE Endpoints == [st : {"pending", "ready"}, to : {rec.export}]
<1>1. [st |-> "pending", to |-> rec.export] \in Endpoints /\ [st |-> "ready", to |-> rec.export] \in Endpoints
  OBVIOUS
<1>2. UNCHANGED ep \/ (rec.export \in alive /\ ep' \in Endpoints)
  <2> HIDE DEF Endpoints
  <2>1. CASE CreateRule
    BY <1>1, <2>1 DEF CreateRule
  <2>2. CASE Subscribe
    BY <1>1, <2>2 DEF Subscribe
  <2>3. CASE PutEndpoint
    BY <1>1, <2>3 DEF PutEndpoint, EndpointPut, Endpoints
  <2>4. CASE PutQueueEndpoint
    BY <1>1, <2>4 DEF PutQueueEndpoint, EndpointPut, Endpoints
  <2>5. CASE LostReply
    BY <1>1, <2>5 DEF LostReply
  <2> QED  BY <2>1, <2>2, <2>3, <2>4, <2>5
<1>3. ASSUME rec.export \in alive  PROVE  rec.export \in Nat \ {0}
  BY <1>3 DEF WiringInv, WiringTyped
<1>4. ASSUME NEW e \in Endpoints, rec.export \in Nat
      PROVE  e \in [st : State, to : Nat] /\ e.st \in {"pending", "ready"} /\ e.to = rec.export
  BY <1>4 DEF State
<1> QED  BY <1>2, <1>3, <1>4

\* The values that are counted and compared keep their types.
LEMMA TypedStep ==
  ASSUME WiringAssumption, WiringInv, WiringNext
  PROVE  WiringTyped'
<1> USE DEF WiringInv, WiringTyped, exporter, importer, call, bounds, Goto, End, Fault,
           EndpointPut, AfterEndpoint, On, State
<1>1. CASE Begin
  BY <1>1 DEF Begin
<1>2. CASE Terraform
  BY <1>2 DEF Terraform
<1>3. CASE ProvisionExport
  BY <1>3 DEF ProvisionExport
<1>4. CASE Save
  BY <1>4 DEF Save
<1>5. CASE WireImport
  BY <1>5 DEF WireImport
<1>6. CASE ReserveAddress
  BY <1>6 DEF ReserveAddress
<1>7. CASE AddressPolled
  BY <1>7 DEF AddressPolled
<1>8. CASE GetAddress
  BY <1>8 DEF GetAddress
<1>9. CASE CreateRule
  BY <1>9, Asked DEF CreateRule
<1>10. CASE RulePolled
  BY <1>10 DEF RulePolled
<1>11. CASE CreateRecord
  BY <1>11 DEF CreateRecord
<1>12. CASE Subscribe
  BY <1>12, Asked DEF Subscribe
<1>13. CASE PutEndpoint
  BY <1>13, Asked DEF PutEndpoint
<1>14. CASE PutQueueEndpoint
  BY <1>14, Asked DEF PutQueueEndpoint
<1>15. CASE EndpointPolled
  BY <1>15 DEF EndpointPolled
<1>16. CASE GetInterface
  BY <1>16 DEF GetInterface
<1>17. CASE SaveImport
  BY <1>17 DEF SaveImport
<1>18. CASE Apply
  BY <1>18 DEF Apply
<1>19. CASE Made
  BY <1>19 DEF Made
<1>20. CASE NotMade
  BY <1>20 DEF NotMade
<1>21. CASE Fail
  BY <1>21 DEF Fail
<1>22. CASE LostReply
  BY <1>22, Asked DEF LostReply
<1>23. CASE Edit
  BY <1>23 DEF Edit
<1>24. CASE ForceUnlock
  BY <1>24 DEF ForceUnlock
<1> QED  BY <1>1, <1>2, <1>3, <1>4, <1>5, <1>6, <1>7, <1>8, <1>9, <1>10, <1>11, <1>12,
            <1>13, <1>14, <1>15, <1>16, <1>17, <1>18, <1>19, <1>20, <1>21, <1>22,
            <1>23, <1>24
         DEF WiringNext, Reconcile

\* An import goes the way of its cloud and of its type of export.
LEMMA PointStep ==
  ASSUME WiringAssumption, WiringInv, WiringNext
  PROVE  PointOK'
<1> USE DEF WiringInv, WiringTyped, PointOK, NeedsRecord, ImportOf, GcpImport,
           AzureImport, AwsImport, exporter, importer, call, bounds, Goto, End, Fault,
           EndpointPut, AfterEndpoint, On, State
<1>1. CASE Begin
  BY <1>1 DEF Begin
<1>2. CASE Terraform
  BY <1>2 DEF Terraform
<1>3. CASE ProvisionExport
  BY <1>3 DEF ProvisionExport
<1>4. CASE Save
  BY <1>4 DEF Save
<1>5. CASE WireImport
  BY <1>5 DEF WireImport
<1>6. CASE ReserveAddress
  BY <1>6 DEF ReserveAddress
<1>7. CASE AddressPolled
  BY <1>7 DEF AddressPolled
<1>8. CASE GetAddress
  BY <1>8 DEF GetAddress
<1>9. CASE CreateRule
  BY <1>9, Asked DEF CreateRule
<1>10. CASE RulePolled
  BY <1>10 DEF RulePolled
<1>11. CASE CreateRecord
  BY <1>11 DEF CreateRecord
<1>12. CASE Subscribe
  BY <1>12, Asked DEF Subscribe
<1>13. CASE PutEndpoint
  BY <1>13, Asked DEF PutEndpoint
<1>14. CASE PutQueueEndpoint
  BY <1>14, Asked DEF PutQueueEndpoint
<1>15. CASE EndpointPolled
  BY <1>15 DEF EndpointPolled
<1>16. CASE GetInterface
  BY <1>16 DEF GetInterface
<1>17. CASE SaveImport
  BY <1>17 DEF SaveImport
<1>18. CASE Apply
  BY <1>18 DEF Apply
<1>19. CASE Made
  BY <1>19 DEF Made
<1>20. CASE NotMade
  BY <1>20 DEF NotMade
<1>21. CASE Fail
  BY <1>21 DEF Fail
<1>22. CASE LostReply
  BY <1>22, Asked DEF LostReply
<1>23. CASE Edit
  BY <1>23 DEF Edit
<1>24. CASE ForceUnlock
  BY <1>24 DEF ForceUnlock
<1> QED  BY <1>1, <1>2, <1>3, <1>4, <1>5, <1>6, <1>7, <1>8, <1>9, <1>10, <1>11, <1>12,
            <1>13, <1>14, <1>15, <1>16, <1>17, <1>18, <1>19, <1>20, <1>21, <1>22,
            <1>23, <1>24
         DEF WiringNext, Reconcile

\* What follows the PUT of an endpoint finds the endpoint that was asked for.
LEMMA PutReaches ==
  ASSUME WiringInv, PutEndpoint \/ PutQueueEndpoint
  PROVE  ImportOK'
<1> USE DEF Importing, None
<1>1. at \in {"endpoint", "queue"} /\ UNCHANGED <<cfg, rec, imp, kept>> /\ cfg.cloud = "azure"
  BY DEF PutEndpoint, PutQueueEndpoint, EndpointPut, exporter, WiringInv, PointOK, On
<1>2. imp'.to = None /\ rec'.export # None
  BY <1>1 DEF WiringInv, ImportOK
<1>3. at' \in {"nic", "dns", "saveImport", "endpointWait", "idle"}
  BY DEF PutEndpoint, PutQueueEndpoint, EndpointPut, Goto, AfterEndpoint, End
<1>4. ASSUME at' # "idle"
      PROVE  rec.export \in Nat \ {0} /\ ep'.st \in {"pending", "ready"} /\ ep'.to = rec.export
  <2> DEFINE Endpoints == [st : {"pending", "ready"}, to : {rec.export}]
  <2>1. rec.export \in alive /\ ep' \in Endpoints
    <3>1. [st |-> "pending", to |-> rec.export] \in Endpoints
      OBVIOUS
    <3> QED  BY <1>4, <3>1 DEF PutEndpoint, PutQueueEndpoint, EndpointPut, End
  <2> QED  BY <2>1 DEF WiringInv, WiringTyped
<1>5. ASSUME at' \in {"nic", "dns", "saveImport"}
      PROVE  early' = (ep'.st = "pending")
  BY <1>5 DEF PutEndpoint, PutQueueEndpoint, EndpointPut, Goto, AfterEndpoint, End
<1>6. at' \in {"nic", "dns", "saveImport"} => Reached'
  BY <1>1, <1>4, <1>5 DEF Reached
<1> QED  BY <1>1, <1>2, <1>3, <1>4, <1>6 DEF ImportOK, On

\* What a wait, a record and a handle follow is an endpoint that was asked for.
LEMMA ImportStep ==
  ASSUME WiringAssumption, WiringInv, WiringNext
  PROVE  ImportOK'
<1> USE DEF WiringInv, WiringTyped, PointOK, ImportOK, NeedsRecord, Importing, Reached,
           NeedsEndpoint, None, Rewires, ImportOf, GcpImport, AzureImport, AwsImport,
           exporter, importer, call, bounds, Goto, End, Fault, EndpointPut,
           AfterEndpoint, On, State
<1>1. CASE Begin
  BY <1>1 DEF Begin
<1>2. CASE Terraform
  BY <1>2 DEF Terraform
<1>3. CASE ProvisionExport
  BY <1>3 DEF ProvisionExport
<1>4. CASE Save
  BY <1>4 DEF Save
<1>5. CASE WireImport
  BY <1>5 DEF WireImport
<1>6. CASE ReserveAddress
  BY <1>6 DEF ReserveAddress
<1>7. CASE AddressPolled
  BY <1>7 DEF AddressPolled
<1>8. CASE GetAddress
  BY <1>8 DEF GetAddress
<1>9. CASE CreateRule
  BY <1>9, Asked DEF CreateRule
<1>10. CASE RulePolled
  BY <1>10 DEF RulePolled
<1>11. CASE CreateRecord
  BY <1>11 DEF CreateRecord
<1>12. CASE Subscribe
  <2>1. at' \in {"saveImport", "idle"} /\ imp'.to = None /\ rec'.export # None
    BY <1>12 DEF Subscribe
  <2>2. UNCHANGED <<rec, early>> /\ On("gcp", {"queue"})
    BY <1>12 DEF Subscribe
  <2>3. ep'.st # "pending"
    BY <1>12, <2>2 DEF Subscribe
  <2>4. CASE UNCHANGED ep
    <3>1. at' = "saveImport" => ep.st # "none" /\ kept' = (ep.to # rec.export)
      BY <1>12, <2>3, <2>4, Asked DEF Subscribe
    <3>2. at' = "saveImport" => Reached'
      BY <2>2, <2>3, <2>4, <3>1
    <3> QED  BY <2>1, <2>3, <3>2
  <2>5. CASE ~ UNCHANGED ep
    <3>1. rec.export # 0 /\ ep'.st = "ready" /\ ep'.to = rec.export
      BY <1>12, <2>3, <2>5, Asked
    <3> QED  BY <2>1, <2>2, <2>3, <3>1
  <2> QED  BY <2>4, <2>5
<1>13. CASE PutEndpoint
  BY <1>13, PutReaches
<1>14. CASE PutQueueEndpoint
  BY <1>14, PutReaches
<1>15. CASE EndpointPolled
  BY <1>15 DEF EndpointPolled
<1>16. CASE GetInterface
  BY <1>16 DEF GetInterface
<1>17. CASE SaveImport
  BY <1>17 DEF SaveImport
<1>18. CASE Apply
  BY <1>18 DEF Apply
<1>19. CASE Made
  BY <1>19 DEF Made
<1>20. CASE NotMade
  BY <1>20 DEF NotMade
<1>21. CASE Fail
  BY <1>21 DEF Fail
<1>22. CASE LostReply
  BY <1>22, Asked DEF LostReply
<1>23. CASE Edit
  BY <1>23 DEF Edit
<1>24. CASE ForceUnlock
  BY <1>24 DEF ForceUnlock
<1> QED  BY <1>1, <1>2, <1>3, <1>4, <1>5, <1>6, <1>7, <1>8, <1>9, <1>10, <1>11, <1>12,
            <1>13, <1>14, <1>15, <1>16, <1>17, <1>18, <1>19, <1>20, <1>21, <1>22,
            <1>23, <1>24
         DEF WiringNext, Reconcile

\* Once the handle is stored no step disconnects it, and the step that stores it
\* has reached the endpoint.
LEMMA ConnectedStep ==
  ASSUME WiringAssumption, WiringInv, WiringNext
  PROVE  ConnectedOK'
<1> USE DEF WiringInv, WiringTyped, PointOK, ImportOK, ConnectedOK, RecordOK,
           Importing, Reached, NeedsEndpoint, None, Rewires, exporter, importer, call,
           bounds, Goto, End, Fault, EndpointPut, AfterEndpoint, On, State
<1>1. CASE Begin
  BY <1>1 DEF Begin
<1>2. CASE Terraform
  BY <1>2 DEF Terraform
<1>3. CASE ProvisionExport
  BY <1>3 DEF ProvisionExport
<1>4. CASE Save
  BY <1>4 DEF Save
<1>5. CASE WireImport
  BY <1>5 DEF WireImport
<1>6. CASE ReserveAddress
  BY <1>6 DEF ReserveAddress
<1>7. CASE AddressPolled
  BY <1>7 DEF AddressPolled
<1>8. CASE GetAddress
  BY <1>8 DEF GetAddress
<1>9. CASE CreateRule
  BY <1>9, Asked DEF CreateRule
<1>10. CASE RulePolled
  BY <1>10 DEF RulePolled
<1>11. CASE CreateRecord
  BY <1>11 DEF CreateRecord
<1>12. CASE Subscribe
  BY <1>12, Asked DEF Subscribe
<1>13. CASE PutEndpoint
  BY <1>13, Asked DEF PutEndpoint
<1>14. CASE PutQueueEndpoint
  BY <1>14, Asked DEF PutQueueEndpoint
<1>15. CASE EndpointPolled
  BY <1>15 DEF EndpointPolled
<1>16. CASE GetInterface
  BY <1>16 DEF GetInterface
<1>17. CASE SaveImport
  BY <1>17 DEF SaveImport
<1>18. CASE Apply
  BY <1>18 DEF Apply
<1>19. CASE Made
  BY <1>19 DEF Made
<1>20. CASE NotMade
  BY <1>20 DEF NotMade
<1>21. CASE Fail
  BY <1>21 DEF Fail
<1>22. CASE LostReply
  BY <1>22, Asked DEF LostReply
<1>23. CASE Edit
  BY <1>23 DEF Edit
<1>24. CASE ForceUnlock
  BY <1>24 DEF ForceUnlock
<1> QED  BY <1>1, <1>2, <1>3, <1>4, <1>5, <1>6, <1>7, <1>8, <1>9, <1>10, <1>11, <1>12,
            <1>13, <1>14, <1>15, <1>16, <1>17, <1>18, <1>19, <1>20, <1>21, <1>22,
            <1>23, <1>24
         DEF WiringNext, Reconcile

\* The record says the address the import goes on to store.
LEMMA RecordStep ==
  ASSUME WiringAssumption, WiringInv, WiringNext
  PROVE  RecordOK'
<1> USE DEF WiringInv, WiringTyped, PointOK, ImportOK, RecordOK, Importing,
           NeedsRecord, RecordedAddress, ImportOf, GcpImport, AzureImport, AwsImport,
           exporter, importer, call, bounds, Goto, End, Fault, EndpointPut,
           AfterEndpoint, On, State
<1>1. CASE Begin
  BY <1>1 DEF Begin
<1>2. CASE Terraform
  BY <1>2 DEF Terraform
<1>3. CASE ProvisionExport
  BY <1>3 DEF ProvisionExport
<1>4. CASE Save
  BY <1>4 DEF Save
<1>5. CASE WireImport
  BY <1>5 DEF WireImport
<1>6. CASE ReserveAddress
  BY <1>6 DEF ReserveAddress
<1>7. CASE AddressPolled
  BY <1>7 DEF AddressPolled
<1>8. CASE GetAddress
  BY <1>8 DEF GetAddress
<1>9. CASE CreateRule
  BY <1>9, Asked DEF CreateRule
<1>10. CASE RulePolled
  BY <1>10 DEF RulePolled
<1>11. CASE CreateRecord
  BY <1>11 DEF CreateRecord
<1>12. CASE Subscribe
  BY <1>12, Asked DEF Subscribe
<1>13. CASE PutEndpoint
  BY <1>13, Asked DEF PutEndpoint
<1>14. CASE PutQueueEndpoint
  BY <1>14, Asked DEF PutQueueEndpoint
<1>15. CASE EndpointPolled
  BY <1>15 DEF EndpointPolled
<1>16. CASE GetInterface
  BY <1>16 DEF GetInterface
<1>17. CASE SaveImport
  BY <1>17 DEF SaveImport
<1>18. CASE Apply
  BY <1>18 DEF Apply
<1>19. CASE Made
  BY <1>19 DEF Made
<1>20. CASE NotMade
  BY <1>20 DEF NotMade
<1>21. CASE Fail
  BY <1>21 DEF Fail
<1>22. CASE LostReply
  BY <1>22, Asked DEF LostReply
<1>23. CASE Edit
  BY <1>23 DEF Edit
<1>24. CASE ForceUnlock
  BY <1>24 DEF ForceUnlock
<1> QED  BY <1>1, <1>2, <1>3, <1>4, <1>5, <1>6, <1>7, <1>8, <1>9, <1>10, <1>11, <1>12,
            <1>13, <1>14, <1>15, <1>16, <1>17, <1>18, <1>19, <1>20, <1>21, <1>22,
            <1>23, <1>24
         DEF WiringNext, Reconcile

\* The invariant holds at first.
LEMMA InitWiring == ASSUME WiringAssumption, Init PROVE WiringInv
<1> USE DEF Init
<1>1. WiringTyped
  BY DEF WiringAssumption, WiringTyped, State
<1>2. PointOK /\ RecordOK
  BY DEF PointOK, RecordOK, NeedsRecord
<1>3. ImportOK
  BY DEF ImportOK, Importing, On
<1>4. ConnectedOK
  BY DEF ConnectedOK, None
<1> QED  BY <1>1, <1>2, <1>3, <1>4 DEF WiringInv

\* A step that leaves the wiring alone, whatever it counts, keeps the invariant.
LEMMA WiringUnmoved ==
  ASSUME WiringInv, UNCHANGED <<cfg, exporter, importer, call>>
  PROVE  WiringInv'
<1> USE DEF exporter, importer, call
<1>1. WiringTyped'
  BY DEF WiringInv, WiringTyped
<1>2. PointOK' /\ RecordOK'
  BY DEF WiringInv, PointOK, RecordOK, NeedsRecord, On
<1>3. ImportOK'
  BY DEF WiringInv, ImportOK, Reached, NeedsEndpoint, On
<1>4. ConnectedOK'
  BY DEF WiringInv, ConnectedOK, NeedsEndpoint, On
<1> QED  BY <1>1, <1>2, <1>3, <1>4 DEF WiringInv

\* What the invariant says of a stored handle is what is promised of it.
LEMMA StaysConnected == ASSUME WiringInv PROVE WiredIsConnected
BY DEF WiringInv, WiringTyped, ConnectedOK, WiredIsConnected, State

----------------------------------------------------------------------------
(* The scan. *)

\* Every step of the composition keeps the wiring's invariant: a scan only counts a fault.
LEMMA WiringStep ==
  ASSUME WiringAssumption, WiringInv, [Next]_<<vars, scanVars>>
  PROVE  WiringInv'
<1>1. CASE ListEnclaves
  BY <1>1, WiringUnmoved DEF ListEnclaves, vars
<1>2. CASE AskCloud
  BY <1>2, WiringUnmoved DEF AskCloud, vars
<1>3. CASE Meanwhile
  <2>1. WiringNext
    BY <1>3 DEF Meanwhile
  <2>2. WiringTyped' /\ PointOK' /\ ImportOK' /\ ConnectedOK' /\ RecordOK'
    BY <2>1, TypedStep, PointStep, ImportStep, ConnectedStep, RecordStep
  <2> QED  BY <2>2 DEF WiringInv
<1>4. CASE UNCHANGED <<vars, scanVars>>
  BY <1>4, WiringUnmoved DEF vars
<1> QED  BY <1>1, <1>2, <1>3, <1>4 DEF Next

\* A reply is what the cloud has without a record that was read, or it is empty.
LEMMA Replies ==
  ASSUME WiringInv, NEW ok \in BOOLEAN
  PROVE  LET reply == OrphansOf(ok)
             found == IF reply.ok THEN reply.found ELSE {}
         IN found = IF ok THEN Unknown ELSE {}
<1>1. cfg.cloud \in {"gcp", "azure", "aws"}
  BY DEF WiringInv, WiringTyped
<1> QED  BY <1>1 DEF OrphansOf, GcpOrphans, AzureOrphans, AwsOrphans, Answer, Error

\* What was read before the cloud was asked still holds of what held all the time.
LEMMA ScanStep ==
  ASSUME WiringInv, ScanInv, [Next]_<<vars, scanVars>>
  PROVE  ScanInv'
<1>1. CASE ListEnclaves
  BY <1>1 DEF ListEnclaves, ScanInv, Unrecorded, vars, exporter
<1>2. CASE AskCloud
  <2>1. scan = "listed" /\ scan' = "idle" /\ UNCHANGED <<known, held, left>>
    BY <1>2 DEF AskCloud
  <2>2. CASE ~ known.there /\ report' = {} /\ asked' = FALSE
    BY <2>1, <2>2 DEF ScanInv
  <2>3. CASE known.there /\ asked' \in BOOLEAN
             /\ report' = IF OrphansOf(asked').ok THEN OrphansOf(asked').found ELSE {}
    <3>1. report' = IF asked' THEN Unknown ELSE {}
      BY <2>3, Replies
    <3> QED  BY <2>1, <2>3, <3>1 DEF ScanInv, Unknown
  <2> QED  BY <1>2, <2>2, <2>3 DEF AskCloud
<1>3. CASE Meanwhile
  BY <1>3 DEF Meanwhile, ScanInv, Unrecorded
<1>4. CASE UNCHANGED <<vars, scanVars>>
  BY <1>4 DEF vars, exporter, scanVars, ScanInv
<1> QED  BY <1>1, <1>2, <1>3, <1>4 DEF Next

\* Both invariants hold at first.
LEMMA InitBoth == ASSUME WiringAssumption, ScanInit PROVE WiringInv /\ ScanInv
<1>1. WiringInv
  BY InitWiring DEF ScanInit
<1>2. ScanInv
  BY DEF ScanInit, ScanInv
<1> QED  BY <1>1, <1>2

\* Both invariants hold always.
LEMMA Inductive == ASSUME WiringAssumption PROVE Spec => [](WiringInv /\ ScanInv)
<1>1. ScanInit => WiringInv /\ ScanInv
  BY InitBoth
<1>2. WiringInv /\ ScanInv /\ [Next]_<<vars, scanVars>> => (WiringInv /\ ScanInv)'
  BY WiringStep, ScanStep
<1> QED  BY <1>1, <1>2, PTL DEF Spec

----------------------------------------------------------------------------
(* The theorems. *)

\* An import that has a handle is connected to what the handle says, on every cloud and
\* for every type of export, however many faults and edits there are: what
\* provision_import returns, and the reconciler never looks at again, can be relied on
\* but for the two exemptions the invariant names.
THEOREM ImportsConnected == ASSUME WiringAssumption PROVE Spec => []WiredIsConnected
<1>1. WiringInv /\ ScanInv => WiredIsConnected
  BY StaysConnected
<1> QED  BY <1>1, Inductive, PTL

\* `nclav orphans' does not report a partition that was recorded all along, and reports
\* what was there without a record all along if the cloud answered, whatever applies and
\* destroys go on between its two reads.
THEOREM ScanTellsTruth == ASSUME WiringAssumption PROVE Spec => []ScanTells
<1>1. WiringInv /\ ScanInv => ScanTells
  BY DEF ScanInv, ScanTells, Exit
<1> QED  BY <1>1, Inductive, PTL

=============================================================================
