----------------------------- MODULE CloudWiring -----------------------------
(***************************************************************************)
(* One export and the import of it, from one apply to the next: how the    *)
(* GCP, Azure and AWS drivers describe the exporting partition's service   *)
(* in a handle, and how they connect the importing enclave to what that    *)
(* handle names.  The reconciler exports with every apply, whatever became *)
(* of the partition, and imports once: an import that has a handle is      *)
(* never looked at again.  Meanwhile Terraform replaces the service, and   *)
(* the operator destroys the exporter.  Applies run one at a time.         *)
(***************************************************************************)
EXTENDS Integers

CONSTANTS
  Clouds, Kinds,   \* sets of clouds, and of types of export
  MaxFaults,       \* failed runs of Terraform, error replies, lost replies, crashes
  MaxEdits         \* changes of the configuration, and destructions by hand

ASSUME WiringAssumption ==
  /\ Clouds \subseteq {"gcp", "azure", "aws"} /\ Kinds \subseteq {"http", "tcp", "queue"}
  /\ MaxFaults \in Nat /\ MaxEdits \in Nat

VARIABLES
  cfg,             \* the cloud, the type, and what the configurations have
  alive, made,     \* the services there are, of those made so far
  locked,          \* a run that was cut short has left the lock of Terraform's state
  rec,             \* the exporter's record
  at, mem,         \* the apply: where it is, and its copy of that record
  imp,             \* the importer's handle
  ip,              \* the import's call: the address it knows for its endpoint
  addr, ep, dns,   \* in the importer's enclave: reserved address, endpoint, A record
  open,            \* services anybody may call
  early, kept,     \* history: an endpoint taken for done, or for the one asked for
  faults, edits

exporter == <<alive, made, locked, rec, open>>
importer == <<imp, addr, ep, dns, early, kept>>
call == <<at, mem, ip>>
bounds == <<faults, edits>>
vars == <<cfg, exporter, importer, call, bounds>>

\* A service is the number it was made under; 0 stands for none, or an empty output.
\* Terraform runs once more only after an edit or a fault.
MaxMade == MaxFaults + MaxEdits + 1
Service == 0 .. MaxMade
None == -1
State == {"none", "pending", "ready"}
Address == {"none", "zero", "ip"}      \* "zero": the placeholder 10.0.0.0

Records == [there : BOOLEAN, part : BOOLEAN, fresh : BOOLEAN, outs : Service,
            export : {None} \cup Service]
NoRecord == [there |-> FALSE, part |-> FALSE, fresh |-> FALSE, outs |-> 0, export |-> None]

Point == {"idle", "begin", "terraform", "export", "save", "wire", "addr", "addrWait", "getAddr",
          "rule", "ruleWait", "dns", "subscription", "endpoint", "queue", "endpointWait", "nic",
          "saveImport"}

TypeOK ==
  /\ cfg \in [cloud : Clouds, kind : Kinds, public : BOOLEAN, zone : BOOLEAN, known : BOOLEAN]
  /\ alive \subseteq 1 .. made /\ made \in Service /\ locked \in BOOLEAN /\ rec \in Records /\ mem \in Records
  /\ at \in Point /\ imp \in [to : {None} \cup Service, ip : Address] /\ ip \in Address
  /\ addr \in State /\ ep \in [st : State, to : Service] /\ dns \in Address
  /\ open \subseteq 1 .. made /\ early \in BOOLEAN /\ kept \in BOOLEAN
  /\ faults \in 0 .. MaxFaults /\ edits \in 0 .. MaxEdits

\* public: `auth: none'.  zone: the importer has a network and a zone.  known: its YAML
\* gives its subscription's id for an identity.
Init ==
  /\ cfg \in [cloud : Clouds, kind : Kinds, public : BOOLEAN, zone : BOOLEAN, known : BOOLEAN]
  /\ cfg.public => cfg.cloud = "gcp" /\ cfg.kind = "http"
  /\ cfg.cloud # "azure" => cfg.known
  /\ cfg.cloud = "aws" \/ cfg.kind = "queue" => cfg.zone
  /\ alive = {} /\ made = 0 /\ locked = FALSE /\ rec = NoRecord /\ open = {}
  /\ at = "idle" /\ mem = NoRecord /\ ip = "none"
  /\ imp = [to |-> None, ip |-> "none"] /\ addr = "none" /\ dns = "none"
  /\ ep = [st |-> "none", to |-> 0]
  /\ early = FALSE /\ kept = FALSE
  /\ faults = 0 /\ edits = 0

On(cloud, kinds) == cfg.cloud = cloud /\ cfg.kind \in kinds
Fault == faults < MaxFaults /\ faults' = faults + 1

Goto(point) == at' = point /\ UNCHANGED <<mem, ip>>
End == at' = "idle" /\ mem' = NoRecord /\ ip' = "none"

----------------------------------------------------------------------------
(* The exporting enclave, in step 7 of reconcile(). *)

Apply ==
  /\ at = "idle" /\ at' = "begin" /\ mem' = rec /\ UNCHANGED ip
  /\ UNCHANGED <<cfg, exporter, importer, bounds>>

\* A partition whose hash is unchanged is skipped; otherwise it is recorded before
\* Terraform runs.
Begin ==
  /\ at = "begin"
  /\ IF rec.fresh THEN Goto("export") /\ UNCHANGED rec
     ELSE LET r == [rec EXCEPT !.there = TRUE, !.part = TRUE] IN
          rec' = r /\ mem' = r /\ at' = "terraform" /\ UNCHANGED ip
  /\ UNCHANGED <<cfg, alive, made, locked, open, importer, bounds>>

\* A run that succeeds leaves one service, the old one or another, and its outputs.
\* One that fails leaves what it leaves, its lock perhaps, and the outputs there were;
\* where the lock is left, every run fails at once.
Terraform ==
  /\ at = "terraform" /\ at' = "export" /\ UNCHANGED ip
  /\ \/ /\ ~ locked
        /\ \/ \E n \in alive : alive' = {n} /\ UNCHANGED made
           \/ made' = made + 1 /\ alive' = {made + 1}
        /\ mem' = [mem EXCEPT !.fresh = TRUE, !.outs = CHOOSE n \in alive' : TRUE]
        /\ UNCHANGED <<locked, faults>>
     \/ /\ ~ locked /\ Fault /\ locked' \in BOOLEAN /\ UNCHANGED mem
        /\ \/ made' = made + 1 /\ alive' = alive \cup {made + 1}
           \/ UNCHANGED made /\ alive' \in SUBSET alive
     \/ locked /\ UNCHANGED <<alive, made, locked, mem, faults>>
  /\ open' = open \cap alive'
  /\ UNCHANGED <<cfg, rec, importer, edits>>

GcpExport_faulty(old, outs) ==
  IF old # None \/ (outs = 0 /\ cfg.kind = "tcp") THEN old ELSE outs

\* provision_export: the handle the export has then.  GCP makes a new one each time, of
\* an http service's name or a topic also without outputs; a tcp export needs one.
GcpExport(old, outs) == IF outs = 0 /\ cfg.kind = "tcp" THEN old ELSE outs

\* Azure returns the handle there is, and makes none without outputs.
AzureExport(old, outs) == IF old # None \/ outs = 0 THEN old ELSE outs

\* AWS returns the handle there is, and makes one with empty outputs.
AwsExport(old, outs) == IF old # None THEN old ELSE outs

ExportOf(old, outs) ==
  CASE cfg.cloud = "gcp" -> GcpExport(old, outs)
    [] cfg.cloud = "azure" -> AzureExport(old, outs)
    [] cfg.cloud = "aws" -> AwsExport(old, outs)

\* A failure is reported, and an earlier handle stays.  With `auth: none' GCP first sets
\* the service's policy, for which there must be a service.
ProvisionExport ==
  /\ at = "export" /\ at' = "save" /\ UNCHANGED ip
  /\ \/ /\ ~ cfg.public \/ alive # {}
        /\ mem' = [mem EXCEPT !.export = ExportOf(@, mem.outs)]
        /\ open' = (IF cfg.public THEN alive ELSE open) /\ UNCHANGED faults
     \/ cfg.public /\ alive = {} /\ UNCHANGED <<mem, open, faults>>
     \/ cfg.public /\ Fault /\ UNCHANGED <<mem, open>>
  /\ UNCHANGED <<cfg, alive, made, locked, rec, importer, edits>>

Save ==
  /\ at = "save" /\ rec' = mem /\ Goto("wire")
  /\ UNCHANGED <<cfg, alive, made, locked, open, importer, bounds>>

----------------------------------------------------------------------------
(* The importing enclave, in step 8. *)

\* Where provision_import starts; "idle" stands for an error at once.  GCP copies an http
\* export's outputs; a tcp one needs a network and a zone to be reached from.
GcpImport ==
  CASE cfg.kind = "http" -> "saveImport"
    [] cfg.kind = "tcp" -> IF cfg.zone THEN "addr" ELSE "idle"
    [] cfg.kind = "queue" -> "subscription"

\* Azure: the reconciler never calls with a handle that could give the subscription.
AzureImport ==
  IF ~ cfg.known THEN "idle" ELSE IF cfg.kind = "queue" THEN "queue" ELSE "endpoint"

\* AWS copies what the export's handle says, without a call.
AwsImport == "saveImport"

ImportOf ==
  CASE cfg.cloud = "gcp" -> GcpImport
    [] cfg.cloud = "azure" -> AzureImport
    [] cfg.cloud = "aws" -> AwsImport

\* An import that has a handle is skipped, and so is one of an export that has none.
Rewires == imp.to = None /\ rec.export # None

WireImport ==
  /\ at = "wire"
  /\ IF Rewires /\ ImportOf # "idle" THEN Goto(ImportOf) ELSE End
  /\ UNCHANGED <<cfg, exporter, importer, bounds>>

\* GCP, tcp: reserve an address, which may be there already and is then not waited for.
ReserveAddress ==
  /\ at = "addr"
  /\ IF addr = "none" THEN addr' = "pending" /\ Goto("addrWait")
     ELSE UNCHANGED addr /\ Goto("getAddr")
  /\ UNCHANGED <<cfg, exporter, imp, ep, dns, early, kept, bounds>>

AddressPolled ==
  /\ at = "addrWait" /\ addr # "pending"
  /\ IF addr = "ready" THEN Goto("getAddr") ELSE End
  /\ UNCHANGED <<cfg, exporter, importer, bounds>>

\* The address has an IP, unless it is still being reserved.
GetAddress ==
  /\ at = "getAddr"
  /\ \/ addr # "none" /\ at' = "rule" /\ ip' = "ip" /\ UNCHANGED mem
     \/ addr # "ready" /\ End
  /\ UNCHANGED <<cfg, exporter, importer, bounds>>

CreateRule_faulty ==
  /\ at = "rule"
  /\ \/ ep.st = "none" /\ rec.export \in alive /\ Goto("ruleWait")
        /\ ep' = [st |-> "pending", to |-> rec.export]
     \/ (ep.st # "none" \/ rec.export \notin alive) /\ End /\ UNCHANGED ep
  /\ UNCHANGED <<cfg, exporter, imp, addr, dns, early, kept, bounds>>

\* A forwarding rule to the service attachment; one that exists is taken for it.
CreateRule ==
  /\ at = "rule"
  /\ IF ep.st # "none"
     THEN /\ Goto("dns") /\ UNCHANGED ep
          /\ early' = (early \/ ep.st = "pending") /\ kept' = (ep.to # rec.export)
     ELSE /\ UNCHANGED <<early, kept>>
          /\ \/ rec.export \in alive /\ Goto("ruleWait")
                /\ ep' = [st |-> "pending", to |-> rec.export]
             \/ rec.export \notin alive /\ End /\ UNCHANGED ep
  /\ UNCHANGED <<cfg, exporter, imp, addr, dns, bounds>>

RulePolled_faulty ==
  /\ at = "ruleWait" /\ Goto("dns")
  /\ UNCHANGED <<cfg, exporter, importer, bounds>>

RulePolled ==
  /\ at = "ruleWait" /\ ep.st # "pending"
  /\ IF ep.st = "ready" THEN Goto("dns") ELSE End
  /\ UNCHANGED <<cfg, exporter, importer, bounds>>

\* GCP adds the A record, and takes one that exists for it; Azure puts it.
RecordedAddress == IF cfg.cloud = "gcp" /\ dns # "none" THEN dns ELSE ip

CreateRecord ==
  /\ at = "dns" /\ dns' = RecordedAddress /\ Goto("saveImport")
  /\ UNCHANGED <<cfg, exporter, imp, addr, ep, early, kept, bounds>>

\* GCP, queue: a subscription to the topic, refused for an empty one; 409 is taken for
\* success.
Subscribe ==
  /\ at = "subscription"
  /\ \/ ep.st # "none" /\ Goto("saveImport") /\ kept' = (ep.to # rec.export) /\ UNCHANGED ep
     \/ /\ ep.st = "none" /\ rec.export \in alive
        /\ ep' = [st |-> "ready", to |-> rec.export] /\ Goto("saveImport") /\ UNCHANGED kept
     \/ rec.export \notin alive /\ End /\ UNCHANGED <<ep, kept>>
  /\ UNCHANGED <<cfg, exporter, imp, addr, dns, early, bounds>>

\* With a zone the endpoint's address goes into an A record; without one it is all there
\* is to reach it by.
AfterEndpoint(a) ==
  ip' = a /\ at' = (IF cfg.zone THEN "dns" ELSE "saveImport") /\ UNCHANGED mem

\* arm_put_and_wait for an endpoint, which may be there with another target: taken for
\* done (200, 201), or polled (202).
EndpointPut(done) ==
  /\ \/ /\ rec.export \in alive /\ ep' \in [st : {"pending", "ready"}, to : {rec.export}]
        /\ early' = (ep'.st = "pending") /\ done
     \/ /\ rec.export \in alive /\ ep' = [st |-> "pending", to |-> rec.export]
        /\ UNCHANGED early /\ Goto("endpointWait")
     \/ rec.export \notin alive /\ End /\ UNCHANGED <<ep, early>>
  /\ UNCHANGED <<cfg, exporter, imp, addr, dns, kept, bounds>>

\* Azure: a private endpoint to the exporter's link service.  The reply names its
\* interface or does not; without one the address is a placeholder.
PutEndpoint == at = "endpoint" /\ EndpointPut(Goto("nic") \/ AfterEndpoint("zero"))

\* Azure, queue: a private endpoint to the namespace, whose address nobody asks for.  The
\* importer is never granted the right to receive.
PutQueueEndpoint == at = "queue" /\ EndpointPut(Goto("saveImport"))

\* What a polled PUT returns is the operation, which names no interface.
EndpointPolled ==
  /\ at = "endpointWait" /\ ep.st # "pending"
  /\ IF ep.st = "none" THEN End /\ UNCHANGED early
     ELSE early' = FALSE /\ IF cfg.kind = "queue" THEN Goto("saveImport") ELSE AfterEndpoint("zero")
  /\ UNCHANGED <<cfg, exporter, imp, addr, ep, dns, kept, bounds>>

\* The status of this GET is not looked at.
GetInterface ==
  /\ at = "nic"
  /\ \/ ep.st # "none" /\ AfterEndpoint("ip") /\ UNCHANGED faults
     \/ ep.st = "none" /\ AfterEndpoint("zero") /\ UNCHANGED faults
     \/ AfterEndpoint("zero") /\ Fault
  /\ UNCHANGED <<cfg, exporter, importer, edits>>

SaveImport ==
  /\ at = "saveImport" /\ imp' = [to |-> rec.export, ip |-> ip] /\ End
  /\ UNCHANGED <<cfg, exporter, addr, ep, dns, early, kept, bounds>>

----------------------------------------------------------------------------
(* The cloud, the operator, and what goes wrong *)

Made ==
  /\ \/ addr = "pending" /\ addr' = "ready" /\ UNCHANGED <<ep, early>>
     \/ ep.st = "pending" /\ ep' = [ep EXCEPT !.st = "ready"] /\ early' = FALSE
        /\ UNCHANGED addr
  /\ UNCHANGED <<cfg, exporter, call, imp, dns, kept, bounds>>

NotMade ==
  /\ Fault
  /\ \/ addr = "pending" /\ addr' = "none" /\ UNCHANGED ep
     \/ ep.st = "pending" /\ ep' = [st |-> "none", to |-> 0] /\ UNCHANGED addr
  /\ UNCHANGED <<cfg, exporter, call, imp, dns, early, kept, edits>>

\* A timeout, an error reply, a crash; the apply's copy of the record is lost, and a
\* child of Terraform that dies with the server leaves its lock.
Fail ==
  /\ at # "idle" /\ Fault /\ End
  /\ \/ UNCHANGED locked
     \/ at = "terraform" /\ locked' = TRUE
  /\ UNCHANGED <<cfg, alive, made, rec, open, importer, edits>>

\* The request is carried out and its reply never arrives.
LostReply ==
  /\ Fault /\ End
  /\ \/ at = "addr" /\ addr = "none" /\ addr' = "pending" /\ UNCHANGED <<ep, dns, open>>
     \/ /\ at \in {"rule", "subscription", "endpoint", "queue"} /\ rec.export \in alive
        /\ ep.st = "none" \/ cfg.cloud = "azure"
        /\ ep' = [st |-> IF at = "subscription" THEN "ready" ELSE "pending", to |-> rec.export]
        /\ UNCHANGED <<addr, dns, open>>
     \/ at = "dns" /\ dns' = RecordedAddress /\ UNCHANGED <<addr, ep, open>>
     \/ at = "export" /\ cfg.public /\ open' = alive /\ UNCHANGED <<addr, ep, dns>>
  /\ UNCHANGED <<cfg, alive, made, locked, rec, imp, early, kept, edits>>

\* Between two applies: the partition's configuration changes, the partition is
\* destroyed, or its enclave.  Whatever the teardown leaves (of a partition all, where
\* the lock is left or Terraform's directory is gone), the record goes.
Edit ==
  /\ at = "idle" /\ edits < MaxEdits /\ edits' = edits + 1
  /\ \/ rec' = [rec EXCEPT !.fresh = FALSE] /\ UNCHANGED alive
     \/ rec.there /\ rec' = NoRecord /\ alive' \in SUBSET alive
     \/ /\ rec.part /\ rec' = [rec EXCEPT !.part = FALSE, !.fresh = FALSE, !.outs = 0]
        /\ alive' \in IF locked THEN {alive} ELSE SUBSET alive
  /\ open' = open \cap alive'
  /\ UNCHANGED <<cfg, made, locked, importer, call, faults>>

\* The operator removes the lock.
ForceUnlock ==
  /\ locked /\ locked' = FALSE
  /\ UNCHANGED <<cfg, alive, made, rec, open, importer, call, bounds>>

Reconcile ==
  \/ Begin \/ Terraform \/ ProvisionExport \/ Save \/ WireImport
  \/ ReserveAddress \/ AddressPolled \/ GetAddress \/ CreateRule \/ RulePolled \/ CreateRecord
  \/ Subscribe \/ PutEndpoint \/ PutQueueEndpoint \/ EndpointPolled \/ GetInterface \/ SaveImport

WiringNext ==
  Reconcile \/ Apply \/ Made \/ NotMade \/ Fail \/ LostReply \/ Edit \/ ForceUnlock

\* Applies run to their end and are repeated, and the cloud finishes what it has begun.
\* Nobody need remove a lock.
WiringFairness == WF_vars(Reconcile) /\ WF_vars(Apply) /\ WF_vars(Made)

WiringSpec == Init /\ [][WiringNext]_vars

----------------------------------------------------------------------------
(* Properties. *)

NeedsEndpoint == cfg.cloud = "azure" \/ On("gcp", {"tcp", "queue"})

\* An import that has a handle is connected: to the service its export named, but for
\* an endpoint an earlier attempt had left (`kept') or one taken for done while it was
\* pending (`early'); under a name that gives the address the handle says; and to
\* nothing at all only where nothing is asked of the cloud.
WiredIsConnected ==
  imp.to # None =>
    /\ NeedsEndpoint => (ep.st = "ready" \/ early) /\ (imp.to # 0 \/ kept)
    /\ NeedsEndpoint /\ ep.st = "ready" => ep.to = imp.to \/ kept
    /\ dns # "none" => dns = imp.ip

\* GCP's exports catch up with Terraform however often the service was replaced, the
\* exporter destroyed or an apply cut short, once no lock is left: in the end the handle
\* names the service there is, and one without authentication is open to all.
ExportsCatchUp ==
  cfg.cloud = "gcp" /\ <>[]~ locked
    => <>[](rec.export \in alive /\ (cfg.public => rec.export \in open))

\* An import whose enclave has what it takes is wired in the end, whatever was left
\* half made, if its export names a service that stays: on Azure and AWS it need not.
ImportsEnd ==
  (cfg.cloud = "gcp" => cfg.zone \/ cfg.kind = "http") /\ cfg.known /\ <>[](rec.export \in alive)
    => <>[](imp.to # None)

=============================================================================
