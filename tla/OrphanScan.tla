----------------------------- MODULE OrphanScan -----------------------------
(***************************************************************************)
(* `nclav orphans': the server reads all the records, then asks the cloud  *)
(* of each for the resources that carry a partition's label, and reports   *)
(* those whose partition was not in the record it had read.  Applies and   *)
(* destroys go on between the two.  Composed with CloudWiring, whose       *)
(* partition is the one that is looked for; the scan changes nothing.      *)
(***************************************************************************)
EXTENDS CloudWiring

VARIABLES
  scan,            \* "idle", "listed"
  known,           \* of the record it read: an enclave's handle, the partition
  report,          \* the last reply: services without a record
  asked,           \* history: the cloud has answered, and all of it was read
  held, left       \* history, since the records were read: the partition was recorded
                   \* all the time; the services that were there, unrecorded, all the time

scanVars == <<scan, known, report, asked, held, left>>

ScanInit ==
  /\ Init
  /\ scan = "idle" /\ known = [there |-> FALSE, part |-> FALSE] /\ report = {}
  /\ asked = FALSE /\ held = FALSE /\ left = {}

\* The services of an enclave that has a record, without one of their partition.
Unrecorded == IF rec.there /\ ~ rec.part THEN alive ELSE {}

ListEnclaves ==
  /\ scan = "idle" /\ scan' = "listed" /\ report' = {} /\ asked' = FALSE
  /\ known' = [there |-> rec.there, part |-> rec.part]
  /\ held' = rec.part /\ left' = Unrecorded
  /\ UNCHANGED vars

Unknown_faulty == alive

\* What carries a partition's label, but not one of the record that was read.
Unknown == IF known.part THEN {} ELSE alive

Answer(found) == [ok |-> TRUE, found |-> found]
Error == [ok |-> FALSE, found |-> {}]

\* list_orphaned_resources.  GCP does not look at the status of the reply, Azure takes an
\* error for an empty answer, AWS returns it.
GcpOrphans(ok) == IF ok THEN Answer(Unknown) ELSE Answer({})
AzureOrphans(ok) == IF ok THEN Answer(Unknown) ELSE Answer({})
AwsOrphans(ok) == IF ok THEN Answer(Unknown) ELSE Error

OrphansOf(ok) ==
  CASE cfg.cloud = "gcp" -> GcpOrphans(ok)
    [] cfg.cloud = "azure" -> AzureOrphans(ok)
    [] cfg.cloud = "aws" -> AwsOrphans(ok)

\* An enclave without a handle is not asked about, and one whose driver fails is left
\* out.  Of a long answer only the first page is read: not ok either.
AskCloud ==
  /\ scan = "listed" /\ scan' = "idle"
  /\ \/ ~ known.there /\ report' = {} /\ asked' = FALSE /\ UNCHANGED vars
     \/ /\ known.there /\ asked' \in BOOLEAN
        /\ LET reply == OrphansOf(asked') IN report' = IF reply.ok THEN reply.found ELSE {}
        /\ IF asked' THEN UNCHANGED faults ELSE Fault
        /\ UNCHANGED <<cfg, exporter, importer, call, edits>>
  /\ UNCHANGED <<known, held, left>>

\* The command's exit status.
Exit == IF report = {} THEN 0 ELSE 1

\* What happens meanwhile.
Meanwhile ==
  /\ WiringNext
  /\ IF scan = "listed"
     THEN held' = (held /\ rec'.part) /\ left' = left \cap Unrecorded'
     ELSE UNCHANGED <<held, left>>
  /\ UNCHANGED <<scan, known, report, asked>>

Next == ListEnclaves \/ AskCloud \/ Meanwhile

Spec == ScanInit /\ [][Next]_<<vars, scanVars>>
FairSpec == Spec /\ WiringFairness

----------------------------------------------------------------------------
(* Properties. *)

\* A partition that was recorded all along is not reported, and what was left without a
\* record all along is, provided the cloud answered; what appears or goes meanwhile may
\* be either.
ScanTells ==
  /\ Exit = 1 => ~ held
  /\ asked /\ left # {} => left \subseteq report /\ Exit = 1

=============================================================================
