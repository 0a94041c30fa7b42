----------------------------- MODULE StateStore -----------------------------
(***************************************************************************)
(* What nclav's store promises about enclave records, as the in-memory     *)
(* store keeps it: every call happens at once, and a partition is a part   *)
(* of its enclave's record.                                                *)
(***************************************************************************)
CONSTANTS
  Enclave, Part,
  Value        \* what a record or a partition may hold

VARIABLES
  table,       \* the enclave records
  last         \* the call that took effect last

vars == <<table, last>>

Absent == [present |-> FALSE]
Record == [present : {TRUE}, own : Value, parts : UNION {[S -> Value] : S \in SUBSET Part}]

TableOK == table \in [Enclave -> Record \cup {Absent}]

Init == table = [e \in Enclave |-> Absent] /\ last = [op |-> "none"]

WithPart(rec, p, v) ==
  [rec EXCEPT !.parts = [q \in DOMAIN rec.parts \cup {p} |->
                           IF q = p THEN v ELSE rec.parts[q]]]
WithoutPart(rec, p) ==
  [rec EXCEPT !.parts = [q \in DOMAIN rec.parts \ {p} |-> rec.parts[q]]]

UpsertEnclave(e, rec) ==
  /\ table' = [table EXCEPT ![e] = rec]
  /\ last' = [op |-> "upsert_enclave", e |-> e, rec |-> rec]

DeleteEnclave(e) ==
  /\ table' = [table EXCEPT ![e] = Absent]
  /\ last' = [op |-> "delete_enclave", e |-> e]

\* Of a partition in an enclave the store does not have there is no record: the
\* call fails.
UpsertPartition(e, p, v) ==
  /\ table[e].present
  /\ table' = [table EXCEPT ![e] = WithPart(table[e], p, v)]
  /\ last' = [op |-> "upsert_part", e |-> e, p |-> p, v |-> v]

DeletePartition(e, p) ==
  /\ table[e].present
  /\ table' = [table EXCEPT ![e] = WithoutPart(table[e], p)]
  /\ last' = [op |-> "delete_part", e |-> e, p |-> p]

Next ==
  \E e \in Enclave :
    \/ \E rec \in Record : UpsertEnclave(e, rec)
    \/ DeleteEnclave(e)
    \/ \E p \in Part : DeletePartition(e, p) \/ \E v \in Value : UpsertPartition(e, p, v)

Spec == Init /\ [][Next]_vars

=============================================================================
