---------------------------- MODULE StoreBackend ----------------------------
(***************************************************************************)
(* The persistent stores, redb and PostgreSQL: a partition call reads the  *)
(* enclave's record in one transaction and writes it back in another.      *)
(* Callers are requests in the server, and nothing keeps their calls       *)
(* apart; they may be dropped between the two transactions.                *)
(***************************************************************************)
EXTENDS FiniteSets

CONSTANTS
  Enclave, Part, Value,
  Caller,
  Postgres     \* PostgreSQL, or redb

ASSUME StoreAssumption == Postgres \in BOOLEAN

VARIABLES
  table,
  last,        \* history: the call that took effect last
  call,        \* per caller: what it asked, and what it has read
  missed       \* history, per caller: what others changed in the record it has read

vars == <<table, last, call, missed>>

Contract == INSTANCE StateStore

Op == {"upsert_part", "delete_part"}
Idle == [pc |-> "idle", reply |-> "none"]
Reply == {"none", "ok", "not_found"}
CallRec == [pc : {"idle"}, reply : Reply]
           \cup [pc : {"begun"}, op : Op, e : Enclave, p : Part, v : Value]
           \cup [pc : {"read"}, op : Op, e : Enclave, p : Part, v : Value,
                 copy : Contract!Record]

Nothing == [own |-> FALSE, parts |-> {}]

TypeOK ==
  /\ Contract!TableOK /\ call \in [Caller -> CallRec]
  /\ missed \in [Caller -> [own : BOOLEAN, parts : SUBSET Part]]

Init ==
  /\ Contract!Init
  /\ call = [c \in Caller |-> Idle] /\ missed = [c \in Caller |-> Nothing]

Quiet(c)   == call[c].pc = "idle"
SetCall(c, rec) == call' = [call EXCEPT ![c] = rec]
Answer(c, r) == SetCall(c, [Idle EXCEPT !.reply = r])

\* What a record, or its absence, says of the enclave itself and of a partition.
OwnOf(rec)     == {v \in Value : rec.present /\ rec.own = v}
PartOf(rec, p) == {v \in Value : rec.present /\ p \in DOMAIN rec.parts /\ rec.parts[p] = v}

\* A call by c changes the enclave e: those that have read its record have missed it.
Later(d, e) ==
  [own   |-> missed[d].own \/ OwnOf(table'[e]) # OwnOf(table[e]),
   parts |-> missed[d].parts \cup {p \in Part : PartOf(table'[e], p) # PartOf(table[e], p)}]
Miss(c, e) ==
  missed' = [d \in Caller |->
               IF d = c THEN Nothing
               ELSE IF call[d].pc = "read" /\ call[d].e = e THEN Later(d, e) ELSE missed[d]]

\* upsert_enclave: a single transaction that replaces the whole record.
UpsertEnclave(c, e, rec) ==
  /\ Quiet(c)
  /\ Contract!UpsertEnclave(e, rec)
  /\ Answer(c, "ok") /\ Miss(c, e)

\* delete_enclave: a single transaction.
DeleteEnclave(c, e) ==
  /\ Quiet(c)
  /\ Contract!DeleteEnclave(e)
  /\ Answer(c, "ok") /\ Miss(c, e)

\* upsert_partition, delete_partition: called ...
Begin(c, op, e, p, v) ==
  /\ Quiet(c)
  /\ SetCall(c, [pc |-> "begun", op |-> op, e |-> e, p |-> p, v |-> v])
  /\ UNCHANGED <<table, last, missed>>

\* ... what a call on an enclave without a record answers ...
Missing(c) ==
  IF call[c].op = "upsert_part" \/ Postgres THEN "not_found" ELSE "ok"

Found(e) == table[e].present

\* ... get_enclave ...
Read(c) ==
  /\ call[c].pc = "begun"
  /\ LET q == call[c]
     IN IF Found(q.e)
        THEN SetCall(c, [pc |-> "read", op |-> q.op, e |-> q.e, p |-> q.p, v |-> q.v,
                         copy |-> table[q.e]])
        ELSE Answer(c, Missing(c))
  /\ UNCHANGED <<table, last, missed>>

SavedBlank_faulty(q) ==
  IF q.op = "upsert_part" THEN [q.copy EXCEPT !.parts = [r \in {q.p} |-> q.v]]
                          ELSE Contract!WithoutPart(q.copy, q.p)

\* ... and upsert_enclave of the changed copy.
Saved(q) ==
  IF q.op = "upsert_part" THEN Contract!WithPart(q.copy, q.p, q.v)
                          ELSE Contract!WithoutPart(q.copy, q.p)

Effect(q) ==
  IF q.op = "upsert_part" THEN [op |-> q.op, e |-> q.e, p |-> q.p, v |-> q.v]
                          ELSE [op |-> q.op, e |-> q.e, p |-> q.p]

Save(c) ==
  /\ call[c].pc = "read"
  /\ table' = [table EXCEPT ![call[c].e] = Saved(call[c])]
  /\ last' = Effect(call[c])
  /\ Answer(c, "ok") /\ Miss(c, call[c].e)

\* The request is dropped, or the server dies with all of them.
Drop(gone) ==
  /\ \E c \in gone : ~ Quiet(c)
  /\ call' = [c \in Caller |-> IF c \in gone THEN Idle ELSE call[c]]
  /\ missed' = [c \in Caller |-> IF c \in gone THEN Nothing ELSE missed[c]]
  /\ UNCHANGED <<table, last>>

Next ==
  \/ \E c \in Caller :
       \/ \E e \in Enclave :
            \/ \E rec \in Contract!Record : UpsertEnclave(c, e, rec)
            \/ DeleteEnclave(c, e)
            \/ \E op \in Op, p \in Part, v \in Value : Begin(c, op, e, p, v)
       \/ Read(c) \/ Save(c)
  \/ \E gone \in SUBSET Caller : Drop(gone)

Spec == Init /\ [][Next]_vars

----------------------------------------------------------------------------
(* Properties. *)

\* The caller that others overtook writes back what it has read: what they have changed
\* since may be undone -- and nothing else, not in its enclave nor in another.
OvertakenSave(c) ==
  /\ call[c].pc = "read" /\ call'[c].pc = "idle"
  /\ missed[c] # Nothing
  /\ last' = Effect(call[c])
  /\ \A e \in Enclave :
       /\ OwnOf(table'[e]) # OwnOf(table[e]) => e = call[c].e /\ missed[c].own
       /\ \A p \in Part :
            PartOf(table'[e], p) # PartOf(table[e], p) =>
              e = call[c].e /\ (p = call[c].p \/ p \in missed[c].parts)
  /\ PartOf(table'[call[c].e], call[c].p) =
       IF call[c].op = "upsert_part" THEN {call[c].v} ELSE {}

\* A call on the persistent store is one call, or none, on the store whose calls happen
\* at once, unless another call on the enclave came between its two transactions: then
\* the change of that one may be undone, and no other.
AtomicUnlessOvertaken ==
  Contract!Init /\ [][Contract!Next \/ \E c \in Caller : OvertakenSave(c)]_<<table, last>>

=============================================================================
