---------------------------- MODULE StoreProofs -----------------------------
(***************************************************************************)
(* For any enclaves, partitions, callers and either persistent store: what *)
(* a partition call undoes by writing back the record it has read is what  *)
(* others changed in it since, and unless somebody did, the call is one    *)
(* call on the store whose calls happen at once.                           *)
(***************************************************************************)
EXTENDS StoreBackend, TLAPS

\* What a caller has read is still the record, but for what it has missed.
Fresh ==
  \A c \in Caller : call[c].pc = "read" =>
    /\ OwnOf(call[c].copy) = OwnOf(table[call[c].e]) \/ missed[c].own
    /\ \A p \in Part : \/ PartOf(call[c].copy, p) = PartOf(table[call[c].e], p)
                       \/ p \in missed[c].parts

StoreInv == TypeOK /\ Fresh

\* Who is under way has the fields of a call; who has read has a record.
LEMMA CallFields ==
  ASSUME TypeOK, NEW c \in Caller
  PROVE  /\ call[c] \in CallRec
         /\ ~ Quiet(c) => /\ call[c].op \in Op /\ call[c].e \in Enclave
                          /\ call[c].p \in Part /\ call[c].v \in Value
         /\ call[c].pc = "read" => call[c].copy \in Contract!Record
         /\ call[c].pc \in {"idle", "begun", "read"}
<1>1. call[c] \in CallRec
  BY DEF TypeOK
<1> QED BY <1>1 DEF CallRec, Quiet

\* What a partition put into a record, or taken out of it, leaves: a record that says the
\* same of all the rest.
LEMMA PartsTyped ==
  ASSUME NEW rec \in Contract!Record, NEW p \in Part, NEW v \in Value
  PROVE  /\ Contract!WithPart(rec, p, v) \in Contract!Record
         /\ Contract!WithoutPart(rec, p) \in Contract!Record
         /\ OwnOf(Contract!WithPart(rec, p, v)) = OwnOf(rec)
         /\ OwnOf(Contract!WithoutPart(rec, p)) = OwnOf(rec)
         /\ PartOf(Contract!WithPart(rec, p, v), p) = {v}
         /\ PartOf(Contract!WithoutPart(rec, p), p) = {}
         /\ \A q \in Part \ {p} :
              /\ PartOf(Contract!WithPart(rec, p, v), q) = PartOf(rec, q)
              /\ PartOf(Contract!WithoutPart(rec, p), q) = PartOf(rec, q)
<1>1. PICK S \in SUBSET Part : rec.parts \in [S -> Value]
  BY DEF Contract!Record
<1> DEFINE with    == [q \in DOMAIN rec.parts \cup {p} |-> IF q = p THEN v ELSE rec.parts[q]]
           without == [q \in DOMAIN rec.parts \ {p} |-> rec.parts[q]]
           W == [rec EXCEPT !.parts = with]
           O == [rec EXCEPT !.parts = without]
<1>2. with \in [S \cup {p} -> Value] /\ without \in [S \ {p} -> Value]
  BY <1>1
<1>3. S \cup {p} \in SUBSET Part /\ S \ {p} \in SUBSET Part
  OBVIOUS
<1>4. with \in UNION {[T -> Value] : T \in SUBSET Part}
      /\ without \in UNION {[T -> Value] : T \in SUBSET Part}
  BY <1>2, <1>3
<1>5. /\ DOMAIN with = S \cup {p} /\ DOMAIN without = S \ {p} /\ DOMAIN rec.parts = S
      /\ with[p] = v /\ \A q \in S \ {p} : with[q] = rec.parts[q] /\ without[q] = rec.parts[q]
  BY <1>1
<1> HIDE DEF with, without
<1>6. /\ W \in Contract!Record /\ O \in Contract!Record
      /\ W.parts = with /\ O.parts = without
      /\ W.present /\ O.present /\ rec.present /\ W.own = rec.own /\ O.own = rec.own
  BY <1>4 DEF Contract!Record
<1> HIDE DEF W, O
<1>7. OwnOf(W) = OwnOf(rec) /\ OwnOf(O) = OwnOf(rec)
  BY <1>6 DEF OwnOf
<1>8. PartOf(W, p) = {v} /\ PartOf(O, p) = {}
  BY <1>5, <1>6 DEF PartOf
<1>9. \A q \in Part \ {p} : PartOf(W, q) = PartOf(rec, q) /\ PartOf(O, q) = PartOf(rec, q)
  BY <1>5, <1>6 DEF PartOf
<1>10. W = Contract!WithPart(rec, p, v) /\ O = Contract!WithoutPart(rec, p)
  BY DEF W, O, with, without, Contract!WithPart, Contract!WithoutPart
<1> QED BY <1>6, <1>7, <1>8, <1>9, <1>10

\* Entries that say the same are the same.
LEMMA SameRecord ==
  ASSUME NEW rec \in Contract!Record, NEW x \in Contract!Record \cup {Contract!Absent},
         OwnOf(rec) = OwnOf(x), \A p \in Part : PartOf(rec, p) = PartOf(x, p)
  PROVE  rec = x
<1>1. rec.present /\ rec.own \in Value
  BY DEF Contract!Record
<1>2. rec.own \in OwnOf(rec)
  BY <1>1 DEF OwnOf
<1>3. x.present /\ x.own = rec.own
  BY <1>2 DEF OwnOf
<1>4. x \in Contract!Record
  BY <1>3 DEF Contract!Absent
<1>5. PICK S \in SUBSET Part : rec.parts \in [S -> Value]
  BY DEF Contract!Record
<1>6. PICK T \in SUBSET Part : x.parts \in [T -> Value]
  BY <1>4 DEF Contract!Record
<1>7. ASSUME NEW p \in Part PROVE (p \in S <=> p \in T) /\ (p \in S => rec.parts[p] = x.parts[p])
  <2>1. ASSUME p \in S PROVE p \in T /\ rec.parts[p] = x.parts[p]
    <3>1. rec.parts[p] \in PartOf(rec, p)
      BY <1>1, <1>5, <2>1 DEF PartOf
    <3>2. rec.parts[p] \in PartOf(x, p)
      BY <3>1
    <3> QED BY <1>6, <3>2 DEF PartOf
  <2>2. ASSUME p \in T PROVE p \in S
    <3>1. x.parts[p] \in PartOf(x, p)
      BY <1>3, <1>6, <2>2 DEF PartOf
    <3>2. x.parts[p] \in PartOf(rec, p)
      BY <3>1
    <3> QED BY <1>5, <3>2 DEF PartOf
  <2> QED BY <2>1, <2>2
<1>8. S = T
  BY <1>7
<1>9. rec.parts = x.parts
  BY <1>5, <1>6, <1>7, <1>8
<1>10. \A r \in Contract!Record : r = [present |-> TRUE, own |-> r.own, parts |-> r.parts]
  <2> DEFINE P == UNION {[D -> Value] : D \in SUBSET Part}
             yes == {TRUE}
  <2>1. Contract!Record = [present : yes, own : Value, parts : P]
    BY DEF Contract!Record
  <2>2. \A b \in yes : b = TRUE
    OBVIOUS
  <2> HIDE DEF P, yes
  <2>3. ASSUME NEW r \in [present : yes, own : Value, parts : P]
        PROVE  r = [present |-> r.present, own |-> r.own, parts |-> r.parts] /\ r.present \in yes
    OBVIOUS
  <2>4. ASSUME NEW r \in [present : yes, own : Value, parts : P]
        PROVE  r = [present |-> TRUE, own |-> r.own, parts |-> r.parts]
    <3>1. r.present = TRUE
      BY <2>2, <2>3
    <3> QED BY <2>3, <3>1, Zenon
  <2> QED BY <2>1, <2>4
<1>11. rec = [present |-> TRUE, own |-> rec.own, parts |-> rec.parts]
       /\ x = [present |-> TRUE, own |-> x.own, parts |-> x.parts]
  BY <1>4, <1>10
<1> QED BY <1>3, <1>9, <1>11

LEMMA InitInv == Init => StoreInv
<1> SUFFICES ASSUME Init PROVE StoreInv
  OBVIOUS
<1>1. Idle \in CallRec /\ Nothing \in [own : BOOLEAN, parts : SUBSET Part]
  BY DEF Idle, CallRec, Reply, Nothing
<1>2. /\ call = [c \in Caller |-> Idle] /\ table = [e \in Enclave |-> Contract!Absent]
      /\ missed = [c \in Caller |-> Nothing]
  BY DEF Init, Contract!Init
<1>3. call \in [Caller -> CallRec] /\ missed \in [Caller -> [own : BOOLEAN, parts : SUBSET Part]]
  BY <1>1, <1>2
<1>4. TypeOK
  BY <1>2, <1>3 DEF TypeOK, Contract!TableOK
<1>5. \A c \in Caller : call[c].pc = "idle"
  BY <1>2 DEF Idle
<1> QED BY <1>4, <1>5 DEF StoreInv, Fresh

----------------------------------------------------------------------------
\* A change of one enclave by a call that ends leaves every caller that has read it with
\* what it has missed.
LEMMA Changed ==
  ASSUME StoreInv, NEW c \in Caller, NEW e \in Enclave,
         NEW rec \in Contract!Record \cup {Contract!Absent},
         table' = [table EXCEPT ![e] = rec], Answer(c, "ok"), Miss(c, e)
  PROVE  StoreInv'
<1>t. /\ table \in [Enclave -> Contract!Record \cup {Contract!Absent}]
      /\ call \in [Caller -> CallRec] /\ missed \in [Caller -> [own : BOOLEAN, parts : SUBSET Part]]
      /\ TypeOK
  BY DEF StoreInv, TypeOK, Contract!TableOK
<1>1. Contract!TableOK' /\ \A f \in Enclave \ {e} : table'[f] = table[f]
  BY <1>t DEF Contract!TableOK
<1>2. [Idle EXCEPT !.reply = "ok"] \in CallRec /\ [Idle EXCEPT !.reply = "ok"].pc = "idle"
  BY DEF Idle, CallRec, Reply
<1>3. /\ call' \in [Caller -> CallRec] /\ call'[c].pc = "idle"
      /\ \A d \in Caller \ {c} : call'[d] = call[d]
  BY <1>t, <1>2 DEF Answer, SetCall
<1>4. \A d \in Caller : Later(d, e) \in [own : BOOLEAN, parts : SUBSET Part]
  <2> TAKE d \in Caller
  <2>1. missed[d] \in [own : BOOLEAN, parts : SUBSET Part]
    BY <1>t
  <2>2. missed[d].own \in BOOLEAN /\ missed[d].parts \subseteq Part
    BY <2>1
  <2> DEFINE o == missed[d].own \/ OwnOf(table'[e]) # OwnOf(table[e])
             s == missed[d].parts \cup {p \in Part : PartOf(table'[e], p) # PartOf(table[e], p)}
  <2>3. o \in BOOLEAN /\ s \in SUBSET Part
    BY <2>2
  <2>4. Later(d, e) = [own |-> o, parts |-> s]
    BY DEF Later
  <2> HIDE DEF o, s
  <2> QED BY <2>3, <2>4
<1>5. Nothing \in [own : BOOLEAN, parts : SUBSET Part]
  BY DEF Nothing
<1>6. missed' \in [Caller -> [own : BOOLEAN, parts : SUBSET Part]]
  BY <1>t, <1>4, <1>5 DEF Miss
<1>7. ASSUME NEW d \in Caller, call'[d].pc = "read"
      PROVE  /\ OwnOf(call'[d].copy) = OwnOf(table'[call'[d].e]) \/ missed'[d].own
             /\ \A p \in Part : \/ PartOf(call'[d].copy, p) = PartOf(table'[call'[d].e], p)
                                \/ p \in missed'[d].parts
  <2>1. d # c /\ call'[d] = call[d] /\ call[d].pc = "read" /\ call[d].e \in Enclave
    BY <1>t, <1>3, <1>7, CallFields DEF Quiet
  <2>2. /\ OwnOf(call[d].copy) = OwnOf(table[call[d].e]) \/ missed[d].own
        /\ \A p \in Part : \/ PartOf(call[d].copy, p) = PartOf(table[call[d].e], p)
                           \/ p \in missed[d].parts
    BY <2>1 DEF StoreInv, Fresh
  <2>3. CASE call[d].e # e
    <3>1. missed'[d] = missed[d] /\ table'[call[d].e] = table[call[d].e]
      BY <1>1, <2>1, <2>3 DEF Miss
    <3> QED BY <2>1, <2>2, <3>1
  <2>4. CASE call[d].e = e
    <3>1. missed'[d] = Later(d, e)
      BY <2>1, <2>4 DEF Miss
    <3> DEFINE o == missed[d].own \/ OwnOf(table'[e]) # OwnOf(table[e])
               s == missed[d].parts \cup {p \in Part : PartOf(table'[e], p) # PartOf(table[e], p)}
    <3>2. missed'[d].own = o /\ missed'[d].parts = s
      <4>1. missed'[d] = [own |-> o, parts |-> s]
        BY <3>1 DEF Later
      <4> HIDE DEF o, s
      <4> QED BY <4>1
    <3>3. OwnOf(call[d].copy) = OwnOf(table'[e]) \/ missed'[d].own
      BY <2>2, <2>4, <3>2
    <3>4. \A p \in Part : PartOf(call[d].copy, p) = PartOf(table'[e], p) \/ p \in missed'[d].parts
      BY <2>2, <2>4, <3>2
    <3> QED BY <2>1, <2>4, <3>3, <3>4
  <2> QED BY <2>3, <2>4
<1>8. Fresh'
  BY <1>7 DEF Fresh
<1> QED BY <1>1, <1>3, <1>6, <1>8 DEF StoreInv, TypeOK

\* A call that begins, reads or answers without a change leaves the others as they are.
LEMMA Unchanged ==
  ASSUME StoreInv, NEW c \in Caller, NEW rec \in CallRec, SetCall(c, rec),
         UNCHANGED <<table, missed>>,
         rec.pc = "read" => rec.copy = table[rec.e]
  PROVE  StoreInv'
<1>1. call' \in [Caller -> CallRec] /\ call'[c] = rec /\ \A d \in Caller \ {c} : call'[d] = call[d]
  BY DEF SetCall, StoreInv, TypeOK
<1>2. Fresh'
  BY <1>1 DEF StoreInv, Fresh
<1> QED BY <1>1, <1>2 DEF StoreInv, TypeOK, Contract!TableOK

\* Each step keeps the invariant and is a step, or none, of the contract, or that of a caller
\* that others overtook.
LEMMA Step ==
  ASSUME StoreInv, [Next]_vars
  PROVE  /\ StoreInv'
         /\ Contract!Next \/ (\E c \in Caller : OvertakenSave(c)) \/ UNCHANGED <<table, last>>
<1>t. /\ table \in [Enclave -> Contract!Record \cup {Contract!Absent}] /\ TypeOK
      /\ call \in [Caller -> CallRec] /\ missed \in [Caller -> [own : BOOLEAN, parts : SUBSET Part]]
  BY DEF StoreInv, TypeOK, Contract!TableOK
<1>0. CASE UNCHANGED vars
  BY <1>0 DEF vars, StoreInv, TypeOK, Fresh, Contract!TableOK
<1>1. ASSUME NEW c \in Caller, NEW e \in Enclave,
             (\E new \in Contract!Record : UpsertEnclave(c, e, new)) \/ DeleteEnclave(c, e)
      PROVE  StoreInv' /\ Contract!Next
  <2>1. (\E new \in Contract!Record : Contract!UpsertEnclave(e, new)) \/ Contract!DeleteEnclave(e)
    BY <1>1 DEF UpsertEnclave, DeleteEnclave
  <2>2. PICK rec \in Contract!Record \cup {Contract!Absent} : table' = [table EXCEPT ![e] = rec]
    BY <2>1 DEF Contract!UpsertEnclave, Contract!DeleteEnclave
  <2>3. Answer(c, "ok") /\ Miss(c, e)
    BY <1>1 DEF UpsertEnclave, DeleteEnclave
  <2>4. StoreInv'
    BY <2>2, <2>3, Changed
  <2> QED BY <2>1, <2>4 DEF Contract!Next
<1>2. ASSUME NEW c \in Caller, NEW e \in Enclave, NEW op \in Op, NEW p \in Part, NEW v \in Value,
             Begin(c, op, e, p, v)
      PROVE  StoreInv' /\ UNCHANGED <<table, last>>
  <2> DEFINE rec == [pc |-> "begun", op |-> op, e |-> e, p |-> p, v |-> v]
  <2>1. rec \in CallRec /\ rec.pc # "read"
    BY DEF CallRec
  <2>2. SetCall(c, rec) /\ UNCHANGED <<table, last, missed>>
    BY <1>2 DEF Begin
  <2> HIDE DEF rec
  <2> QED BY <2>1, <2>2, Unchanged
<1>3. ASSUME NEW c \in Caller, Read(c)
      PROVE  StoreInv' /\ UNCHANGED <<table, last>>
  <2>0. call[c].pc = "begun" /\ UNCHANGED <<table, last, missed>>
    BY <1>3 DEF Read
  <2>1. /\ call[c].op \in Op /\ call[c].e \in Enclave /\ call[c].p \in Part
        /\ call[c].v \in Value
    BY <1>t, <2>0, CallFields DEF Quiet
  <2>2. CASE ~ Found(call[c].e)
    <3> DEFINE rec == [Idle EXCEPT !.reply = Missing(c)]
    <3>1. rec \in CallRec /\ rec.pc # "read"
      BY DEF Idle, CallRec, Missing, Reply
    <3>2. SetCall(c, rec)
      BY <1>3, <2>2 DEF Read, Answer
    <3> HIDE DEF rec
    <3> QED BY <2>0, <3>1, <3>2, Unchanged
  <2>3. CASE Found(call[c].e)
    <3> DEFINE rec == [pc |-> "read", op |-> call[c].op, e |-> call[c].e, p |-> call[c].p,
                       v |-> call[c].v, copy |-> table[call[c].e]]
    <3>1. table[call[c].e] \in Contract!Record
      BY <1>t, <2>1, <2>3 DEF Found, Contract!Absent
    <3>2. rec \in CallRec /\ rec.copy = table[rec.e]
      BY <2>1, <3>1 DEF CallRec
    <3>3. SetCall(c, rec)
      BY <1>3, <2>3 DEF Read
    <3> HIDE DEF rec
    <3> QED BY <2>0, <3>2, <3>3, Unchanged
  <2> QED BY <2>2, <2>3
<1>4. ASSUME NEW c \in Caller, Save(c)
      PROVE  StoreInv' /\ (Contract!Next \/ OvertakenSave(c))
  <2> DEFINE q == call[c]
             now == table[q.e]
  <2>0. q.pc = "read" /\ table' = [table EXCEPT ![q.e] = Saved(q)]
        /\ last' = Effect(q) /\ Answer(c, "ok") /\ Miss(c, q.e)
    BY <1>4 DEF Save
  <2>1. /\ q.op \in Op /\ q.e \in Enclave /\ q.p \in Part
        /\ q.v \in Value /\ q.copy \in Contract!Record
    BY <1>t, <2>0, CallFields DEF Quiet
  <2>2. /\ Saved(q) \in Contract!Record
        /\ OwnOf(Saved(q)) = OwnOf(q.copy)
        /\ PartOf(Saved(q), q.p) = IF q.op = "upsert_part" THEN {q.v} ELSE {}
        /\ \A p \in Part \ {q.p} : PartOf(Saved(q), p) = PartOf(q.copy, p)
    <3>1. CASE q.op = "upsert_part"
      BY <2>1, <3>1, PartsTyped DEF Saved
    <3>2. CASE q.op # "upsert_part"
      BY <2>1, <3>2, PartsTyped DEF Saved
    <3> QED BY <3>1, <3>2
  <2>3. StoreInv'
    BY <2>0, <2>1, <2>2, Changed
  <2>4. /\ OwnOf(q.copy) = OwnOf(now) \/ missed[c].own
        /\ \A p \in Part : PartOf(q.copy, p) = PartOf(now, p) \/ p \in missed[c].parts
    BY <2>0 DEF StoreInv, Fresh
  <2>5. CASE missed[c] = Nothing
    <3>1. ~ missed[c].own /\ missed[c].parts = {}
      BY <2>5 DEF Nothing
    <3>2. now \in Contract!Record \cup {Contract!Absent}
      BY <1>t, <2>1
    <3>3. q.copy = now
      BY <2>1, <2>4, <3>1, <3>2, SameRecord
    <3>4. now.present
      BY <2>1, <3>3 DEF Contract!Record
    <3>5. Contract!UpsertPartition(q.e, q.p, q.v) \/ Contract!DeletePartition(q.e, q.p)
      BY <2>0, <2>1, <3>3, <3>4 DEF Saved, Effect, Op, Contract!UpsertPartition,
                                    Contract!DeletePartition
    <3> QED BY <2>1, <2>3, <3>5 DEF Contract!Next
  <2>6. CASE missed[c] # Nothing
    <3>1. table'[q.e] = Saved(q) /\ \A f \in Enclave \ {q.e} : table'[f] = table[f]
      BY <1>t, <2>0, <2>1
    <3>2. call'[c].pc = "idle"
      BY <1>t, <2>0 DEF Answer, SetCall, Idle
    <3>3. ASSUME NEW e \in Enclave
          PROVE  /\ OwnOf(table'[e]) # OwnOf(table[e]) => e = q.e /\ missed[c].own
                 /\ \A p \in Part : PartOf(table'[e], p) # PartOf(table[e], p) =>
                      e = q.e /\ (p = q.p \/ p \in missed[c].parts)
      <4>1. CASE e # q.e
        BY <3>1, <4>1
      <4>2. CASE e = q.e
        <5>1. OwnOf(table'[e]) # OwnOf(table[e]) => missed[c].own
          BY <2>2, <2>4, <3>1, <4>2
        <5>2. \A p \in Part : PartOf(table'[e], p) # PartOf(table[e], p) =>
                p = q.p \/ p \in missed[c].parts
          BY <2>2, <2>4, <3>1, <4>2
        <5> QED BY <4>2, <5>1, <5>2
      <4> QED BY <4>1, <4>2
    <3> QED BY <2>0, <2>2, <2>3, <2>6, <3>1, <3>2, <3>3 DEF OvertakenSave
  <2> QED BY <2>5, <2>6
<1>5. ASSUME NEW gone \in SUBSET Caller, Drop(gone)
      PROVE  StoreInv' /\ UNCHANGED <<table, last>>
  <2>1. /\ Idle \in CallRec /\ Idle.pc = "idle"
        /\ Nothing \in [own : BOOLEAN, parts : SUBSET Part]
    BY DEF Idle, CallRec, Reply, Nothing
  <2>2. /\ UNCHANGED <<table, last>>
        /\ call' = [c \in Caller |-> IF c \in gone THEN Idle ELSE call[c]]
        /\ missed' = [c \in Caller |-> IF c \in gone THEN Nothing ELSE missed[c]]
    BY <1>5 DEF Drop
  <2>3. /\ call' \in [Caller -> CallRec]
        /\ missed' \in [Caller -> [own : BOOLEAN, parts : SUBSET Part]]
    BY <1>t, <2>1, <2>2
  <2>4. \A c \in Caller : call'[c].pc = "idle" \/ (call'[c] = call[c] /\ missed'[c] = missed[c])
    BY <2>1, <2>2
  <2>5. Fresh'
    BY <2>2, <2>4 DEF StoreInv, Fresh
  <2> QED BY <1>t, <2>2, <2>3, <2>5 DEF StoreInv, TypeOK, Contract!TableOK
<1> QED BY <1>0, <1>1, <1>2, <1>3, <1>4, <1>5 DEF Next, vars

----------------------------------------------------------------------------
\* AtomicUnlessOvertaken: whatever the callers do, in any overlap, and wherever they are
\* dropped, a partition call that nobody overtook is one call of the contract, and one that
\* was undoes only what the others changed in its enclave since it read the record.
THEOREM UndoesOnlyTheMissed == Spec => AtomicUnlessOvertaken
<1>1. Init => StoreInv /\ Contract!Init
  BY InitInv DEF Init
<1>2. StoreInv /\ [Next]_vars => StoreInv'
  BY Step
<1>3. StoreInv /\ [Next]_vars =>
        [Contract!Next \/ \E c \in Caller : OvertakenSave(c)]_<<table, last>>
  BY Step
<1> QED BY <1>1, <1>2, <1>3, PTL DEF Spec, AtomicUnlessOvertaken

\* Tables, calls and what they have missed keep their types.
THEOREM StoreTyped == Spec => []TypeOK
<1>1. Init => StoreInv
  BY InitInv
<1>2. StoreInv /\ [Next]_vars => StoreInv'
  BY Step
<1>3. StoreInv => TypeOK
  BY DEF StoreInv
<1> QED BY <1>1, <1>2, <1>3, PTL DEF Spec

=============================================================================
