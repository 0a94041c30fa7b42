---------------------------- MODULE EnclaveGraph ----------------------------
(***************************************************************************)
(* nclav-graph's validate(): the checks of each enclave in turn, then the  *)
(* graph of who imports from whom and the order reconcile() provisions in. *)
(* petgraph is not part of the repository: its toposort returns some order *)
(* that respects the edges.  An export's `auth' is left out: validate()    *)
(* never looks at it.                                                      *)
(***************************************************************************)
EXTENDS Integers, Sequences, FiniteSets

CONSTANTS
  Id,      \* enclave ids
  Name,    \* export names
  Part,    \* partition ids
  Configs  \* what load_enclaves may return: sequences of enclaves

Types   == {"http", "tcp", "queue"}
Targets == [kind : {"public", "any_enclave", "vpn"}]
             \cup [kind : {"enclave"}, id : Id] \cup [kind : {"partition"}, part : Part]
Keys    == {"hostname", "port", "queue_url"}

ImportRec == [from : Id, name : Name]
ExportRec == [name : Name, target : Part, type : Types, to : Targets]
PartRec   == [id : Part, produces : Types \cup {"nothing"}, outputs : SUBSET Keys,
              imports : Seq(ImportRec)]
Enclave   == [id : Id, imports : Seq(ImportRec), exports : Seq(ExportRec),
              parts : Seq(PartRec)]

ASSUME ConfigAssumption == Configs \subseteq Seq(Enclave)

VARIABLES
  enclaves,  \* the argument
  at,        \* the enclave to be checked next
  errors,    \* the errors pushed so far, each with its enclave's place
  wiring,    \* the imports found good so far
  result,    \* "checking", then "accepted", "rejected" or "cycle"
  order      \* topo_order, as places in enclaves

vars == <<enclaves, at, errors, wiring, result, order>>

Elems(s) == {s[i] : i \in DOMAIN s}
Place    == DOMAIN enclaves

WireRec == [importer : Id, from : Id, name : Name]

\* by_id, node_map and reconcile()'s desired_map: the last enclave of an id.
LastOf(id) == CHOOSE i \in Place : /\ enclaves[i].id = id
                                   /\ \A j \in Place : enclaves[j].id = id => j <= i
Known(id)  == \E i \in Place : enclaves[i].id = id

\* iter().find(): the first of the places where the test holds.
First(places) == CHOOSE i \in places : \A j \in places : i <= j

Named(exports, name) == {i \in DOMAIN exports : exports[i].name = name}
Called(parts, id)    == {i \in DOMAIN parts : parts[i].id = id}

Required(type) == CASE type = "queue"   -> {"queue_url"}
                    [] type = "nothing" -> {}
                    [] OTHER            -> {"hostname", "port"}

Permits(export, importer) ==
  \/ export.to.kind \in {"public", "any_enclave", "vpn"}
  \/ export.to.kind = "enclave" /\ export.to.id = importer

----------------------------------------------------------------------------
(* The checks of one enclave, each the errors it pushes. *)

MissingOutputs(e) ==
  UNION {{[kind |-> "MissingRequiredOutput", part |-> p.id, key |-> k]
            : k \in Required(p.produces) \ p.outputs} : p \in Elems(e.parts)}

\* An export whose target is not there, or produces nothing, matches anything.
Mismatches(e) ==
  {[kind |-> "ProducesExportMismatch", name |-> x.name]
     : x \in {y \in Elems(e.exports) :
                /\ Called(e.parts, y.target) # {}
                /\ LET p == e.parts[First(Called(e.parts, y.target))]
                   IN  p.produces \notin {"nothing", y.type}}}

\* The imports of the enclave itself and of its partitions.
Imports(e) == Elems(e.imports) \cup UNION {Elems(p.imports) : p \in Elems(e.parts)}

ExportOf(m) == LET exports == enclaves[LastOf(m.from)].exports
               IN  exports[First(Named(exports, m.name))]

\* check_import: why an import is refused, or "ok".
Verdict(importer, m) ==
  IF ~ Known(m.from) THEN "DanglingImportEnclave"
  ELSE IF Named(enclaves[LastOf(m.from)].exports, m.name) = {} THEN "DanglingImportExport"
  ELSE IF ~ Permits(ExportOf(m), importer) THEN "AccessDenied"
  ELSE "ok"

EnclaveImportErrors_faulty(e) ==
  {[kind |-> Verdict(e.id, m), from |-> m.from, name |-> m.name]
     : m \in {n \in Elems(e.imports) : Verdict(e.id, n) # "ok"}}

ImportErrors(e) ==
  {[kind |-> Verdict(e.id, m), from |-> m.from, name |-> m.name]
     : m \in {n \in Imports(e) : Verdict(e.id, n) # "ok"}}

Wires(e) == {[importer |-> e.id, from |-> m.from, name |-> m.name]
               : m \in {n \in Imports(e) : Verdict(e.id, n) = "ok"}}

EdgesReversed_faulty ==
  {<<LastOf(w.importer), LastOf(w.from)>> : w \in {v \in wiring : v.from # v.importer}}

EdgesToSelf_faulty == {<<LastOf(w.from), LastOf(w.importer)>> : w \in wiring}

\* An import by an enclave from itself is wiring, but no edge of the graph.
Edges == {<<LastOf(w.from), LastOf(w.importer)>> : w \in {v \in wiring : v.from # v.importer}}

\* petgraph's toposort: each place once, no edge backwards.
Orders == {o \in [Place -> Place] :
             /\ \A i, j \in Place : o[i] = o[j] => i = j
             /\ \A i, j \in Place : <<o[i], o[j]>> \in Edges => i < j}

----------------------------------------------------------------------------

TypeOK ==
  /\ enclaves \in Configs
  /\ at \in 1 .. Len(enclaves) + 1
  /\ wiring \subseteq WireRec
  /\ result \in {"checking", "accepted", "rejected", "cycle"}
  /\ order \in {<<>>} \cup [Place -> Place]

Init ==
  /\ enclaves \in Configs
  /\ at = 1 /\ errors = {} /\ wiring = {}
  /\ result = "checking" /\ order = <<>>

\* The errors of every enclave are collected before any is reported.
Check ==
  /\ result = "checking" /\ at <= Len(enclaves)
  /\ LET e == enclaves[at] IN
       /\ errors' = errors \cup {[at |-> at, error |-> x]
                                   : x \in MissingOutputs(e) \cup Mismatches(e) \cup ImportErrors(e)}
       /\ wiring' = wiring \cup Wires(e)
  /\ at' = at + 1
  /\ UNCHANGED <<enclaves, result, order>>

Reject ==
  /\ result = "checking" /\ at > Len(enclaves) /\ errors # {}
  /\ result' = "rejected"
  /\ UNCHANGED <<enclaves, at, errors, wiring, order>>

Cycle ==
  /\ result = "checking" /\ at > Len(enclaves) /\ errors = {}
  /\ Orders = {}
  /\ result' = "cycle"
  /\ UNCHANGED <<enclaves, at, errors, wiring, order>>

Accept ==
  /\ result = "checking" /\ at > Len(enclaves) /\ errors = {}
  /\ order' \in Orders
  /\ result' = "accepted"
  /\ UNCHANGED <<enclaves, at, errors, wiring>>

Next == Check \/ Reject \/ Cycle \/ Accept

Spec == Init /\ [][Next]_vars

----------------------------------------------------------------------------
(* Properties.  What follows says what a good configuration is without        *)
(* by_id, the wiring or the graph.                                            *)

\* Somebody exports what is imported, to this importer.
Resolves(importer, m) ==
  \E i \in Place : /\ enclaves[i].id = m.from
                   /\ \E x \in Elems(enclaves[i].exports) :
                        x.name = m.name /\ Permits(x, importer)

Sound(e) ==
  /\ \A m \in Imports(e) : Resolves(e.id, m)
  /\ \A p \in Elems(e.parts) : Required(p.produces) \subseteq p.outputs

Typed(e) ==
  \A x \in Elems(e.exports), p \in Elems(e.parts) :
    p.id = x.target => p.produces \in {"nothing", x.type}

UniqueIds   == \A i, j \in Place : enclaves[i].id = enclaves[j].id => i = j
UniqueNames ==
  \A e \in Elems(enclaves) :
    /\ \A i, j \in DOMAIN e.exports : e.exports[i].name = e.exports[j].name => i = j
    /\ \A i, j \in DOMAIN e.parts : e.parts[i].id = e.parts[j].id => i = j

Imported(i, j) == \E m \in Imports(enclaves[j]) : m.from = enclaves[i].id

Cyclic == \E S \in (SUBSET Place) \ {{}} : \A j \in S : \E i \in S \ {j} : Imported(i, j)

\* A configuration is accepted only if every import, an enclave's or a
\* partition's, has an export that permits it, and every partition declares the
\* outputs its type requires: duplicate ids and names change nothing about it.
\* Where names are unique, exports are of their target's type.
AcceptedSound ==
  result = "accepted" =>
    \A e \in Elems(enclaves) : Sound(e) /\ (UniqueNames => Typed(e))

\* The order reconcile() follows has every enclave once, and each after the
\* enclaves it imports from, where ids are unique.
ExportersFirst ==
  result = "accepted" =>
    /\ Elems(order) = Place
    /\ UniqueIds => \A i, j \in Place : i # j /\ Imported(order[i], order[j]) => i < j

\* A configuration is refused for a reason: some enclave is not sound, an export
\* is of another type than its target, or enclaves import in a circle.
RefusedForCause ==
  result \in {"rejected", "cycle"} /\ UniqueIds /\ UniqueNames =>
    \/ Cyclic
    \/ \E e \in Elems(enclaves) : ~ Sound(e) \/ ~ Typed(e)

=============================================================================
