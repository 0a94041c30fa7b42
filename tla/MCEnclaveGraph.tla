--------------------------- MODULE MCEnclaveGraph ---------------------------
(* Instances of EnclaveGraph for TLC. *)
EXTENDS EnclaveGraph

Imp(e, n)  == [from |-> e, name |-> n]
Exp(n, tgt, type, to) == [name |-> n, target |-> tgt, type |-> type, to |-> to]
To(k)      == [kind |-> k]
ToEnc(e)   == [kind |-> "enclave", id |-> e]
ToPart(p)  == [kind |-> "partition", part |-> p]
Web(outs, imps) == [id |-> "web", produces |-> "http", outputs |-> outs, imports |-> imps]
UpTo2(S)   == {<<>>} \cup {<<x>> : x \in S} \cup (S \X S)
Ids        == {"a", "b", "c"}

\* Up to three enclaves, of whatever ids, that import from each other.
Shapes == [id : Ids, imports : UpTo2({Imp(e, "x") : e \in Ids}),
           exports : {<<>>, <<Exp("x", "web", "http", To("any_enclave"))>>,
                      <<Exp("x", "web", "http", ToEnc("b"))>>},
           parts : {<<>>, <<Web({"hostname", "port"}, <<Imp("a", "x")>>)>>}]
Graphs == {<<>>} \cup {<<d>> : d \in Shapes} \cup (Shapes \X Shapes)
            \cup (LET one == {d \in Shapes : /\ Len(d.imports) <= 1 /\ d.exports # <<>>
                                             /\ d.parts = <<>>}
                  IN  one \X one \X one)

\* Two enclaves, with every export and partition worth telling apart.
OneParts == {<<>>, <<Web({"hostname", "port"}, <<>>)>>, <<Web({"hostname"}, <<>>)>>,
             <<Web({"hostname", "port"}, <<Imp("a", "x")>>)>>,
             <<[id |-> "web", produces |-> "nothing", outputs |-> {}, imports |-> <<Imp("b", "x")>>]>>,
             <<[id |-> "jobs", produces |-> "queue", outputs |-> {}, imports |-> <<>>],
               Web({"hostname", "port"}, <<>>)>>}
OneExports == {<<>>}
  \cup {<<Exp("x", t, ty, to)>> :
          t \in {"web", "jobs"}, ty \in {"http", "queue"},
          to \in {To("public"), To("vpn"), ToEnc("b"), ToPart("web")}}
  \cup {<<Exp("x", "web", "http", ToEnc("a")), Exp("x", "web", "http", To("public"))>>,
        <<Exp("y", "web", "tcp", To("public"))>>}
Contracts ==
  [id : {"a"}, imports : {<<>>, <<Imp("z", "x")>>}, exports : OneExports, parts : OneParts]
    \X [id : {"b"}, imports : UpTo2({Imp("a", "x"), Imp("b", "x")}),
        exports : {<<>>, <<Exp("x", "web", "http", To("public"))>>},
        parts : OneParts]

All == Graphs \cup Contracts

=============================================================================
