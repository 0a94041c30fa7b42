--------------------------- MODULE MCConfigLoader ---------------------------
(* An instance of ConfigLoader for TLC: product-a/dev with two partitions, as *)
(* in docs/enclave-yaml.md, and product-b beside it; the store also has an    *)
(* enclave c that no file names.                                              *)
EXTENDS ConfigLoader

TheDirs   == {"product-a", "dev", "api", "db", "product-b"}
TheParent == [d \in TheDirs |-> CASE d = "dev"           -> "product-a"
                                  [] d \in {"api", "db"} -> "dev"
                                  [] OTHER               -> "enclaves"]
TheIds    == [d \in TheDirs |-> IF d = "product-b" THEN "b" ELSE "a"]

TheStored == {"a", "b", "c"}

=============================================================================
