--------------------------- MODULE MCTerraformRun ---------------------------
(* Small instances of TerraformRun for TLC: two overlapping jobs.            *)
EXTENDS TerraformRun

=============================================================================
