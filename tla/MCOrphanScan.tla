---------------------------- MODULE MCOrphanScan ----------------------------
(* The constants of OrphanScan and CloudWiring for TLC.                     *)
EXTENDS OrphanScan

MCClouds == {"gcp", "azure", "aws"}
MCKinds == {"http", "tcp", "queue"}
=============================================================================
