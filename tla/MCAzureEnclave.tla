--------------------------- MODULE MCAzureEnclave ---------------------------
(* The instance's constants are numbers and Booleans, given in the .cfg.     *)
EXTENDS AzureEnclave

=============================================================================
