-------------------------- MODULE MCOrderWorkflow --------------------------
(* Small instances of OrderWorkflow for TLC. *)
EXTENDS OrderWorkflow

Prepaid == {"COD", "ONLINE"}
PayLater == {"PENDING"}
AllModes == {"COD", "ONLINE", "PENDING"}
=============================================================================
