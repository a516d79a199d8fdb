--------------------------- MODULE MCConnectorStatus ---------------------------
(* ConnectorStatus for TLC. The values of the constants are in the .cfg. *)
EXTENDS ConnectorStatus
=============================================================================
