--------------------------- MODULE MCOrderUpload ---------------------------
(* OrderUpload for TLC: fewer order numbers than rows, so that rows share a *)
(* number, and the empty number among them.                                *)
EXTENDS OrderUpload
=============================================================================
