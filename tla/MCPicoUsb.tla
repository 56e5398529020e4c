----------------------------- MODULE MCPicoUsb -----------------------------
(* PicoUsb on small instances: the bounds are in the .cfg files.            *)
EXTENDS PicoUsb
=============================================================================
