---------------------------- MODULE MCPicoClient ----------------------------
(* PicoClient on small instances: the bounds are in the .cfg files.         *)
EXTENDS PicoClient
=============================================================================
