---------------------------- MODULE MCPrintQueue ----------------------------
(* PrintQueue on small instances: the bounds are in the .cfg files.         *)
EXTENDS PrintQueue
=============================================================================
