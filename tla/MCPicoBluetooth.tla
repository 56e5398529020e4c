-------------------------- MODULE MCPicoBluetooth --------------------------
(* PicoBluetooth on small instances: the bounds are in the .cfg files.      *)
EXTENDS PicoBluetooth
=============================================================================
