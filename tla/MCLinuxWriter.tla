--------------------------- MODULE MCLinuxWriter ---------------------------
(* LinuxWriter on small instances: the bounds are in the .cfg files.        *)
EXTENDS LinuxWriter
=============================================================================
