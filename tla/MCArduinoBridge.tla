-------------------------- MODULE MCArduinoBridge --------------------------
(* ArduinoBridge on small instances: the bounds are in the .cfg files.      *)
EXTENDS ArduinoBridge
=============================================================================
