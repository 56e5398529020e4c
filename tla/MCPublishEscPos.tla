-------------------------- MODULE MCPublishEscPos --------------------------
(* PublishEscPos with two calls: the bounds are in the .cfg files.          *)
EXTENDS PublishEscPos

CONSTANTS c1, c2

MCCalls == {c1, c2}
=============================================================================
