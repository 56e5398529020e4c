--------------------------- MODULE PayloadBridge ---------------------------
(***************************************************************************)
(* What a client that writes payloads as they come promises                *)
(* (clients/protocol/README.md, "Client checklist"): the bytes of a        *)
(* payload are printed in order, each once, from the first one on and      *)
(* without a gap; what is missing is the end of the payload, and then the  *)
(* next payload comes.  A byte is its position in the stream of payloads.  *)
(***************************************************************************)
EXTENDS Naturals, Sequences

CONSTANTS
    MaxPayload,         \* bound: the longest payload
    MaxBytes            \* bound: how many bytes arrive

VARIABLES
    arrived,            \* how many bytes have arrived
    next,               \* how many of them are done with: printed, or given up
    printed             \* the bytes that were printed, in order

bridge == <<arrived, next, printed>>

InitBridge ==
    /\ arrived = 0
    /\ next = 0
    /\ printed = <<>>

\* A payload of n bytes; what is left of the one before is given up, and the new one
\* may be given up at once.
Arrive(n) ==
    /\ arrived + n <= MaxBytes
    /\ arrived' = arrived + n
    /\ next' \in {arrived, arrived'}
    /\ UNCHANGED printed

\* The next k bytes of the payload are printed, and the rest may be given up.
PrintBytes(k) ==
    /\ next + k <= arrived
    /\ next' \in {next + k, arrived}
    /\ printed' = printed \o [i \in 1 .. k |-> next + i]
    /\ UNCHANGED arrived

NextBytes ==
    \/ \E n \in 0 .. MaxPayload : Arrive(n)
    \/ \E k \in 0 .. MaxPayload : PrintBytes(k)

Spec == InitBridge /\ [][NextBytes]_bridge
=============================================================================
