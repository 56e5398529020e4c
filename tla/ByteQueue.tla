----------------------------- MODULE ByteQueue -----------------------------
(***************************************************************************)
(* What the Pico client's printer buffer promises, with no ring, no        *)
(* transport and no interrupt in it: the bytes that arrive on the topic    *)
(* reach the printer's transport in order and each once, and those for     *)
(* which there is no room when they arrive are dropped.  A byte is its     *)
(* position in the stream of arriving bytes.                               *)
(***************************************************************************)
EXTENDS Naturals, Sequences

CONSTANT Capacity       \* how many bytes can wait

VARIABLES
    arrived,            \* how many bytes have arrived
    waiting,            \* the bytes kept and not sent yet
    sent                \* the bytes handed to the transport

bytes == <<arrived, waiting, sent>>

Init == arrived = 0 /\ waiting = <<>> /\ sent = <<>>

\* n bytes arrive, and the first ones are kept, as many as there is room for; then the
\* k bytes that waited longest are sent.  Either may be missing.
Step(n, kept, k) ==
    /\ kept = n \/ Len(waiting) + kept = Capacity
    /\ Len(waiting) + kept <= Capacity
    /\ arrived' = arrived + n
    /\ LET all == waiting \o [i \in 1 .. kept |-> arrived + i]
       IN  /\ k <= Len(all)
           /\ sent' = sent \o SubSeq(all, 1, k)
           /\ waiting' = SubSeq(all, k + 1, Len(all))

Next ==
    \E n \in 0 .. arrived', k \in 0 .. Len(sent') :
        \E kept \in 0 .. n : Step(n, kept, k)

Spec == Init /\ [][Next]_bytes
=============================================================================
