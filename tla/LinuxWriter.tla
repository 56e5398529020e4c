---------------------------- MODULE LinuxWriter ----------------------------
(***************************************************************************)
(* clients/linux-python/printeasy_client.py: PrinterWriter and on_message, *)
(* which write each payload to a serial port or a device file, close it    *)
(* when that fails, and open it again for the next payload.                *)
(*                                                                         *)
(* paho's thread runs on_message for one payload after the other; an       *)
(* action is a call of the system, because the device can go away between  *)
(* two of them.  External: a port or file that was opened before its       *)
(* device went away fails for good; as long as the device is there a       *)
(* blocking write takes all it is given, or fails, a file having taken     *)
(* nothing and a serial port any part (write times out) or all (flush      *)
(* fails); a write may be short when its device goes away meanwhile.       *)
(***************************************************************************)
EXTENDS Integers, Sequences

CONSTANTS
    write_chunk_size,
    MaxPayload,         \* bound: the longest payload
    MaxBytes            \* bound: how many bytes arrive

ASSUME WriterAssumption ==
    write_chunk_size \in Nat \ {0} /\ {MaxPayload, MaxBytes} \subseteq Nat

VARIABLES
    transport,          \* "serial", or "stream" for the others
    writing,            \* on_message is in the loop of write
    device,             \* the printer's device is there
    handle,             \* _serial or _stream
    away,               \* history variable: the device was away since the last failure
    arrived, next, printed      \* see PayloadBridge

bytes == <<arrived, next, printed>>

vars == <<transport, writing, device, handle, away, bytes>>

Handles == {"none", "open", "stale"}

Smaller(a, b) == IF a <= b THEN a ELSE b

-----------------------------------------------------------------------------

\* Mutant: the port stays open after a failure.
FailsOpen ==
    /\ writing' = FALSE
    /\ away' = ~device
    /\ UNCHANGED handle

\* An exception leaves write; on_message closes the port and logs.
Fails ==
    /\ writing' = FALSE
    /\ away' = ~device
    /\ handle' = "none"

\* on_message, up to the loop: the port is opened if there is none.
on_message(n) ==
    /\ ~writing
    /\ arrived + n <= MaxBytes
    /\ arrived' = arrived + n
    /\ next' = arrived
    /\ IF handle = "none" /\ ~device
       THEN Fails
       ELSE /\ writing' = TRUE
            /\ handle' = IF handle = "none" THEN "open" ELSE handle
            /\ UNCHANGED away
    /\ UNCHANGED <<transport, device, printed>>

Chunk == Smaller(write_chunk_size, arrived - next)

\* A chunk is written.
ChunkWritten ==
    /\ writing /\ next < arrived /\ handle = "open" /\ device
    /\ printed' = printed \o [i \in 1 .. Chunk |-> next + i]
    /\ next' = next + Chunk
    /\ UNCHANGED <<transport, writing, device, handle, away, arrived>>

\* The payload is written.
PayloadWritten ==
    /\ writing /\ next = arrived
    /\ writing' = FALSE
    /\ UNCHANGED <<transport, device, handle, away, bytes>>

\* Mutant: the exception is caught in the loop, which goes on with the next chunk.
WriteFailsAndGoesOn(k) ==
    /\ writing /\ next < arrived
    /\ k = 0 \/ (handle = "open" /\ transport = "serial" /\ k <= Chunk)
    /\ printed' = printed \o [i \in 1 .. k |-> next + i]
    /\ next' = next + Chunk
    /\ UNCHANGED <<transport, writing, device, handle, away, arrived>>

\* write or flush fails: nothing was taken of the chunk, or by an open serial port any part.
WriteFails(k) ==
    /\ writing /\ next < arrived
    /\ k = 0 \/ (handle = "open" /\ transport = "serial" /\ k <= Chunk)
    /\ printed' = printed \o [i \in 1 .. k |-> next + i]
    /\ UNCHANGED <<transport, device, arrived, next>>
    /\ Fails

\* The device goes away in the middle of a write to its file, which returns how much
\* was taken; nobody looks at that.
ShortWrite(k) ==
    /\ writing /\ next < arrived
    /\ handle = "open" /\ transport = "stream" /\ k < Chunk
    /\ printed' = printed \o [i \in 1 .. k |-> next + i]
    /\ next' = next + Chunk
    /\ device' = FALSE
    /\ handle' = "stale"
    /\ away' = TRUE
    /\ UNCHANGED <<transport, writing, arrived>>

-----------------------------------------------------------------------------

DeviceGoes ==
    /\ device
    /\ device' = FALSE
    /\ handle' = IF handle = "none" THEN "none" ELSE "stale"
    /\ away' = TRUE
    /\ UNCHANGED <<transport, writing, bytes>>

DeviceComes ==
    /\ ~device
    /\ device' = TRUE
    /\ UNCHANGED <<transport, writing, handle, away, bytes>>

\* The service is stopped, or dies, and is started again; a payload half written is
\* not sent to it again (clean_session).
Restarts ==
    /\ writing' = FALSE
    /\ handle' = "none"
    /\ UNCHANGED <<transport, device, away, bytes>>

Init ==
    /\ transport \in {"serial", "stream"}
    /\ writing = FALSE
    /\ device \in BOOLEAN
    /\ handle = "none"
    /\ away = ~device
    /\ arrived = 0
    /\ next = 0
    /\ printed = <<>>

Next ==
    \/ \E n \in 0 .. MaxPayload : on_message(n)
    \/ ChunkWritten
    \/ PayloadWritten
    \/ \E k \in 0 .. write_chunk_size : WriteFails(k) \/ ShortWrite(k)
    \/ DeviceGoes
    \/ DeviceComes
    \/ Restarts

Spec == Init /\ [][Next]_vars

-----------------------------------------------------------------------------
(* Properties.                                                             *)

\* The variables have their types, and a payload is in the loop only with a port.
TypeOK ==
    /\ transport \in {"serial", "stream"}
    /\ writing \in BOOLEAN /\ device \in BOOLEAN /\ away \in BOOLEAN
    /\ handle \in Handles
    /\ arrived \in 0 .. MaxBytes
    /\ next \in 0 .. arrived
    /\ printed \in Seq(1 .. MaxBytes)
    /\ writing => handle # "none"

\* A port that has failed is not used again: an open port whose device has gone means
\* that the device has gone since the last failure, so that each time costs at most one
\* more payload (close in on_message, open in write).
NoStaleHandle == handle = "stale" => away

\* Payloads are printed as PayloadBridge says: a payload that can no longer be written
\* is given up, and no later chunk of it follows a gap.
Bridge == INSTANCE PayloadBridge WITH
    next <- IF writing /\ handle = "open" THEN next ELSE arrived

BridgeSpec == Bridge!Spec
=============================================================================
