------------------------------ MODULE PicoUsb ------------------------------
(***************************************************************************)
(* The USB build of clients/pico-w/src/printeasy_pico.c: the main loop     *)
(* flushes the printer buffer to the USB serial device, and so does the    *)
(* MQTT data callback (lines 281-311, 453-461).                            *)
(*                                                                         *)
(* CMakeLists.txt links pico_cyw43_arch_lwip_threadsafe_background, which  *)
(* runs lwIP's callbacks at interrupt time: the callback runs to its end   *)
(* between any two steps of the main loop, which does not lock.  Nothing   *)
(* here is volatile, so that the compiler may load printer_used once or    *)
(* twice in buffer_consume; the model has both.                            *)
(***************************************************************************)
EXTENDS PrinterBuffer

CONSTANTS
    SizeT,              \* size_t counts modulo this, 2^32
    MaxFragment         \* bound: the longest piece of a payload

ASSUME UsbAssumption == SizeT \in Nat /\ SizeT > Size /\ MaxFragment \in Nat

VARIABLES
    pc,                 \* where the main loop is in flush_usb_buffer
    position,           \* its local ptr
    len,                \* its local len, what fwrite took, what is consumed
    loaded              \* the printer_used it has loaded

main == <<pc, position, len, loaded>>

vars == <<ring, received, printed, main>>

Places == {"sleeping", "reading", "writing", "consuming", "storing"}

-----------------------------------------------------------------------------
(* The callback.  It writes the bytes to the buffer and flushes it: fwrite  *)
(* takes all bytes that wait, or fewer if it takes none of a piece or the   *)
(* host goes away.                                                          *)

printer_write(n, k) ==
    LET used == printer_used + Accepted(n)
    IN  /\ k <= used
        /\ received' = received + n
        /\ printer_buffer' = Copied(n)
        /\ printer_write_pos' = (printer_write_pos + Accepted(n)) % Size
        /\ printed' = printed \o [i \in 1 .. k |-> Copied(n)[(printer_read_pos + i - 1) % Size]]
        /\ printer_read_pos' = (printer_read_pos + k) % Size
        /\ printer_used' = used - k

mqtt_incoming_data_cb ==
    /\ \E n \in 1 .. MaxFragment, k \in 0 .. SizeT :
          received + n <= MaxBytes /\ printer_write(n, k)
    /\ UNCHANGED main

-----------------------------------------------------------------------------
(* flush_usb_buffer in the main loop, by its accesses to what the callback  *)
(* changes.                                                                 *)

\* The loop comes round, or the last piece was consumed.
ReadPosition ==
    /\ pc = "sleeping"
    /\ printer_used > 0
    /\ position' = printer_read_pos
    /\ pc' = "reading"
    /\ UNCHANGED <<ring, received, printed, len, loaded>>

\* buffer_contiguous_read; nothing is sent if the buffer is empty or no host connected.
ReadLength ==
    /\ pc = "reading"
    /\ len' = Smaller(printer_used, Size - position)
    /\ pc' \in {"sleeping", "writing"}
    /\ pc' = "writing" => len' > 0
    /\ UNCHANGED <<ring, received, printed, position, loaded>>

\* fwrite takes some of the bytes, perhaps none.
Fwrite ==
    /\ pc = "writing"
    /\ \E written \in 0 .. len :
          /\ printed' = printed \o BytesAt(position, written)
          /\ len' = written
          /\ pc' = IF written = 0 THEN "sleeping" ELSE "consuming"
    /\ UNCHANGED <<ring, received, position, loaded>>

\* Mutant: the read position moves on one byte too far.
ConsumesOneMore ==
    /\ pc = "consuming"
    /\ len' = Smaller(len, printer_used)
    /\ printer_read_pos' = (printer_read_pos + len' + 1) % Size
    /\ loaded' = printer_used
    /\ pc' = "storing"
    /\ UNCHANGED <<printer_buffer, printer_write_pos, printer_used, received, printed, position>>

\* buffer_consume, as far as the read position.
Consume ==
    /\ pc = "consuming"
    /\ len' = Smaller(len, printer_used)
    /\ printer_read_pos' = (printer_read_pos + len') % Size
    /\ loaded' = printer_used
    /\ pc' = "storing"
    /\ UNCHANGED <<printer_buffer, printer_write_pos, printer_used, received, printed, position>>

\* printer_used -= len.
Store ==
    /\ pc = "storing"
    /\ \E used \in {loaded, printer_used} : printer_used' = (used - len) % SizeT
    /\ pc' = "sleeping"
    /\ UNCHANGED <<printer_buffer, printer_read_pos, printer_write_pos, received, printed,
                   position, len, loaded>>

Init ==
    /\ InitBuffer
    /\ pc = "sleeping"
    /\ position = 0
    /\ len = 0
    /\ loaded = 0

Next ==
    \/ mqtt_incoming_data_cb
    \/ ReadPosition
    \/ ReadLength
    \/ Fwrite
    \/ Consume
    \/ Store

Spec == Init /\ [][Next]_vars

\* The behaviours in which no data arrives while the main loop flushes.
QuietSpec == Init /\ [][Next /\ (pc # "sleeping" => UNCHANGED received)]_vars

-----------------------------------------------------------------------------
(* Properties of QuietSpec.                                                 *)

\* The bytes that are still to be sent, in the middle of the flush too.
StillWaiting ==
    CASE pc = "consuming" -> SubSeq(Waiting, len + 1, printer_used)
      [] pc = "storing" -> SubSeq(Waiting, 1, printer_used - len)
      [] OTHER -> Waiting

\* Undisturbed, the buffer is a bounded queue of bytes, with the callback's flush and
\* the main loop's flush in turn, and however few bytes fwrite takes at a time.
Queue == INSTANCE ByteQueue WITH
    Capacity <- Size, arrived <- received, waiting <- StillWaiting, sent <- printed

QueueSpec == Queue!Spec

-----------------------------------------------------------------------------
(* What the documentation says and Spec does not keep.                      *)

\* "Writes each binary ESC/POS payload unchanged to one printer transport": the bytes
\* are printed in the order in which they arrive and each once (the callback and the
\* main loop change printer_read_pos and printer_used without a lock).
PrintedOnceInOrder ==
    \A i, j \in DOMAIN printed : i < j => printed[i] < printed[j]
=============================================================================
