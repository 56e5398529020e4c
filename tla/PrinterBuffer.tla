--------------------------- MODULE PrinterBuffer ---------------------------
(***************************************************************************)
(* The ring buffer of clients/pico-w/src/printeasy_pico.c (lines 66-102),  *)
(* between the MQTT client and a transport that cannot always send.  A     *)
(* byte is its position in the stream of arriving bytes, so that order,    *)
(* loss and repetition can be seen.  printer_overflowed only decides       *)
(* whether a line is logged and is left out.                               *)
(***************************************************************************)
EXTENDS Integers, Sequences

CONSTANTS
    Size,               \* sizeof(printer_buffer), PRINTEASY_BUFFER_SIZE
    MaxBytes            \* bound: how many bytes arrive

ASSUME BufferAssumption == Size \in Nat \ {0} /\ MaxBytes \in Nat

VARIABLES
    printer_buffer,
    printer_read_pos,
    printer_write_pos,
    printer_used,
    received,           \* how many bytes have arrived
    printed             \* the bytes the transport has taken, in order

ring == <<printer_buffer, printer_read_pos, printer_write_pos, printer_used>>

Cells == 0 .. Size - 1

Smaller(a, b) == IF a <= b THEN a ELSE b

InitBuffer ==
    /\ printer_buffer = [c \in Cells |-> 0]
    /\ printer_read_pos = 0
    /\ printer_write_pos = 0
    /\ printer_used = 0
    /\ received = 0
    /\ printed = <<>>

Room == IF printer_used < Size THEN Size - printer_used ELSE 0

\* Mutant: the loop does not look for room.
AcceptedUnchecked(n) == n

\* How many of n arriving bytes fit, and the cells with these copied behind the bytes
\* that wait.
Accepted(n) == Smaller(n, Room)

Copied(n) ==
    [c \in Cells |-> LET i == (c - printer_write_pos) % Size
                     IN  IF i < Accepted(n) THEN received + 1 + i ELSE printer_buffer[c]]

\* Mutant: the write position moves on past the bytes that were dropped.
buffer_write_past(n) ==
    /\ received' = received + n
    /\ printer_buffer' = Copied(n)
    /\ printer_write_pos' = (printer_write_pos + n) % Size
    /\ printer_used' = printer_used + Accepted(n)
    /\ UNCHANGED printer_read_pos

\* n bytes arrive.
buffer_write(n) ==
    /\ received' = received + n
    /\ printer_buffer' = Copied(n)
    /\ printer_write_pos' = (printer_write_pos + Accepted(n)) % Size
    /\ printer_used' = printer_used + Accepted(n)
    /\ UNCHANGED printer_read_pos

\* Mutant: all bytes that wait are taken as contiguous.
ContiguousPastTheEnd == printer_used

\* The length buffer_contiguous_read returns; its pointer is printer_read_pos.
Contiguous == Smaller(printer_used, Size - printer_read_pos)

buffer_consume(n) ==
    LET len == Smaller(n, printer_used)
    IN  /\ printer_read_pos' = (printer_read_pos + len) % Size
        /\ printer_used' = printer_used - len
        /\ UNCHANGED <<printer_buffer, printer_write_pos>>

\* The n bytes behind a pointer to the cell; past the end of the array there is
\* something else.
BytesAt(cell, n) ==
    [i \in 1 .. n |-> IF cell + i - 1 < Size THEN printer_buffer[cell + i - 1] ELSE 0]

\* The bytes that wait, first one first.
Waiting ==
    [i \in 1 .. printer_used |-> printer_buffer[(printer_read_pos + i - 1) % Size]]

-----------------------------------------------------------------------------

BufferTypeOK ==
    /\ printer_buffer \in [Cells -> Nat]
    /\ printer_read_pos \in Cells
    /\ printer_write_pos \in Cells
    /\ printer_used \in 0 .. Size
    /\ received \in Nat
    /\ printed \in Seq(Nat)

\* The three numbers that describe the ring agree: it is written where the bytes that
\* wait end (buffer_write and buffer_consume each move two of them).
RingConsistent == printer_write_pos = (printer_read_pos + printer_used) % Size
=============================================================================
