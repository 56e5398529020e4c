--------------------------- MODULE PicoBluetooth ---------------------------
(***************************************************************************)
(* The Bluetooth build of clients/pico-w/src/printeasy_pico.c: arriving    *)
(* MQTT data goes into the printer buffer, and leaves it in RFCOMM packets *)
(* that the Bluetooth stack asks for one at a time; the RFCOMM channel is  *)
(* opened, after an SDP query if none is configured, and opened again when *)
(* it is closed (lines 104-260, 326-335, 377-385).                         *)
(*                                                                         *)
(* BTstack and lwIP call back from one async_context, one callback at a    *)
(* time: an action is one callback.  The stack is external and modelled    *)
(* from how this code uses it: a request for CAN_SEND_NOW is answered by   *)
(* one event, at some time, unless the channel is closed before.           *)
(***************************************************************************)
EXTENDS PrinterBuffer

CONSTANTS
    FixedChannel,       \* PRINTER_BT_CHANNEL; 0: ask by SDP
    MaxFragment,        \* bound: the longest piece of a payload
    MaxMtu              \* bound: the largest RFCOMM frame

ASSUME BluetoothAssumption == {FixedChannel, MaxFragment, MaxMtu} \subseteq Nat

VARIABLES
    rfcomm_channel,
    rfcomm_cid,
    rfcomm_mtu,
    rfcomm_send_pending,
    requested,          \* the stack has a request for CAN_SEND_NOW
    link                \* what the stack is doing for the client

bluetooth == <<rfcomm_channel, rfcomm_cid, rfcomm_mtu, rfcomm_send_pending,
               requested, link>>

vars == <<ring, received, printed, bluetooth>>

None == 0               \* no channel, no cid

Links == {"off", "querying", "opening", "open", "given up"}

-----------------------------------------------------------------------------
(* Sending.                                                                *)

\* request_bt_send at the end of a callback that leaves rfcomm_send_pending and the
\* stack's request as given.
request_bt_send(pending, asked) ==
    LET ask == rfcomm_cid' # None /\ ~pending /\ printer_used' > 0
    IN  /\ rfcomm_send_pending' = (pending \/ ask)
        /\ requested' = (asked \/ ask)

\* A piece of a payload arrives; there may be no room for all of it.
mqtt_incoming_data_cb ==
    /\ \E n \in 1 .. MaxFragment : received + n <= MaxBytes /\ buffer_write(n)
    /\ UNCHANGED <<printed, rfcomm_channel, rfcomm_cid, rfcomm_mtu, link>>
    /\ request_bt_send(rfcomm_send_pending, requested)

Packet == Smaller(Contiguous, rfcomm_mtu)

\* Mutant: the packet is not requested that the rest of the buffer needs.
SendsOnePacket(taken) ==
    /\ requested
    /\ IF taken /\ printer_used > 0 /\ rfcomm_cid # None
       THEN printed' = printed \o BytesAt(printer_read_pos, Packet) /\ buffer_consume(Packet)
       ELSE UNCHANGED <<ring, printed>>
    /\ rfcomm_send_pending' = FALSE
    /\ requested' = FALSE
    /\ UNCHANGED <<received, rfcomm_channel, rfcomm_cid, rfcomm_mtu, link>>

\* CAN_SEND_NOW: rfcomm_send takes the packet, or returns an error and the bytes stay
\* in the buffer.  (The early return for an empty buffer or no channel is the same as
\* the rest without a packet: request_bt_send does nothing then.)
bt_send_available(taken) ==
    /\ requested
    /\ IF taken /\ printer_used > 0 /\ rfcomm_cid # None
       THEN printed' = printed \o BytesAt(printer_read_pos, Packet) /\ buffer_consume(Packet)
       ELSE UNCHANGED <<ring, printed>>
    /\ UNCHANGED <<received, rfcomm_channel, rfcomm_cid, rfcomm_mtu, link>>
    /\ request_bt_send(FALSE, FALSE)

\* The timer that looks after MQTT asks to send as well, every five seconds.
mqtt_reconnect_timer_handler ==
    /\ UNCHANGED <<ring, received, printed, rfcomm_channel, rfcomm_cid, rfcomm_mtu, link>>
    /\ request_bt_send(rfcomm_send_pending, requested)

-----------------------------------------------------------------------------
(* The channel.                                                            *)

connect_bluetooth_printer ==
    IF FixedChannel > 0
    THEN rfcomm_channel' = FixedChannel /\ link' = "opening"
    ELSE UNCHANGED rfcomm_channel /\ link' = "querying"

\* The stack is up.
HciWorking ==
    /\ link = "off"
    /\ UNCHANGED <<ring, received, printed, rfcomm_cid, rfcomm_mtu,
                   rfcomm_send_pending, requested>>
    /\ connect_bluetooth_printer

\* The query finds a service; it may find several, and the last one counts.
ServiceFound(channel) ==
    /\ link = "querying"
    /\ rfcomm_channel' = channel
    /\ UNCHANGED <<ring, received, printed, rfcomm_cid, rfcomm_mtu,
                   rfcomm_send_pending, requested, link>>

\* The query is complete, with or without success.  The channel found by an earlier
\* query will do.
QueryComplete(success) ==
    /\ link = "querying"
    /\ link' = IF success /\ rfcomm_channel # None THEN "opening" ELSE "given up"
    /\ UNCHANGED <<ring, received, printed, rfcomm_channel, rfcomm_cid, rfcomm_mtu,
                   rfcomm_send_pending, requested>>

ChannelOpened(mtu) ==
    /\ link = "opening"
    /\ link' = "open"
    /\ rfcomm_cid' = 1
    /\ rfcomm_mtu' = mtu
    /\ UNCHANGED <<ring, received, printed, rfcomm_channel>>
    /\ request_bt_send(rfcomm_send_pending, requested)

ChannelFails ==
    /\ link = "opening"
    /\ link' = "given up"
    /\ rfcomm_cid' = None
    /\ UNCHANGED <<ring, received, printed, rfcomm_channel, rfcomm_mtu,
                   rfcomm_send_pending, requested>>

\* Mutant: the flag is not reset with the channel it was set for.
ClosedStillPending ==
    /\ link = "open"
    /\ rfcomm_cid' = None
    /\ requested' = FALSE
    /\ UNCHANGED <<ring, received, printed, rfcomm_mtu, rfcomm_send_pending>>
    /\ connect_bluetooth_printer

\* The channel is closed, and a request for it is forgotten.
ChannelClosed ==
    /\ link = "open"
    /\ rfcomm_cid' = None
    /\ rfcomm_send_pending' = FALSE
    /\ requested' = FALSE
    /\ UNCHANGED <<ring, received, printed, rfcomm_mtu>>
    /\ connect_bluetooth_printer

Init ==
    /\ InitBuffer
    /\ rfcomm_channel = None
    /\ rfcomm_cid = None
    /\ rfcomm_mtu = 127
    /\ rfcomm_send_pending = FALSE
    /\ requested = FALSE
    /\ link = "off"

Next ==
    \/ mqtt_incoming_data_cb
    \/ \E taken \in BOOLEAN : bt_send_available(taken)
    \/ mqtt_reconnect_timer_handler
    \/ HciWorking
    \/ \E channel \in 1 .. 2 : ServiceFound(channel)
    \/ \E success \in BOOLEAN : QueryComplete(success)
    \/ \E mtu \in 1 .. MaxMtu : ChannelOpened(mtu)
    \/ ChannelFails
    \/ ChannelClosed

Spec == Init /\ [][Next]_vars

\* While a channel is open the stack answers a request in the end and takes a packet,
\* the query and the opening of a channel come to an end, and the stack starts.
FairSpec ==
    /\ Spec
    /\ WF_vars(bt_send_available(TRUE))
    /\ WF_vars(HciWorking)
    /\ WF_vars(\E success \in BOOLEAN : QueryComplete(success))
    /\ WF_vars(ChannelFails \/ \E mtu \in 1 .. MaxMtu : ChannelOpened(mtu))

-----------------------------------------------------------------------------
(* Properties.                                                             *)

\* The variables have their types; no more bytes wait than there are cells.
TypeOK ==
    /\ BufferTypeOK
    /\ rfcomm_channel \in Nat
    /\ rfcomm_cid \in {None, 1}
    /\ rfcomm_mtu \in Nat \ {0}
    /\ rfcomm_send_pending \in BOOLEAN
    /\ requested \in BOOLEAN
    /\ link \in Links

\* Sending never stalls: while the channel is open and bytes wait, the stack has been
\* asked to call back; the flag that keeps the client from asking twice is set exactly
\* while it has been; and it never calls back for nothing (request_bt_send at the end of
\* four callbacks, the two resets, the early return on line 127).
SendIsAsked ==
    /\ rfcomm_cid # None /\ printer_used > 0 => requested
    /\ rfcomm_send_pending <=> requested
    /\ requested => rfcomm_cid # None /\ printer_used > 0

\* The buffer is a bounded queue of bytes, whatever the channel does: the bytes leave
\* it in the order in which they came, each once, and only those are dropped for which
\* there was no room.
Queue == INSTANCE ByteQueue WITH
    Capacity <- Size, arrived <- received, waiting <- Waiting, sent <- printed

QueueSpec == Queue!Spec

\* If the channel stays open in the end, every byte in the buffer is sent.
EveryByteSent ==
    <>[](rfcomm_cid # None) =>
        \A b \in 1 .. MaxBytes :
            (\E i \in DOMAIN Waiting : Waiting[i] = b)
                ~> ~(\E i \in DOMAIN Waiting : Waiting[i] = b)
=============================================================================
