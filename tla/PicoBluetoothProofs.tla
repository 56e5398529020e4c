------------------------ MODULE PicoBluetoothProofs ------------------------
(***************************************************************************)
(* What holds of the Pico client's Bluetooth build for every buffer size,  *)
(* payload, frame size and channel: the types, the ring, that sending      *)
(* never stalls, and that the ring is a bounded queue of bytes.  It begins *)
(* with the ring buffer's operations; the arithmetic of two positions less *)
(* than Size apart is in CommonLemmas.                                     *)
(***************************************************************************)
EXTENDS PicoBluetooth, CommonLemmas, TLAPS

-----------------------------------------------------------------------------
(* The ring buffer.                                                        *)

\* buffer_write: what is accepted fits.
LEMMA AcceptedFits ==
    ASSUME BufferTypeOK, NEW n \in Nat
    PROVE  /\ Accepted(n) \in 0 .. n
           /\ Accepted(n) \in 0 .. Size - printer_used
BY BufferAssumption DEF BufferTypeOK, Accepted, Room, Smaller

\* buffer_write keeps the types.
LEMMA WriteTypes ==
    ASSUME BufferTypeOK, NEW n \in Nat, buffer_write(n), printed' = printed
    PROVE  BufferTypeOK'
<1> DEFINE acc == Accepted(n)
<1>1. /\ acc \in 0 .. n
      /\ acc \in 0 .. Size - printer_used
  BY AcceptedFits
<1>2. /\ Size \in Nat \ {0}
      /\ printer_write_pos \in Int
      /\ printer_used \in 0 .. Size
      /\ received \in Nat
  BY BufferAssumption DEF BufferTypeOK, Cells
<1>3. printer_buffer' \in [Cells -> Nat]
  <2> DEFINE i(c) == (c - printer_write_pos) % Size
  <2>1. \A c \in Cells : c - printer_write_pos \in Int
    BY <1>2 DEF Cells
  <2>2. \A c \in Cells : i(c) \in 0 .. Size - 1
    BY <1>2, <2>1, ModRange
  <2>3. \A c \in Cells : received + 1 + i(c) \in Nat
    BY <1>2, <2>2
  <2>4. \A c \in Cells : printer_buffer[c] \in Nat
    BY DEF BufferTypeOK
  <2> QED
    BY <2>3, <2>4 DEF buffer_write, Copied
<1>4. printer_write_pos' \in Cells
  <2>1. printer_write_pos + acc \in Int
    BY <1>1, <1>2
  <2> QED
    BY <1>2, <2>1, ModRange DEF buffer_write, Cells
<1>5. printer_used' \in 0 .. Size /\ received' \in Nat
  BY <1>1, <1>2 DEF buffer_write
<1> QED
  BY <1>3, <1>4, <1>5 DEF buffer_write, BufferTypeOK

\* buffer_consume keeps the types.
LEMMA ConsumeTypes ==
    ASSUME BufferTypeOK, NEW n \in Nat, buffer_consume(n),
           received' = received, printed' \in Seq(Nat)
    PROVE  BufferTypeOK'
<1> DEFINE len == Smaller(n, printer_used)
<1>1. /\ Size \in Nat \ {0}
      /\ printer_read_pos \in Int
      /\ printer_used \in 0 .. Size
      /\ len \in 0 .. printer_used
  BY BufferAssumption DEF BufferTypeOK, Cells, Smaller
<1>2. printer_read_pos' \in Cells
  <2>1. printer_read_pos + len \in Int
    BY <1>1
  <2> QED
    BY <1>1, <2>1, ModRange DEF buffer_consume, Cells
<1>3. printer_used' \in 0 .. Size
  BY <1>1 DEF buffer_consume
<1> QED
  BY <1>2, <1>3 DEF buffer_consume, BufferTypeOK

\* buffer_write keeps the three numbers in agreement.
LEMMA WriteConsistent ==
    ASSUME BufferTypeOK, RingConsistent, NEW n \in Nat, buffer_write(n)
    PROVE  RingConsistent'
<1> DEFINE acc == Accepted(n)
<1>1. acc \in 0 .. Size - printer_used
  BY AcceptedFits
<1>2. /\ Size \in Nat \ {0}
      /\ printer_read_pos \in 0 .. Size - 1
      /\ printer_used \in 0 .. Size
  BY BufferAssumption DEF BufferTypeOK, Cells
<1>3. (printer_write_pos + acc) % Size = (printer_read_pos + printer_used + acc) % Size
  BY <1>1, <1>2, AheadOfWrap DEF RingConsistent
<1>4. printer_read_pos + printer_used + acc = printer_read_pos + (printer_used + acc)
  BY <1>1, <1>2
<1> QED
  BY <1>3, <1>4 DEF buffer_write, RingConsistent

\* So does buffer_consume.
LEMMA ConsumeConsistent ==
    ASSUME BufferTypeOK, RingConsistent, NEW n \in Nat, buffer_consume(n)
    PROVE  RingConsistent'
<1> DEFINE len == Smaller(n, printer_used)
<1>1. /\ Size \in Nat \ {0}
      /\ printer_read_pos \in 0 .. Size - 1
      /\ printer_used \in 0 .. Size
      /\ len \in 0 .. printer_used
  BY BufferAssumption DEF BufferTypeOK, Cells, Smaller
<1>2. (((printer_read_pos + len) % Size) + (printer_used - len)) % Size
          = (printer_read_pos + printer_used) % Size
  BY <1>1, BehindTheWrap
<1> QED
  BY <1>2 DEF buffer_consume, RingConsistent

-----------------------------------------------------------------------------
(* The ring as a queue.                                                    *)

\* buffer_write puts the bytes it accepts behind those that wait, and leaves these alone.
LEMMA WriteAppends ==
    ASSUME BufferTypeOK, RingConsistent, NEW n \in Nat, buffer_write(n), printed' = printed
    PROVE  Waiting' = Waiting \o [i \in 1 .. Accepted(n) |-> received + i]
<1>1. Accepted(n) \in 0 .. Size - printer_used
  BY AcceptedFits
<1>2. /\ Size \in Nat \ {0} /\ printer_buffer \in [0 .. Size - 1 -> Nat]
      /\ printer_read_pos \in 0 .. Size - 1 /\ printer_used \in 0 .. Size
      /\ received \in Nat
  BY BufferAssumption DEF BufferTypeOK, Cells
<1>3. printer_buffer' = Filled(printer_buffer, (printer_read_pos + printer_used) % Size,
                               Accepted(n), received, Size)
  BY DEF buffer_write, Copied, Filled, RingConsistent, Cells
<1>4. Window(Filled(printer_buffer, (printer_read_pos + printer_used) % Size,
                    Accepted(n), received, Size),
             printer_read_pos, printer_used + Accepted(n), Size)
          = Appended(Window(printer_buffer, printer_read_pos, printer_used, Size),
                     received, Accepted(n))
  BY <1>1, <1>2, WindowGrows, ZenonT(60)
<1>5. Window(printer_buffer', printer_read_pos, printer_used + Accepted(n), Size)
          = Appended(Window(printer_buffer, printer_read_pos, printer_used, Size),
                     received, Accepted(n))
  BY <1>3, <1>4
<1>6. Waiting = Window(printer_buffer, printer_read_pos, printer_used, Size)
  BY DEF Waiting, Window
<1>7. Waiting' = Window(printer_buffer', printer_read_pos', printer_used', Size)
  BY DEF Waiting, Window
<1>8. printer_read_pos' = printer_read_pos /\ printer_used' = printer_used + Accepted(n)
  BY DEF buffer_write
<1>9. Waiting' = Appended(Waiting, received, Accepted(n))
  BY <1>5, <1>6, <1>7, <1>8
<1> QED
  BY <1>9 DEF Appended

\* The bytes behind the read pointer, up to the end of the array, are the first ones of
\* those that wait.
LEMMA PointerBytes ==
    ASSUME BufferTypeOK, NEW k \in 0 .. Contiguous
    PROVE  BytesAt(printer_read_pos, k) = SubSeq(Waiting, 1, k)
<1>1. /\ Size \in Nat \ {0} /\ printer_read_pos \in 0 .. Size - 1
      /\ printer_used \in 0 .. Size /\ printer_buffer \in [0 .. Size - 1 -> Nat]
      /\ k \in 0 .. printer_used /\ printer_read_pos + k <= Size
  BY BufferAssumption DEF BufferTypeOK, Cells, Contiguous, Smaller
<1>2. BytesBehind(printer_buffer, printer_read_pos, k, Size)
          = SubSeq(Window(printer_buffer, printer_read_pos, printer_used, Size), 1, k)
  BY <1>1, WindowFront
<1> QED
  BY <1>2 DEF BytesAt, BytesBehind, Waiting, Window

\* buffer_consume takes the bytes from the front, and leaves the others alone.
LEMMA ConsumeTakesFirst ==
    ASSUME BufferTypeOK, NEW k \in 0 .. printer_used, buffer_consume(k)
    PROVE  Waiting' = SubSeq(Waiting, k + 1, Len(Waiting))
<1>1. /\ printer_buffer \in [Cells -> Nat] /\ printer_read_pos \in Cells
      /\ printer_used \in 0 .. Size
  BY DEF BufferTypeOK
<1>2. /\ Window(printer_buffer, (printer_read_pos + k) % Size, printer_used - k, Size)
             = SubSeq(Window(printer_buffer, printer_read_pos, printer_used, Size),
                      k + 1, printer_used)
      /\ Len(Window(printer_buffer, printer_read_pos, printer_used, Size)) = printer_used
  BY <1>1, BufferAssumption, WindowShrinks, WindowBytes DEF Cells
<1>3. Waiting = Window(printer_buffer, printer_read_pos, printer_used, Size)
  BY DEF Waiting, Window
<1>4. Waiting' = Window(printer_buffer', printer_read_pos', printer_used', Size)
  BY DEF Waiting, Window
<1>5. /\ printer_buffer' = printer_buffer
      /\ printer_read_pos' = (printer_read_pos + k) % Size
      /\ printer_used' = printer_used - k
  <2>1. Smaller(k, printer_used) = k
    BY <1>1, BufferAssumption DEF Smaller
  <2> QED
    BY <2>1 DEF buffer_consume
<1> QED
  BY <1>2, <1>3, <1>4, <1>5

-----------------------------------------------------------------------------
(* The Bluetooth build.                                                    *)

\* A piece of a payload has a length.
LEMMA FragmentLength ==
    ASSUME NEW n \in 1 .. MaxFragment
    PROVE  n \in Nat
BY BluetoothAssumption

\* The packet that bt_send_available takes from the ring, as a number and as bytes.
LEMMA PacketTypes ==
    ASSUME TypeOK
    PROVE  /\ Packet \in Nat
           /\ BytesAt(printer_read_pos, Packet) \in Seq(Nat)
<1>1. Packet \in Nat
  BY BufferAssumption
  DEF Packet, Contiguous, Smaller, TypeOK, BufferTypeOK, Cells
<1>2. \A i \in 1 .. Packet :
          (IF printer_read_pos + i - 1 < Size
           THEN printer_buffer[printer_read_pos + i - 1] ELSE 0) \in Nat
  BY <1>1, BufferAssumption DEF TypeOK, BufferTypeOK, Cells
<1> QED
  BY <1>1, <1>2 DEF BytesAt

\* The packet is sent, or it is not; the ring is left with its types and in agreement.
LEMMA SendKeepsRing ==
    ASSUME TypeOK, RingConsistent, NEW taken \in BOOLEAN, bt_send_available(taken)
    PROVE  BufferTypeOK' /\ RingConsistent'
<1>1. Packet \in Nat /\ BytesAt(printer_read_pos, Packet) \in Seq(Nat)
  BY PacketTypes
<1>2. BufferTypeOK /\ received' = received
  BY DEF TypeOK, bt_send_available
<1>3. CASE taken /\ printer_used > 0 /\ rfcomm_cid # None
  <2>1. buffer_consume(Packet)
    BY <1>3 DEF bt_send_available
  <2>2. printed' \in Seq(Nat)
    <3>1. printed' = printed \o BytesAt(printer_read_pos, Packet)
      BY <1>3 DEF bt_send_available
    <3>2. printed \in Seq(Nat)
      BY <1>2 DEF BufferTypeOK
    <3> QED
      BY <1>1, <3>1, <3>2
  <2> QED
    BY <1>1, <1>2, <2>1, <2>2, ConsumeTypes, ConsumeConsistent
<1>4. CASE ~(taken /\ printer_used > 0 /\ rfcomm_cid # None)
  BY <1>2, <1>4 DEF bt_send_available, ring, BufferTypeOK, RingConsistent
<1> QED
  BY <1>3, <1>4

-----------------------------------------------------------------------------
(* Types, and the ring.                                                    *)

\* The program begins with its types and an empty ring.
LEMMA InitialTypes ==
    ASSUME Init
    PROVE  TypeOK /\ RingConsistent
<1>1. 0 \in Cells /\ 0 \in 0 .. Size
  BY BufferAssumption DEF Cells
<1>2. [c \in Cells |-> 0] \in [Cells -> Nat] /\ <<>> \in Seq(Nat)
  OBVIOUS
<1>3. BufferTypeOK
  BY <1>1, <1>2 DEF Init, InitBuffer, BufferTypeOK
<1>4. rfcomm_channel \in Nat /\ rfcomm_cid \in {None, 1} /\ rfcomm_mtu \in Nat \ {0}
  BY DEF Init, None
<1>5. rfcomm_send_pending \in BOOLEAN /\ requested \in BOOLEAN /\ link \in Links
  BY Zenon DEF Init, Links
<1>6. RingConsistent
  BY BufferAssumption, ModSmall DEF Init, InitBuffer, RingConsistent
<1> QED
  BY <1>3, <1>4, <1>5, <1>6, Zenon DEF TypeOK

\* No callback breaks the types or the ring.
LEMMA NextTypes ==
    ASSUME TypeOK, RingConsistent, [Next]_vars
    PROVE  TypeOK' /\ RingConsistent'
<1> USE DEF TypeOK, None, Links
<1>1. ASSUME UNCHANGED ring, UNCHANGED received, UNCHANGED printed
      PROVE  BufferTypeOK' /\ RingConsistent'
  BY <1>1 DEF ring, BufferTypeOK, RingConsistent
<1>2. CASE mqtt_incoming_data_cb
  <2>1. PICK n \in 1 .. MaxFragment : buffer_write(n)
    BY <1>2 DEF mqtt_incoming_data_cb
  <2>2. n \in Nat
    BY FragmentLength
  <2>3. BufferTypeOK' /\ RingConsistent'
    BY <1>2, <2>1, <2>2, WriteTypes, WriteConsistent DEF mqtt_incoming_data_cb
  <2> QED
    BY <1>2, <2>3 DEF mqtt_incoming_data_cb, request_bt_send
<1>3. CASE \E taken \in BOOLEAN : bt_send_available(taken)
  <2>1. PICK taken \in BOOLEAN : bt_send_available(taken)
    BY <1>3
  <2>2. BufferTypeOK' /\ RingConsistent'
    BY <2>1, SendKeepsRing
  <2> QED
    BY <2>1, <2>2 DEF bt_send_available, request_bt_send
<1>4. CASE mqtt_reconnect_timer_handler
  BY <1>1, <1>4 DEF mqtt_reconnect_timer_handler, request_bt_send
<1>5. CASE HciWorking
  BY <1>1, <1>5, BluetoothAssumption DEF HciWorking, connect_bluetooth_printer
<1>6. CASE \E channel \in 1 .. 2 : ServiceFound(channel)
  BY <1>1, <1>6 DEF ServiceFound
<1>7. CASE \E success \in BOOLEAN : QueryComplete(success)
  BY <1>1, <1>7 DEF QueryComplete
<1>8. CASE \E mtu \in 1 .. MaxMtu : ChannelOpened(mtu)
  BY <1>1, <1>8, BluetoothAssumption DEF ChannelOpened, request_bt_send
<1>9. CASE ChannelFails
  BY <1>1, <1>9 DEF ChannelFails
<1>10. CASE ChannelClosed
  BY <1>1, <1>10, BluetoothAssumption DEF ChannelClosed, connect_bluetooth_printer
<1>11. CASE UNCHANGED vars
  BY <1>1, <1>11 DEF vars, bluetooth
<1> QED
  BY <1>2, <1>3, <1>4, <1>5, <1>6, <1>7, <1>8, <1>9, <1>10, <1>11 DEF Next

\* The variables keep their types, and no more bytes wait than the buffer has cells.
THEOREM TypeCorrect == Spec => []TypeOK
BY InitialTypes, NextTypes, PTL DEF Spec

\* The two positions and the number of bytes that wait agree, however often the
\* positions have wrapped.
THEOREM RingStaysConsistent == Spec => []RingConsistent
BY InitialTypes, NextTypes, PTL DEF Spec

-----------------------------------------------------------------------------
(* Sending.                                                                *)

\* There is a channel exactly while the stack has it open: without this a failed
\* attempt to open one could take the channel away from under a request.
LinkAgrees == rfcomm_cid # None <=> link = "open"

\* request_bt_send at the end of a callback leaves a request if and only if there is
\* something to send, and a channel.
LEMMA RequestsWhatIsNeeded ==
    ASSUME NEW pending \in BOOLEAN, request_bt_send(pending, pending),
           pending => rfcomm_cid' # None /\ printer_used' > 0
    PROVE  SendIsAsked'
BY DEF request_bt_send, SendIsAsked

\* No callback leaves bytes in the buffer of an open channel without a request.
LEMMA NextSends ==
    ASSUME TypeOK, SendIsAsked, LinkAgrees, [Next]_vars
    PROVE  SendIsAsked' /\ LinkAgrees'
<1> DEFINE asked == rfcomm_send_pending
<1>1. /\ asked \in BOOLEAN
      /\ requested = asked
      /\ asked => rfcomm_cid # None /\ printer_used > 0
  BY DEF TypeOK, SendIsAsked
<1>2. CASE mqtt_incoming_data_cb
  <2>1. PICK n \in 1 .. MaxFragment : buffer_write(n)
    BY <1>2 DEF mqtt_incoming_data_cb
  <2>2. printer_used > 0 => printer_used' > 0
    <3>1. Accepted(n) \in Nat /\ printer_used \in Nat
      <4>1. n \in Nat /\ BufferTypeOK
        BY <2>1, FragmentLength DEF TypeOK
      <4> QED
        BY <4>1, AcceptedFits, BufferAssumption DEF BufferTypeOK
    <3>2. printer_used' = printer_used + Accepted(n)
      BY <2>1 DEF buffer_write
    <3> QED
      BY <3>1, <3>2
  <2>3. /\ rfcomm_cid' = rfcomm_cid /\ link' = link
        /\ request_bt_send(asked, asked)
    BY <1>1, <1>2 DEF mqtt_incoming_data_cb
  <2> QED
    BY <1>1, <2>2, <2>3, RequestsWhatIsNeeded DEF LinkAgrees
<1>3. CASE \E taken \in BOOLEAN : bt_send_available(taken)
  <2>1. /\ rfcomm_cid' = rfcomm_cid /\ link' = link
        /\ request_bt_send(FALSE, FALSE)
    BY <1>3 DEF bt_send_available
  <2> QED
    BY <2>1, RequestsWhatIsNeeded DEF LinkAgrees
<1>4. CASE mqtt_reconnect_timer_handler
  <2>1. /\ rfcomm_cid' = rfcomm_cid /\ link' = link /\ printer_used' = printer_used
        /\ request_bt_send(asked, asked)
    BY <1>1, <1>4 DEF mqtt_reconnect_timer_handler, ring
  <2> QED
    BY <1>1, <2>1, RequestsWhatIsNeeded DEF LinkAgrees
<1>5. CASE \E mtu \in 1 .. MaxMtu : ChannelOpened(mtu)
  <2>1. /\ link = "opening" /\ link' = "open" /\ rfcomm_cid' = 1
        /\ request_bt_send(asked, asked)
    BY <1>1, <1>5 DEF ChannelOpened
  <2>2. ~asked
    BY <1>1, <2>1 DEF LinkAgrees
  <2> QED
    BY <1>1, <2>1, <2>2, RequestsWhatIsNeeded DEF LinkAgrees, None
<1>6. CASE HciWorking
  BY <1>6 DEF HciWorking, connect_bluetooth_printer, ring, SendIsAsked, LinkAgrees
<1>7. CASE \E channel \in 1 .. 2 : ServiceFound(channel)
  BY <1>7 DEF ServiceFound, ring, SendIsAsked, LinkAgrees
<1>8. CASE \E success \in BOOLEAN : QueryComplete(success)
  <2>1. /\ link # "open" /\ link' # "open"
        /\ UNCHANGED <<rfcomm_cid, rfcomm_send_pending, requested, printer_used>>
    BY <1>8 DEF QueryComplete, ring
  <2> QED
    BY <2>1 DEF SendIsAsked, LinkAgrees
<1>9. CASE ChannelFails
  BY <1>9 DEF ChannelFails, ring, SendIsAsked, LinkAgrees
<1>10. CASE ChannelClosed
  BY <1>10 DEF ChannelClosed, connect_bluetooth_printer, ring, SendIsAsked, LinkAgrees
<1>11. CASE UNCHANGED vars
  BY <1>11 DEF vars, bluetooth, ring, SendIsAsked, LinkAgrees
<1> QED
  BY <1>2, <1>3, <1>4, <1>5, <1>6, <1>7, <1>8, <1>9, <1>10, <1>11 DEF Next

\* Sending never stalls: bytes that wait for an open channel have a request, and there is
\* no request without them.
THEOREM SendingNeverStalls == Spec => []SendIsAsked
<1>1. Init => SendIsAsked /\ LinkAgrees
  BY DEF Init, SendIsAsked, LinkAgrees, None
<1> QED
  BY <1>1, InitialTypes, NextTypes, NextSends, PTL DEF Spec

-----------------------------------------------------------------------------
(* The queue of bytes.                                                     *)

\* The bytes that wait are a sequence of numbers.
LEMMA WaitingBytes ==
    ASSUME BufferTypeOK
    PROVE  Waiting \in Seq(Nat) /\ Len(Waiting) = printer_used
<1>1. Waiting = Window(printer_buffer, printer_read_pos, printer_used, Size)
  BY DEF Waiting, Window
<1> QED
  BY <1>1, BufferAssumption, WindowBytes DEF BufferTypeOK, Cells

\* buffer_write is the arrival of n bytes in the queue, of which Accepted(n) are kept.
LEMMA WriteIsArrival ==
    ASSUME BufferTypeOK, RingConsistent, NEW n \in Nat, buffer_write(n), printed' = printed
    PROVE  Queue!Next
<1> DEFINE kept == Accepted(n)
           new == [i \in 1 .. kept |-> received + i]
<1>1. /\ kept \in 0 .. n /\ printer_used + kept <= Size
      /\ kept = n \/ printer_used + kept = Size
  <2>1. Size \in Nat /\ printer_used \in 0 .. Size
    BY BufferAssumption DEF BufferTypeOK
  <2> QED
    BY <2>1 DEF Accepted, Room, Smaller
<1>2. received' = received + n /\ received \in Nat
  BY DEF buffer_write, BufferTypeOK
<1>3. Waiting' = Waiting \o new
  BY WriteAppends
<1>4. Waiting \in Seq(Nat) /\ Len(Waiting) = printer_used
  BY WaitingBytes
<1>5. new \in Seq(Nat)
  BY <1>1, <1>2
<1> HIDE DEF new
<1>6. Waiting \o new \in Seq(Nat)
  BY <1>4, <1>5
<1>7. /\ Waiting' = SubSeq(Waiting \o new, 1, Len(Waiting \o new))
      /\ 0 <= Len(Waiting \o new)
  BY <1>3, <1>6
<1>8. printed' = printed \o SubSeq(Waiting \o new, 1, 0)
  BY <1>6 DEF BufferTypeOK
<1>9. Queue!Step(n, kept, 0)
  <2> HIDE DEF kept
  <2> QED
    BY <1>1, <1>2, <1>4, <1>7, <1>8 DEF Queue!Step, new
<1>10. n \in 0 .. received' /\ 0 \in 0 .. Len(printed')
  BY <1>2 DEF BufferTypeOK
<1> QED
  BY <1>1, <1>9, <1>10 DEF Queue!Next

\* Taking the k bytes behind the read pointer is sending the k bytes that waited longest.
LEMMA ConsumeIsSending ==
    ASSUME BufferTypeOK, NEW k \in 0 .. Contiguous, buffer_consume(k),
           received' = received,
           printed' = printed \o BytesAt(printer_read_pos, k)
    PROVE  Queue!Next
<1> DEFINE none == [i \in 1 .. 0 |-> received + i]
<1>1. k \in 0 .. printer_used /\ printer_used \in 0 .. Size /\ Size \in Nat
  BY BufferAssumption DEF BufferTypeOK, Cells, Contiguous, Smaller
<1>2. Waiting \in Seq(Nat) /\ Len(Waiting) = printer_used
  BY WaitingBytes
<1>3. Waiting \o none = Waiting
  BY <1>2
<1>4. /\ Waiting' = SubSeq(Waiting, k + 1, Len(Waiting))
      /\ BytesAt(printer_read_pos, k) = SubSeq(Waiting, 1, k)
  BY <1>1, ConsumeTakesFirst, PointerBytes
<1> HIDE DEF none
<1>5. /\ printed' = printed \o SubSeq(Waiting \o none, 1, k)
      /\ Waiting' = SubSeq(Waiting \o none, k + 1, Len(Waiting \o none))
      /\ k <= Len(Waiting \o none)
  BY <1>1, <1>2, <1>3, <1>4
<1>6. received' = received + 0 /\ Len(Waiting) + 0 <= Size
  BY <1>1, <1>2 DEF BufferTypeOK
<1>7. Queue!Step(0, 0, k)
  BY <1>5, <1>6 DEF Queue!Step, none
<1>8. k \in 0 .. Len(printed') /\ 0 \in 0 .. received'
  <2>1. SubSeq(Waiting, 1, k) \in Seq(Nat) /\ Len(SubSeq(Waiting, 1, k)) = k
    BY <1>1, <1>2, FirstOnes
  <2>2. printed \in Seq(Nat) /\ received' \in Nat
    BY DEF BufferTypeOK
  <2>3. Len(printed') = Len(printed) + k
    BY <1>4, <2>1, <2>2
  <2> QED
    BY <1>1, <2>2, <2>3
<1>9. 0 \in 0 .. 0
  OBVIOUS
<1> QED
  BY <1>7, <1>8, <1>9 DEF Queue!Next

\* Every callback is a step of the queue or leaves it alone.
LEMMA NextQueues ==
    ASSUME TypeOK, RingConsistent, [Next]_vars
    PROVE  [Queue!Next]_<<received, Waiting, printed>>
<1>1. BufferTypeOK
  BY DEF TypeOK
<1>2. ASSUME UNCHANGED <<ring, received, printed>>
      PROVE  UNCHANGED <<received, Waiting, printed>>
  BY <1>2 DEF ring, Waiting
<1>3. CASE mqtt_incoming_data_cb
  <2>1. PICK n \in 1 .. MaxFragment : buffer_write(n)
    BY <1>3 DEF mqtt_incoming_data_cb
  <2>2. n \in Nat /\ printed' = printed
    BY <1>3, FragmentLength DEF mqtt_incoming_data_cb
  <2> QED
    BY <1>1, <2>1, <2>2, WriteIsArrival
<1>4. CASE \E taken \in BOOLEAN : bt_send_available(taken)
  <2>1. PICK taken \in BOOLEAN : bt_send_available(taken)
    BY <1>4
  <2>2. CASE taken /\ printer_used > 0 /\ rfcomm_cid # None
    <3>1. /\ buffer_consume(Packet) /\ received' = received
          /\ printed' = printed \o BytesAt(printer_read_pos, Packet)
      BY <2>1, <2>2 DEF bt_send_available
    <3>2. Packet \in 0 .. Contiguous
      BY BufferAssumption
      DEF Packet, Contiguous, Smaller, TypeOK, BufferTypeOK, Cells
    <3> QED
      BY <1>1, <3>1, <3>2, ConsumeIsSending
  <2>3. CASE ~(taken /\ printer_used > 0 /\ rfcomm_cid # None)
    BY <1>2, <2>1, <2>3 DEF bt_send_available
  <2> QED
    BY <2>2, <2>3
<1>5. CASE mqtt_reconnect_timer_handler
  BY <1>2, <1>5 DEF mqtt_reconnect_timer_handler
<1>6. CASE HciWorking
  BY <1>2, <1>6 DEF HciWorking
<1>7. CASE \E channel \in 1 .. 2 : ServiceFound(channel)
  BY <1>2, <1>7 DEF ServiceFound
<1>8. CASE \E success \in BOOLEAN : QueryComplete(success)
  BY <1>2, <1>8 DEF QueryComplete
<1>9. CASE \E mtu \in 1 .. MaxMtu : ChannelOpened(mtu)
  BY <1>2, <1>9 DEF ChannelOpened
<1>10. CASE ChannelFails
  BY <1>2, <1>10 DEF ChannelFails
<1>11. CASE ChannelClosed
  BY <1>2, <1>11 DEF ChannelClosed
<1>12. CASE UNCHANGED vars
  BY <1>2, <1>12 DEF vars
<1> QED
  BY <1>3, <1>4, <1>5, <1>6, <1>7, <1>8, <1>9, <1>10, <1>11, <1>12 DEF Next

\* The ring with its Bluetooth channel implements the bounded queue of bytes: none that
\* was kept is lost, repeated or overtaken, and none is dropped for which there was room.
THEOREM ImplementsByteQueue == Spec => QueueSpec
<1>1. Init => Queue!Init
  BY DEF Init, InitBuffer, Queue!Init, Waiting
<1>2. TypeOK /\ RingConsistent /\ [Next]_vars
          => [Queue!Next]_<<received, Waiting, printed>>
  BY NextQueues
<1> QED
  BY <1>1, <1>2, InitialTypes, NextTypes, PTL DEF Spec, QueueSpec, Queue!Spec, Queue!bytes
=============================================================================
