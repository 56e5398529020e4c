-------------------------- MODULE PicoClientProofs --------------------------
(***************************************************************************)
(* What holds of the Pico client's main loop for every buffer size, every  *)
(* size of the pieces that arrive, every delay and every poll interval:    *)
(* the USB build's buffer is a bounded queue of bytes as long as no data   *)
(* arrives in the middle of a flush, and a connection that is gone is      *)
(* tried again in time.                                                    *)
(***************************************************************************)
EXTENDS PicoClient, CommonLemmas, TLAPS

-----------------------------------------------------------------------------
(* The flush that is under way.                                            *)

\* The first cell of the bytes that are still to be sent, and how many these are: between
\* fwrite and the end of buffer_consume the ring does not say it alone.
First == IF pc = "consuming" THEN (printer_read_pos + len) % Size ELSE printer_read_pos

Rest == IF pc \in {"consuming", "storing"} THEN printer_used - len ELSE printer_used

\* What the main loop has in its local variables is still true of the ring; the ring is
\* written where the bytes end that are still to be sent.
FlushInv ==
    /\ BufferTypeOK
    /\ pc \in Places
    /\ len \in Nat
    /\ pc \in {"reading", "writing"} => position = printer_read_pos
    /\ pc \in {"writing", "consuming"} =>
          len <= printer_used /\ len <= Size - printer_read_pos
    /\ pc = "storing" => len <= printer_used /\ loaded = printer_used
    /\ printer_write_pos = (First + Rest) % Size

\* The bytes that are still to be sent are a part of the ring.
RestIsInRing == StillWaiting = Window(printer_buffer, First, Rest, Size)

\* A step of QuietSpec.
QuietStep == Next /\ (pc # "sleeping" => UNCHANGED received)

\* Where the bytes are that are still to be sent.
LEMMA RestProperties ==
    ASSUME FlushInv
    PROVE  /\ Size \in Nat \ {0}
           /\ printer_buffer \in [0 .. Size - 1 -> Nat]
           /\ printer_read_pos \in 0 .. Size - 1
           /\ printer_used \in 0 .. Size
           /\ First \in 0 .. Size - 1
           /\ Rest \in 0 .. Size
           /\ RestIsInRing
<1> USE DEF RestIsInRing
<1>1. /\ Size \in Nat \ {0}
      /\ printer_buffer \in [0 .. Size - 1 -> Nat]
      /\ printer_read_pos \in 0 .. Size - 1
      /\ printer_used \in 0 .. Size
  BY BufferAssumption DEF FlushInv, BufferTypeOK, Cells
<1>2. Waiting = Window(printer_buffer, printer_read_pos, printer_used, Size)
  BY DEF Waiting, Window
<1>3. CASE pc = "consuming"
  <2>1. len \in 0 .. printer_used /\ printer_read_pos + len \in Int
    BY <1>1, <1>3 DEF FlushInv
  <2>2. (printer_read_pos + len) % Size \in 0 .. Size - 1
    BY <1>1, <2>1, ModRange
  <2>3. Window(printer_buffer, (printer_read_pos + len) % Size, printer_used - len, Size)
            = SubSeq(Waiting, len + 1, printer_used)
    BY <1>1, <1>2, <2>1, WindowShrinks
  <2>4. StillWaiting = SubSeq(Waiting, len + 1, printer_used)
    BY <1>3 DEF StillWaiting
  <2>5. First = (printer_read_pos + len) % Size /\ Rest = printer_used - len
    BY <1>3 DEF First, Rest
  <2>6. printer_used - len \in 0 .. Size
    BY <1>1, <2>1
  <2> QED
    BY <1>1, <2>2, <2>3, <2>4, <2>5, <2>6
<1>4. CASE pc = "storing"
  <2>1. len \in 0 .. printer_used /\ printer_used - len \in 0 .. printer_used
    BY <1>1, <1>4 DEF FlushInv
  <2>2. Window(printer_buffer, printer_read_pos, printer_used - len, Size)
            = SubSeq(Waiting, 1, printer_used - len)
    BY <1>1, <1>2, <2>1, WindowBegins
  <2>3. StillWaiting = SubSeq(Waiting, 1, printer_used - len)
    BY <1>4 DEF StillWaiting
  <2>4. First = printer_read_pos /\ Rest = printer_used - len
    BY <1>4 DEF First, Rest
  <2>5. printer_used - len \in 0 .. Size
    BY <1>1, <2>1
  <2> QED
    BY <1>1, <2>2, <2>3, <2>4, <2>5
<1>5. CASE pc \notin {"consuming", "storing"}
  <2>1. StillWaiting = Waiting
    BY <1>5 DEF StillWaiting
  <2>2. First = printer_read_pos /\ Rest = printer_used
    BY <1>5 DEF First, Rest
  <2> QED
    BY <1>1, <1>2, <2>1, <2>2
<1> QED
  BY <1>3, <1>4, <1>5

\* The same of the state after a step.
LEMMA StillWaitingNext ==
    FlushInv' => RestIsInRing'
<1>1. FlushInv => RestIsInRing
  BY RestProperties
<1> QED
  BY <1>1, PTL

\* It begins with an empty ring and no flush.
LEMMA InitialFlush ==
    ASSUME Init
    PROVE  FlushInv
<1>1. BufferTypeOK
  <2>1. 0 \in Cells /\ 0 \in 0 .. Size
    BY BufferAssumption DEF Cells
  <2>2. [c \in Cells |-> 0] \in [Cells -> Nat] /\ <<>> \in Seq(Nat)
    OBVIOUS
  <2> QED
    BY <2>1, <2>2 DEF Init, InitBuffer, BufferTypeOK
<1>2. First = 0 /\ Rest = 0 /\ printer_write_pos = 0
  BY DEF Init, InitBuffer, First, Rest
<1>3. 0 % Size = 0
  BY BufferAssumption, ModSmall
<1>4. (First + Rest) % Size = 0
  BY <1>2, <1>3
<1>5. pc = "sleeping" /\ len \in Nat
  BY DEF Init
<1> QED
  BY <1>1, <1>2, <1>4, <1>5 DEF FlushInv, Places

\* The steps of the flush between the main loop's reads of the ring and its writes to it
\* keep the invariant and move no bytes.
LEMMA ReadingMovesNothing ==
    ASSUME FlushInv, ReadPosition \/ ReadLength
    PROVE  /\ FlushInv'
           /\ UNCHANGED <<printer_buffer, First, Rest, received, printed>>
<1>1. /\ UNCHANGED <<ring, received, printed>>
      /\ pc \notin {"consuming", "storing"} /\ pc' \notin {"consuming", "storing"}
  BY DEF ReadPosition, ReadLength
<1>2. /\ UNCHANGED <<printer_buffer, printer_read_pos, printer_write_pos, printer_used>>
      /\ UNCHANGED <<First, Rest>>
  BY <1>1 DEF ring, First, Rest
<1>3. BufferTypeOK'
  BY <1>1, <1>2 DEF FlushInv, BufferTypeOK
<1>4. printer_write_pos' = (First' + Rest') % Size
  BY <1>2 DEF FlushInv
<1>5. CASE ReadPosition
  <2>1. pc' = "reading" /\ position' = printer_read_pos' /\ len' \in Nat
    BY <1>2, <1>5 DEF ReadPosition, FlushInv
  <2> QED
    BY <1>1, <1>2, <1>3, <1>4, <2>1 DEF FlushInv, Places
<1>6. CASE ReadLength
  <2>1. /\ pc' \in {"sleeping", "writing"}
        /\ position' = printer_read_pos'
        /\ len' = Smaller(printer_used, Size - printer_read_pos)
    BY <1>2, <1>6 DEF ReadLength, FlushInv
  <2>2. /\ len' \in Nat /\ len' <= printer_used' /\ len' <= Size - printer_read_pos'
    BY <1>2, <2>1, RestProperties DEF Smaller
  <2> QED
    BY <1>1, <1>2, <1>3, <1>4, <2>1, <2>2 DEF FlushInv, Places
<1> QED
  BY <1>1, <1>2, <1>5, <1>6

\* buffer_consume, in its two steps, takes out of the ring what fwrite has taken already.
LEMMA ConsumingMovesNothing ==
    ASSUME FlushInv, Consume \/ Store
    PROVE  /\ FlushInv'
           /\ UNCHANGED <<printer_buffer, First, Rest, received, printed>>
<1>1. /\ Size \in Nat \ {0} /\ printer_read_pos \in 0 .. Size - 1
      /\ printer_used \in 0 .. Size /\ BufferTypeOK /\ len \in Nat
  BY RestProperties DEF FlushInv
<1>2. CASE Consume
  <2>1. pc = "consuming" /\ len <= printer_used
    BY <1>2 DEF Consume, FlushInv
  <2>2. len' = len
    BY <1>1, <1>2, <2>1 DEF Consume, Smaller
  <2>3. /\ printer_read_pos' = (printer_read_pos + len) % Size
        /\ pc' = "storing" /\ loaded' = printer_used
        /\ UNCHANGED <<printer_buffer, printer_write_pos, printer_used, received, printed>>
    BY <1>2, <2>2 DEF Consume
  <2>4. First' = First /\ Rest' = Rest
    BY <2>1, <2>2, <2>3 DEF First, Rest
  <2>5. printer_read_pos' \in Cells
    <3>1. printer_read_pos + len \in Int
      BY <1>1
    <3> QED
      BY <1>1, <2>3, <3>1, ModRange DEF Cells
  <2>6. BufferTypeOK'
    BY <1>1, <2>3, <2>5 DEF BufferTypeOK
  <2> QED
    BY <1>1, <2>1, <2>2, <2>3, <2>4, <2>6 DEF FlushInv, Places
<1>3. CASE Store
  <2>1. pc = "storing" /\ len <= printer_used /\ loaded = printer_used
    BY <1>3 DEF Store, FlushInv
  <2>2. (printer_used - len) % SizeT = printer_used - len
    <3>1. SizeT \in Nat \ {0} /\ printer_used - len \in 0 .. SizeT - 1
      BY <1>1, <2>1, UsbAssumption
    <3> QED
      BY <3>1, ModSmall
  <2>3. /\ printer_used' = printer_used - len
        /\ pc' = "sleeping" /\ len' = len
        /\ UNCHANGED <<printer_buffer, printer_read_pos, printer_write_pos, received, printed>>
    BY <1>3, <2>1, <2>2 DEF Store
  <2>4. First' = First /\ Rest' = Rest
    BY <2>1, <2>3 DEF First, Rest
  <2>5. BufferTypeOK'
    BY <1>1, <2>1, <2>3 DEF BufferTypeOK
  <2> QED
    BY <1>1, <2>1, <2>3, <2>4, <2>5 DEF FlushInv, Places
<1> QED
  BY <1>2, <1>3

-----------------------------------------------------------------------------
(* The steps that move bytes.                                              *)

\* Bytes that arrive and are kept behind those that wait, as many as there is room for,
\* and bytes that are sent from the front, are a step of the queue.
LEMMA ArrivesAndSends ==
    ASSUME NEW n \in Nat, NEW kept \in 0 .. n, NEW all \in Seq(Nat), NEW k \in 0 .. Len(all),
           received \in Nat, printed \in Seq(Nat),
           kept = n \/ Len(StillWaiting) + kept = Size,
           Len(StillWaiting) + kept <= Size,
           all = Appended(StillWaiting, received, kept),
           received' = received + n,
           printed' = printed \o SubSeq(all, 1, k),
           StillWaiting' = SubSeq(all, k + 1, Len(all))
    PROVE  Queue!Next
<1>1. Queue!Step(n, kept, k)
  BY DEF Queue!Step, Appended
<1>2. n \in 0 .. received'
  OBVIOUS
<1>3. k \in 0 .. Len(printed')
  <2>1. /\ SubSeq(all, 1, k) \in Seq(Nat) /\ Len(SubSeq(all, 1, k)) = k
    BY FirstOnes
  <2>2. Len(printed') = Len(printed) + k
    BY <2>1, ConcatProperties, ZenonT(60)
  <2> QED
    BY <2>2
<1> QED
  BY <1>1, <1>2, <1>3 DEF Queue!Next

\* fwrite takes the bytes that wait, from the front.
LEMMA FwriteSends ==
    ASSUME FlushInv, Fwrite
    PROVE  FlushInv' /\ [Queue!Next]_<<received, StillWaiting, printed>>
<1>1. /\ Size \in Nat \ {0} /\ printer_buffer \in [0 .. Size - 1 -> Nat]
      /\ printer_read_pos \in 0 .. Size - 1 /\ printer_used \in 0 .. Size
      /\ StillWaiting = Window(printer_buffer, printer_read_pos, printer_used, Size)
  BY RestProperties DEF FlushInv, Fwrite, First, Rest, RestIsInRing
<1>2. /\ pc = "writing" /\ position = printer_read_pos
      /\ len \in Nat /\ len <= printer_used /\ len <= Size - printer_read_pos
      /\ received \in Nat /\ printed \in Seq(Nat)
      /\ printer_write_pos = (printer_read_pos + printer_used) % Size
  BY DEF Fwrite, FlushInv, BufferTypeOK, First, Rest
<1>3. PICK k \in 0 .. len :
          /\ printed' = printed \o BytesAt(position, k)
          /\ len' = k
          /\ pc' = IF k = 0 THEN "sleeping" ELSE "consuming"
  BY DEF Fwrite
<1>4. /\ UNCHANGED <<printer_buffer, printer_read_pos, printer_write_pos, printer_used>>
      /\ UNCHANGED <<received, position, loaded>>
  BY DEF Fwrite, ring
<1>5. k \in 0 .. printer_used /\ printer_read_pos + k <= Size
  BY <1>1, <1>2
<1>6. BytesAt(position, k) = SubSeq(StillWaiting, 1, k)
  <2>1. BytesBehind(printer_buffer, printer_read_pos, k, Size)
            = SubSeq(Window(printer_buffer, printer_read_pos, printer_used, Size), 1, k)
    BY <1>1, <1>5, WindowFront
  <2> QED
    BY <1>1, <1>2, <2>1 DEF BytesAt, BytesBehind
<1>7. StillWaiting \in Seq(Nat) /\ Len(StillWaiting) = printer_used
  BY <1>1, WindowBytes
<1>8. SubSeq(StillWaiting, 1, k) \in Seq(Nat)
  BY <1>5, <1>7, FirstOnes
<1>9. printed' \in Seq(Nat)
  BY <1>2, <1>3, <1>6, <1>8
<1>10. BufferTypeOK'
  BY <1>4, <1>9 DEF FlushInv, BufferTypeOK
<1>11. CASE k = 0
  <2>1. pc' = "sleeping" /\ len' \in Nat
    BY <1>3, <1>11
  <2>2. First' = printer_read_pos /\ Rest' = printer_used
    BY <1>4, <2>1 DEF First, Rest
  <2>3. FlushInv'
    BY <1>2, <1>4, <1>10, <2>1, <2>2 DEF FlushInv, Places
  <2>4. StillWaiting' = StillWaiting
    BY <1>1, <1>4, <2>2, <2>3, StillWaitingNext DEF RestIsInRing
  <2>5. printed' = printed
    BY <1>2, <1>3, <1>6, <1>7, <1>11
  <2> QED
    BY <1>4, <2>3, <2>4, <2>5
<1>12. CASE k # 0
  <2>1. pc' = "consuming" /\ len' = k
    BY <1>3, <1>12
  <2>2. First' = (printer_read_pos + k) % Size /\ Rest' = printer_used - k
    BY <1>4, <2>1 DEF First, Rest
  <2>3. (First' + Rest') % Size = (printer_read_pos + printer_used) % Size
    BY <1>1, <1>5, <2>2, BehindTheWrap
  <2>4. FlushInv'
    BY <1>1, <1>2, <1>4, <1>5, <1>10, <2>1, <2>3 DEF FlushInv, Places
  <2>5. StillWaiting' = Window(printer_buffer, First', Rest', Size)
    BY <1>4, <2>4, StillWaitingNext DEF RestIsInRing
  <2>6. StillWaiting' = SubSeq(StillWaiting, k + 1, printer_used)
    BY <1>1, <1>5, <2>2, <2>5, WindowShrinks
  <2>7. StillWaiting = Appended(StillWaiting, received, 0)
    BY <1>2, <1>7 DEF Appended
  <2>8. Queue!Next
    <3>1. /\ k \in 0 .. Len(StillWaiting) /\ Len(StillWaiting) + 0 <= Size
          /\ received' = received + 0
          /\ printed' = printed \o SubSeq(StillWaiting, 1, k)
          /\ StillWaiting' = SubSeq(StillWaiting, k + 1, Len(StillWaiting))
          /\ 0 \in Nat /\ 0 \in 0 .. 0
      BY <1>1, <1>2, <1>3, <1>4, <1>5, <1>6, <1>7, <2>6
    <3> QED
      BY <1>2, <1>7, <2>7, <3>1, ArrivesAndSends
  <2> QED
    BY <2>4, <2>8
<1> QED
  BY <1>11, <1>12

\* buffer_write: what is accepted fits.
LEMMA AcceptedFits ==
    ASSUME BufferTypeOK, NEW n \in Nat
    PROVE  /\ Accepted(n) \in 0 .. n
           /\ Accepted(n) \in 0 .. Size - printer_used
           /\ Accepted(n) = n \/ printer_used + Accepted(n) = Size
BY BufferAssumption DEF BufferTypeOK, Accepted, Room, Smaller

\* The bytes that are accepted come behind those that wait.
LEMMA CopyingAppends ==
    ASSUME BufferTypeOK, NEW n \in Nat
    PROVE  Window(Filled(printer_buffer, (printer_read_pos + printer_used) % Size,
                         Accepted(n), received, Size),
                  printer_read_pos, printer_used + Accepted(n), Size)
               = Appended(Window(printer_buffer, printer_read_pos, printer_used, Size),
                          received, Accepted(n))
<1>1. Accepted(n) \in 0 .. Size - printer_used
  BY AcceptedFits
<1>2. /\ Size \in Nat \ {0} /\ printer_buffer \in [0 .. Size - 1 -> Nat]
      /\ printer_read_pos \in 0 .. Size - 1 /\ printer_used \in 0 .. Size
      /\ received \in Nat
  BY BufferAssumption DEF BufferTypeOK, Cells
<1> QED
  BY <1>1, <1>2, WindowGrows, ZenonT(60)

\* The callback, between two flushes of the main loop: the bytes that are accepted come
\* behind those that wait, and those that fwrite takes are the first ones of all.
LEMMA CallbackMoves ==
    ASSUME FlushInv, pc = "sleeping", mqtt_incoming_data_cb
    PROVE  FlushInv' /\ [Queue!Next]_<<received, StillWaiting, printed>>
<1>1. PICK n \in 1 .. MaxFragment, k \in 0 .. SizeT : printer_write(n, k)
  BY DEF mqtt_incoming_data_cb
<1> DEFINE acc == Accepted(n)
           new == Copied(n)
           u == printer_used + acc
           all == Window(new, printer_read_pos, u, Size)
           r == (printer_read_pos + k) % Size
<1>2. /\ Size \in Nat \ {0} /\ printer_buffer \in [0 .. Size - 1 -> Nat]
      /\ printer_read_pos \in 0 .. Size - 1 /\ printer_used \in 0 .. Size
      /\ received \in Nat
  BY RestProperties DEF FlushInv, BufferTypeOK
<1>3. /\ StillWaiting = Window(printer_buffer, printer_read_pos, printer_used, Size)
      /\ printer_write_pos = (printer_read_pos + printer_used) % Size
      /\ printer_write_pos \in 0 .. Size - 1 /\ printed \in Seq(Nat)
  BY RestProperties DEF FlushInv, BufferTypeOK, First, Rest, RestIsInRing, Cells
<1>4. n \in Nat /\ k \in Nat
  BY UsbAssumption
<1>5. /\ acc \in 0 .. n /\ acc \in 0 .. Size - printer_used
      /\ acc = n \/ u = Size
  BY <1>4, AcceptedFits DEF FlushInv
<1>6. new = Filled(printer_buffer, (printer_read_pos + printer_used) % Size, acc, received,
                   Size)
  BY <1>3 DEF Copied, Filled, Cells
<1>7. /\ k <= u
      /\ received' = received + n
      /\ printer_buffer' = new
      /\ printer_write_pos' = (printer_write_pos + acc) % Size
      /\ printed' = printed \o [i \in 1 .. k |-> new[(printer_read_pos + i - 1) % Size]]
      /\ printer_read_pos' = r
      /\ printer_used' = u - k
  BY <1>1 DEF printer_write
<1> HIDE DEF acc, new
<1>8. u \in 0 .. Size /\ k \in 0 .. u /\ u - k \in 0 .. Size
  BY <1>2, <1>4, <1>5, <1>7
<1>9. r \in 0 .. Size - 1
  <2>1. printer_read_pos + k \in Int
    BY <1>2, <1>4
  <2> QED
    BY <1>2, <2>1, ModRange
<1> HIDE DEF r
<1>10. new \in [0 .. Size - 1 -> Nat]
  <2>1. (printer_read_pos + printer_used) % Size \in 0 .. Size - 1
    <3>1. printer_read_pos + printer_used \in Int
      BY <1>2
    <3> QED
      BY <1>2, <3>1, ModRange
  <2>2. acc \in Nat
    BY <1>5
  <2> QED
    BY <1>2, <1>6, <2>1, <2>2, FilledIsBuffer
<1>11. all = Appended(StillWaiting, received, acc)
  <2>1. Window(Filled(printer_buffer, (printer_read_pos + printer_used) % Size, acc,
                      received, Size),
               printer_read_pos, printer_used + acc, Size)
            = Appended(Window(printer_buffer, printer_read_pos, printer_used, Size),
                       received, acc)
    BY <1>4, CopyingAppends DEF acc, FlushInv
  <2> QED
    BY <1>3, <1>6, <2>1
<1> HIDE DEF u
<1>12. /\ all \in Seq(Nat) /\ Len(all) = u
       /\ SubSeq(all, 1, k) = Window(new, printer_read_pos, k, Size)
  BY <1>2, <1>8, <1>10, WindowBytes, WindowBegins
<1>13. Window(new, r, u - k, Size) = SubSeq(all, k + 1, u)
  BY <1>2, <1>8, <1>10, WindowShrinks DEF r
<1> HIDE DEF all
<1>14. printed' = printed \o SubSeq(all, 1, k)
  BY <1>7, <1>12 DEF Window
<1>15. SubSeq(all, 1, k) \in Seq(Nat)
  BY <1>8, <1>12, FirstOnes
<1>16. pc' = "sleeping" /\ len' = len
  BY DEF mqtt_incoming_data_cb, main
<1>17. First' = r /\ Rest' = u - k
  BY <1>7, <1>16 DEF First, Rest
<1>18. BufferTypeOK'
  <2>1. printer_write_pos' \in Cells
    <3>1. printer_write_pos + acc \in Int
      BY <1>3, <1>5
    <3> QED
      BY <1>2, <1>7, <3>1, ModRange DEF Cells
  <2>2. printed' \in Seq(Nat)
    BY <1>3, <1>14, <1>15
  <2>3. received' \in Nat
    BY <1>2, <1>4, <1>7
  <2> QED
    BY <1>7, <1>8, <1>9, <1>10, <2>1, <2>2, <2>3 DEF BufferTypeOK, Cells
<1>19. printer_write_pos' = (First' + Rest') % Size
  <2>1. printer_write_pos' = (printer_read_pos + printer_used + acc) % Size
    BY <1>2, <1>3, <1>5, <1>7, AheadOfWrap
  <2>2. (r + (u - k)) % Size = (printer_read_pos + u) % Size
    BY <1>2, <1>8, BehindTheWrap DEF r
  <2>3. printer_read_pos + printer_used + acc = printer_read_pos + u
    BY <1>2, <1>5 DEF u
  <2> QED
    BY <1>17, <2>1, <2>2, <2>3
<1>20. FlushInv'
  BY <1>16, <1>18, <1>19 DEF FlushInv, Places
<1>21. StillWaiting' = SubSeq(all, k + 1, Len(all))
  BY <1>7, <1>12, <1>13, <1>17, <1>20, StillWaitingNext DEF RestIsInRing
<1>22. Len(StillWaiting) + acc = u
  BY <1>2, <1>3, WindowBytes DEF u
<1>23. Queue!Next
  <2>1. /\ acc = n \/ Len(StillWaiting) + acc = Size
        /\ Len(StillWaiting) + acc <= Size
        /\ k \in 0 .. Len(all)
    BY <1>2, <1>5, <1>8, <1>12, <1>22
  <2>2. acc \in 0 .. n /\ all \in Seq(Nat)
    BY <1>5, <1>12
  <2> QED
    BY <1>2, <1>3, <1>4, <1>7, <1>11, <1>14, <1>21, <2>1, <2>2, ArrivesAndSends
<1> QED
  BY <1>20, <1>23

\* Every step of the client in which no data arrives in the middle of a flush keeps the
\* invariant, and is a step of the queue or leaves it alone.
LEMMA QuietStepMoves ==
    ASSUME FlushInv, [QuietStep]_vars
    PROVE  FlushInv' /\ [Queue!Next]_<<received, StillWaiting, printed>>
<1>1. ASSUME FlushInv', UNCHANGED <<printer_buffer, First, Rest, received, printed>>
      PROVE  UNCHANGED <<received, StillWaiting, printed>>
  BY <1>1, RestProperties, StillWaitingNext DEF RestIsInRing
<1>2. CASE mqtt_incoming_data_cb /\ QuietStep
  <2>1. received' # received
    <3>1. PICK n \in 1 .. MaxFragment : received' = received + n
      BY <1>2 DEF mqtt_incoming_data_cb, printer_write
    <3> QED
      BY <3>1, UsbAssumption DEF FlushInv, BufferTypeOK
  <2>2. pc = "sleeping"
    BY <1>2, <2>1 DEF QuietStep
  <2> QED
    BY <1>2, <2>2, CallbackMoves
<1>3. CASE ReadPosition \/ ReadLength
  BY <1>1, <1>3, ReadingMovesNothing
<1>4. CASE Fwrite
  BY <1>4, FwriteSends
<1>5. CASE Consume \/ Store
  BY <1>1, <1>5, ConsumingMovesNothing
<1>6. CASE UNCHANGED vars
  <2>1. /\ UNCHANGED <<printer_buffer, printer_read_pos, printer_write_pos, printer_used>>
        /\ UNCHANGED <<received, printed, pc, position, len, loaded>>
    BY <1>6 DEF vars, ring, main
  <2>2. First' = First /\ Rest' = Rest
    BY <2>1 DEF First, Rest
  <2>3. FlushInv'
    BY <2>1, <2>2 DEF FlushInv, BufferTypeOK
  <2> QED
    BY <1>1, <2>1, <2>2, <2>3
<1> QED
  BY <1>2, <1>3, <1>4, <1>5, <1>6 DEF QuietStep, Next

\* The USB build's ring is a bounded queue of bytes as long as no data arrives in the
\* middle of the main loop's flush, however few bytes the host takes at a time.
THEOREM QuietFlushIsQueue == QuietSpec => QueueSpec
<1>1. Init => Queue!Init
  BY DEF Init, InitBuffer, Queue!Init, StillWaiting, Waiting
<1>2. FlushInv /\ [QuietStep]_vars
          => FlushInv' /\ [Queue!Next]_<<received, StillWaiting, printed>>
  BY QuietStepMoves
<1> QED
  BY <1>1, <1>2, InitialFlush, PTL
  DEF QuietSpec, QuietStep, QueueSpec, Queue!Spec, Queue!bytes

-----------------------------------------------------------------------------
(* The main loop.                                                          *)

\* Whatever the main loop and the connection do, the buffer takes a step of QuietSpec.
LEMMA ClientStepIsQuiet ==
    ASSUME [ClientNext]_allVars
    PROVE  [QuietStep]_vars
<1>1. CASE Flushes
  <2>1. Next /\ UNCHANGED received
    BY <1>1 DEF Flushes, Next, ReadPosition, ReadLength, Fwrite, Consume, Store
  <2> QED
    BY <2>1 DEF QuietStep
<1>2. CASE Arrives
  BY <1>2 DEF Arrives, QuietStep, Next
<1>3. CASE ~Flushes /\ ~Arrives
  BY <1>3 DEF ClientNext, Checks, Restarts, Sleeps, Connection, allVars
<1> QED
  BY <1>1, <1>2, <1>3

\* The client's buffer is a bounded queue of bytes, flushed in turn with the repair of the
\* connection: none that was kept is lost, repeated or overtaken, and none is dropped for
\* which there was room.
THEOREM ImplementsByteQueue == ClientSpec => QueueSpec
<1>1. ClientInit => Init
  BY DEF ClientInit
<1>2. [ClientNext]_allVars => [QuietStep]_vars
  BY ClientStepIsQuiet
<1>3. ClientSpec => QuietSpec
  BY <1>1, <1>2, PTL DEF ClientSpec, QuietSpec, QuietStep
<1> QED
  BY <1>3, QuietFlushIsQueue

-----------------------------------------------------------------------------
(* The connection.                                                         *)

\* The longest time that the timer or a sleep can be set to, and the longest that a
\* connection can have been gone when it is over: the main loop first comes to its check,
\* at the end of a poll, and then sleeps for the delay before it starts again.
LongestWait == IF build = "bluetooth" \/ retrying THEN Delay ELSE Poll

LongestGone ==
    IF build = "bluetooth" THEN Delay ELSE IF retrying THEN Delay + Poll ELSE Poll

\* No connection was there before there was a client, and main makes the client before its
\* loop; a connection that is gone will have been gone no longer than that when the timer
\* or the sleep is over.
ConnectionInv ==
    /\ wait \in Nat /\ untried \in Nat
    /\ phase \in {"booting", "resolving"} => client = "null"
    /\ client = "null" => ~connected_once
    /\ wait <= LongestWait
    /\ connected_once /\ client = "disconnected" => untried + wait <= LongestGone

\* It begins with no connection.
LEMMA InitialConnection ==
    ASSUME Mqtt!Init
    PROVE  ConnectionInv
<1>1. Delay \in Nat /\ Poll \in Nat
  BY TimesAssumption
<1>2. wait = 0 /\ untried = 0 /\ client = "null" /\ ~connected_once
  BY DEF Mqtt!Init
<1>3. wait <= LongestWait
  BY <1>1, <1>2 DEF LongestWait
<1> QED
  BY <1>2, <1>3 DEF ConnectionInv

\* No step of the connection breaks it.
LEMMA NextConnection ==
    ASSUME ConnectionInv, [Mqtt!Next]_mqttVars
    PROVE  ConnectionInv'
<1> USE DEF ConnectionInv, LongestWait, LongestGone
<1>1. Delay \in Nat \ {0} /\ Poll \in Nat \ {0}
  BY TimesAssumption
<1>2. CASE Mqtt!Panic
  BY <1>1, <1>2 DEF Mqtt!Panic, Mqtt!clock
<1>3. CASE Mqtt!WifiConnects
  BY <1>1, <1>3 DEF Mqtt!WifiConnects, Mqtt!clock
<1>4. CASE Mqtt!resolve_mqtt
  BY <1>1, <1>4 DEF Mqtt!resolve_mqtt, Mqtt!mqtt_start
<1>5. CASE Mqtt!dns_found_cb
  BY <1>1, <1>5 DEF Mqtt!dns_found_cb, Mqtt!mqtt_start, Mqtt!clock
<1>6. CASE Mqtt!ConnectAccepted
  BY <1>1, <1>6 DEF Mqtt!ConnectAccepted, Mqtt!clock
<1>7. CASE Mqtt!Disconnected
  BY <1>1, <1>7 DEF Mqtt!Disconnected
<1>8. CASE \E success \in BOOLEAN : Mqtt!Subscribed(success)
  BY <1>1, <1>8 DEF Mqtt!Subscribed, Mqtt!clock
<1>9. CASE Mqtt!mqtt_reconnect_timer_handler
  BY <1>1, <1>9 DEF Mqtt!mqtt_reconnect_timer_handler, Mqtt!mqtt_start, Mqtt!Gone
<1>10. CASE Mqtt!LoopChecks
  <2>1. /\ build # "bluetooth" /\ wait = 0 /\ ~retrying
        /\ UNCHANGED <<build, phase, client, connected_once, untried>>
    BY <1>10 DEF Mqtt!LoopChecks
  <2>2. CASE Mqtt!Gone
    <3>1. retrying' /\ wait' = Delay
      BY <1>10, <2>2 DEF Mqtt!LoopChecks
    <3> QED
      BY <1>1, <2>1, <3>1
  <2>3. CASE ~Mqtt!Gone
    <3>1. ~retrying' /\ wait' = Poll
      BY <1>10, <2>3 DEF Mqtt!LoopChecks
    <3>2. ~(connected_once /\ client = "disconnected")
      BY <2>3 DEF Mqtt!Gone
    <3> QED
      BY <1>1, <2>1, <3>1, <3>2
  <2> QED
    BY <2>2, <2>3
<1>11. CASE Mqtt!LoopRestarts
  BY <1>1, <1>11 DEF Mqtt!LoopRestarts, Mqtt!mqtt_start
<1>12. CASE Mqtt!Tick
  BY <1>1, <1>12 DEF Mqtt!Tick
<1>13. CASE Mqtt!BrokerChanges
  BY <1>1, <1>13 DEF Mqtt!BrokerChanges, Mqtt!clock
<1>14. CASE UNCHANGED mqttVars
  BY <1>14 DEF mqttVars
<1> QED
  BY <1>2, <1>3, <1>4, <1>5, <1>6, <1>7, <1>8, <1>9, <1>10, <1>11, <1>12, <1>13, <1>14
  DEF Mqtt!Next

\* A step of the client is one of the connection or leaves it alone.
LEMMA ClientStepOfConnection ==
    ASSUME [ClientNext]_allVars
    PROVE  [Mqtt!Next]_mqttVars
BY DEF ClientNext, Checks, Restarts, Flushes, Sleeps, Arrives, Connection, Mqtt!Next, allVars,
       mqttVars

\* A connection that is gone is tried again within one delay and one sleep of the main
\* loop, whatever the broker, the host and the flush do.
THEOREM ReconnectsInTime == ClientSpec => []TriedInTime
<1>1. ClientInit => ConnectionInv
  BY InitialConnection DEF ClientInit
<1>2. ConnectionInv /\ [ClientNext]_allVars => ConnectionInv'
  BY NextConnection, ClientStepOfConnection
<1>3. ConnectionInv => TriedInTime
  BY TimesAssumption DEF ConnectionInv, LongestGone, TriedInTime, Mqtt!TriedInTime
<1> QED
  BY <1>1, <1>2, <1>3, PTL DEF ClientSpec
=============================================================================
