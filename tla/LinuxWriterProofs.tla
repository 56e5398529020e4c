------------------------- MODULE LinuxWriterProofs -------------------------
(***************************************************************************)
(* What holds of the Linux client for every size of chunks and payloads:   *)
(* its types, that a failed port is not used again, and that it writes     *)
(* payloads as PayloadBridge says.                                         *)
(***************************************************************************)
EXTENDS LinuxWriter, TLAPS

\* While a payload is being written, what remains of it is no longer than a payload.
PayloadInHand == writing => arrived - next <= MaxPayload

IInv == TypeOK /\ PayloadInHand

-----------------------------------------------------------------------------
(* Bytes.                                                                   *)

\* The next k bytes, which have arrived, are bytes.
LEMMA BytesWritten ==
    ASSUME TypeOK, NEW k \in Nat, next + k <= arrived
    PROVE  printed \o [i \in 1 .. k |-> next + i] \in Seq(1 .. MaxBytes)
<1>1. \A i \in 1 .. k : next + i \in 1 .. MaxBytes
  BY WriterAssumption DEF TypeOK
<1>2. [i \in 1 .. k |-> next + i] \in Seq(1 .. MaxBytes)
  BY <1>1
<1>3. printed \in Seq(1 .. MaxBytes)
  BY DEF TypeOK
<1> QED
  BY <1>2, <1>3

\* To write no bytes changes nothing.
LEMMA NothingWritten ==
    ASSUME TypeOK, NEW k, k = 0
    PROVE  printed \o [i \in 1 .. k |-> next + i] = printed
<1>1. [i \in 1 .. 0 |-> next + i] = <<>>
  OBVIOUS
<1>2. printed \in Seq(1 .. MaxBytes)
  BY DEF TypeOK
<1> QED
  BY <1>1, <1>2

\* A chunk is not empty and not longer than what remains.
LEMMA ChunkBounds ==
    ASSUME TypeOK, next < arrived
    PROVE  Chunk \in 1 .. (arrived - next)
BY WriterAssumption DEF TypeOK, Chunk, Smaller

-----------------------------------------------------------------------------
(* Types.                                                                   *)

\* The program begins with its types and no payload in hand.
LEMMA InitialTypes ==
    ASSUME Init
    PROVE  IInv
<1>1. 0 \in 0 .. MaxBytes /\ 0 \in 0 .. 0 /\ <<>> \in Seq(1 .. MaxBytes)
  BY WriterAssumption
<1>2. away \in BOOLEAN /\ device \in BOOLEAN
  BY DEF Init
<1> QED
  BY <1>1, <1>2 DEF Init, IInv, TypeOK, PayloadInHand, Handles

\* Every step keeps the types, and takes payloads that are not too long.
LEMMA NextTypes ==
    ASSUME IInv, [Next]_vars
    PROVE  IInv'
<1> USE WriterAssumption DEF IInv, TypeOK, PayloadInHand, Handles
<1>1. ASSUME NEW n \in 0 .. MaxPayload, on_message(n)
      PROVE  IInv'
  <2>1. /\ n \in Nat /\ arrived' = arrived + n /\ next' = arrived
        /\ arrived' \in 0 .. MaxBytes /\ next' \in 0 .. arrived' /\ PayloadInHand'
    BY <1>1 DEF on_message
  <2>2. CASE handle = "none" /\ ~device
    BY <1>1, <2>1, <2>2 DEF on_message, Fails
  <2>3. CASE ~(handle = "none" /\ ~device)
    BY <1>1, <2>1, <2>3 DEF on_message
  <2> QED
    BY <2>2, <2>3
<1>2. CASE ChunkWritten
  <2>1. Chunk \in 1 .. (arrived - next)
    BY <1>2, ChunkBounds DEF ChunkWritten
  <2>2. printed' \in Seq(1 .. MaxBytes)
    BY <1>2, <2>1, BytesWritten DEF ChunkWritten
  <2> QED
    BY <1>2, <2>1, <2>2 DEF ChunkWritten
<1>3. CASE PayloadWritten
  BY <1>3 DEF PayloadWritten, bytes
<1>4. ASSUME NEW k \in 0 .. write_chunk_size, WriteFails(k)
      PROVE  IInv'
  <2>1. Chunk \in 1 .. (arrived - next) /\ k <= Chunk
    BY <1>4, ChunkBounds DEF WriteFails
  <2>2. printed' \in Seq(1 .. MaxBytes)
    BY <1>4, <2>1, BytesWritten DEF WriteFails
  <2> QED
    BY <1>4, <2>2 DEF WriteFails, Fails
<1>5. ASSUME NEW k \in 0 .. write_chunk_size, ShortWrite(k)
      PROVE  IInv'
  <2>1. Chunk \in 1 .. (arrived - next) /\ k < Chunk
    BY <1>5, ChunkBounds DEF ShortWrite
  <2>2. printed' \in Seq(1 .. MaxBytes)
    BY <1>5, <2>1, BytesWritten DEF ShortWrite
  <2>3. next' \in 0 .. arrived' /\ arrived' \in 0 .. MaxBytes /\ PayloadInHand'
    BY <1>5, <2>1 DEF ShortWrite
  <2> QED
    BY <1>5, <2>2, <2>3 DEF ShortWrite
<1>6. CASE DeviceGoes
  BY <1>6 DEF DeviceGoes, bytes
<1>7. CASE DeviceComes
  BY <1>7 DEF DeviceComes, bytes
<1>8. CASE Restarts
  BY <1>8 DEF Restarts, bytes
<1>9. CASE UNCHANGED vars
  BY <1>9 DEF vars, bytes
<1> QED
  BY <1>1, <1>2, <1>3, <1>4, <1>5, <1>6, <1>7, <1>8, <1>9 DEF Next

\* The types of the Linux client (PrinterWriter, lines 87-137), and that it writes only to
\* a port that was opened, hold for every size of chunks and payloads.
THEOREM TypeCorrect == Spec => []TypeOK
<1>1. IInv => TypeOK
  BY DEF IInv
<1> QED
  BY <1>1, InitialTypes, NextTypes, PTL DEF Spec

-----------------------------------------------------------------------------
(* The port.                                                                *)

\* A port that has failed is closed and not used for the next payload (on_message,
\* lines 165-172).
THEOREM FailedPortIsClosed == Spec => []NoStaleHandle
<1>1. Init => NoStaleHandle
  BY DEF Init, NoStaleHandle
<1>2. NoStaleHandle /\ [Next]_vars => NoStaleHandle'
  BY DEF NoStaleHandle, Next, vars, bytes, on_message, Fails, ChunkWritten,
         PayloadWritten, WriteFails, ShortWrite, DeviceGoes, DeviceComes, Restarts
<1> QED
  BY <1>1, <1>2, PTL DEF Spec

-----------------------------------------------------------------------------
(* The payloads.                                                            *)

\* How much of the stream is done with: once the port is stale, or the loop is left, the
\* rest of the payload is given up.
Done == IF writing /\ handle = "open" THEN next ELSE arrived

\* The next k bytes of the payload in hand are written, and the rest may be given up.
LEMMA WritesAreBridged ==
    ASSUME IInv, writing, handle = "open",
           NEW k \in Nat, next + k <= arrived,
           printed' = printed \o [i \in 1 .. k |-> next + i],
           arrived' = arrived,
           Done' \in {next + k, arrived}
    PROVE  Bridge!NextBytes
<1>1. k \in 0 .. MaxPayload
  BY WriterAssumption DEF IInv, TypeOK, PayloadInHand
<1>2. Done = next
  BY DEF Done
<1>3. Bridge!PrintBytes(k)
  BY <1>2 DEF Bridge!PrintBytes, Done
<1> QED
  BY <1>1, <1>3 DEF Bridge!NextBytes

\* The rest of the payload in hand is given up and nothing is written.
LEMMA GivingUpIsBridged ==
    ASSUME IInv, UNCHANGED <<arrived, printed>>, Done' = arrived
    PROVE  [Bridge!NextBytes]_<<arrived, Done, printed>>
<1>1. CASE Done = arrived
  BY <1>1
<1>2. CASE Done # arrived
  <2>1. writing /\ handle = "open"
    BY <1>2 DEF Done
  <2>2. next + 0 <= arrived
    BY DEF IInv, TypeOK
  <2>3. printed' = printed \o [i \in 1 .. 0 |-> next + i]
    BY NothingWritten DEF IInv
  <2> QED
    BY <2>1, <2>2, <2>3, WritesAreBridged
<1> QED
  BY <1>1, <1>2

\* Every step of the client is a step of the bridge, or none.
LEMMA NextBridges ==
    ASSUME IInv, [Next]_vars
    PROVE  [Bridge!NextBytes]_<<arrived, Done, printed>>
<1> USE DEF Done
<1>1. ASSUME NEW n \in 0 .. MaxPayload, on_message(n)
      PROVE  Bridge!NextBytes
  <2>1. Bridge!Arrive(n)
    BY <1>1 DEF on_message, Fails, Bridge!Arrive
  <2> QED
    BY <1>1, <2>1 DEF Bridge!NextBytes
<1>2. CASE ChunkWritten
  <2>1. Chunk \in Nat /\ next + Chunk <= arrived
    BY <1>2, ChunkBounds DEF ChunkWritten, IInv, TypeOK
  <2> QED
    BY <1>2, <2>1, WritesAreBridged DEF ChunkWritten
<1>3. CASE PayloadWritten
  BY <1>3, GivingUpIsBridged DEF PayloadWritten, bytes
<1>4. ASSUME NEW k \in 0 .. write_chunk_size, WriteFails(k)
      PROVE  [Bridge!NextBytes]_<<arrived, Done, printed>>
  <2>1. writing /\ arrived' = arrived /\ Done' = arrived
    BY <1>4 DEF WriteFails, Fails
  <2>2. CASE k = 0
    <3>1. printed' = printed
      BY <1>4, <2>2, NothingWritten DEF WriteFails, IInv
    <3> QED
      BY <2>1, <3>1, GivingUpIsBridged
  <2>3. CASE handle = "open" /\ k <= Chunk
    <3>1. k \in Nat /\ next + k <= arrived
      BY <1>4, <2>3, ChunkBounds, WriterAssumption DEF WriteFails, IInv, TypeOK
    <3> QED
      BY <1>4, <2>1, <2>3, <3>1, WritesAreBridged DEF WriteFails
  <2> QED
    BY <1>4, <2>2, <2>3 DEF WriteFails
<1>5. ASSUME NEW k \in 0 .. write_chunk_size, ShortWrite(k)
      PROVE  Bridge!NextBytes
  <2>1. k \in Nat /\ next + k <= arrived
    BY <1>5, ChunkBounds, WriterAssumption DEF ShortWrite, IInv, TypeOK
  <2> QED
    BY <1>5, <2>1, WritesAreBridged DEF ShortWrite
<1>6. CASE DeviceGoes
  BY <1>6, GivingUpIsBridged DEF DeviceGoes, bytes
<1>7. CASE DeviceComes
  BY <1>7 DEF DeviceComes, bytes
<1>8. CASE Restarts
  BY <1>8, GivingUpIsBridged DEF Restarts, bytes
<1>9. CASE UNCHANGED vars
  BY <1>9 DEF vars, bytes
<1> QED
  BY <1>1, <1>2, <1>3, <1>4, <1>5, <1>6, <1>7, <1>8, <1>9 DEF Next

\* The Linux client implements PayloadBridge: through failed and short writes, lost devices
\* and restarts, what is printed of a payload is its beginning, in order and each byte once.
THEOREM ImplementsPayloadBridge == Spec => BridgeSpec
<1>1. Init => Bridge!InitBridge
  BY DEF Init, Bridge!InitBridge
<1>2. IInv /\ [Next]_vars => [Bridge!NextBytes]_<<arrived, Done, printed>>
  BY NextBridges
<1> QED
  BY <1>1, <1>2, InitialTypes, NextTypes, PTL
  DEF Spec, BridgeSpec, Bridge!Spec, Bridge!bridge, Done
=============================================================================
