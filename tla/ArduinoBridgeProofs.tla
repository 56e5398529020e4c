------------------------- MODULE ArduinoBridgeProofs -------------------------
(* Proofs about ArduinoBridge, for every period of millis(), every interval, *)
(* chunk size and bound.                                                     *)
EXTENDS ArduinoBridge, CommonLemmas, TLAPS

LEMMA ConstantsAreNumbers ==
    /\ Period \in Nat \ {0} /\ RECONNECT_INTERVAL \in Nat /\ MaxBlock \in Nat
    /\ MaxPayload \in Nat /\ MaxBytes \in Nat /\ PRINTER_WRITE_CHUNK_SIZE \in Nat \ {0}
    /\ RECONNECT_INTERVAL + MaxBlock + 1 < Period
<1>1. /\ Period \in Nat /\ RECONNECT_INTERVAL \in Nat /\ MaxBlock \in Nat
      /\ MaxPayload \in Nat /\ MaxBytes \in Nat
  BY ArduinoAssumption
<1> QED
  BY <1>1, ArduinoAssumption

\* What is computed with unsigned numbers.
LEMMA ModPeriod ==
    \A a \in Int : /\ a % Period \in 0 .. Period - 1
                   /\ a \in 0 .. Period - 1 => a % Period = a
                   /\ a - Period \in 0 .. Period - 1 => a % Period = a - Period
                   /\ a + Period \in 0 .. Period - 1 => a % Period = a + Period
BY ConstantsAreNumbers, Remainder

-----------------------------------------------------------------------------
(* Types.                                                                   *)

\* Time stays within one period.
LEMMA ElapseType ==
    ASSUME millis \in 0 .. Period - 1, NEW d \in Nat, Elapse(d)
    PROVE  millis' \in 0 .. Period - 1
<1>1. millis + d \in Int
  BY ConstantsAreNumbers
<1> QED
  BY <1>1, ModPeriod DEF Elapse

\* The next k bytes of what has arrived can be printed.
LEMMA PrintedType ==
    ASSUME TypeOK, NEW k \in Nat, k <= arrived - next
    PROVE  printed \o [i \in 1 .. k |-> next + i] \in Seq(1 .. MaxBytes)
<1>1. next \in Nat /\ arrived \in Nat /\ next + k <= arrived /\ arrived <= MaxBytes
  BY ConstantsAreNumbers DEF TypeOK
<1>2. \A i \in 1 .. k : next + i \in 1 .. MaxBytes
  BY <1>1, ConstantsAreNumbers
<1>3. [i \in 1 .. k |-> next + i] \in Seq(1 .. MaxBytes)
  BY <1>2
<1> QED
  BY <1>3 DEF TypeOK

\* A turn of the printing loop keeps the types.
LEMMA WriteTypeOK ==
    ASSUME TypeOK, writePrinterBytes
    PROVE  TypeOK'
<1> USE DEF TypeOK
<1>1. CASE Written \/ PrinterGone \/ Stalled
  BY <1>1 DEF writePrinterBytes, Written, PrinterGone, Stalled, printer, bytes, times, Places
<1>2. ASSUME NEW k \in 1 .. PRINTER_WRITE_CHUNK_SIZE, Taken(k)
      PROVE  TypeOK'
  <2>1. /\ k \in Nat /\ k <= arrived - next
        /\ next \in Nat /\ arrived \in Nat /\ arrived <= MaxBytes
    BY <1>2, ConstantsAreNumbers DEF Taken, Smaller
  <2>2. printed' \in Seq(1 .. MaxBytes)
    BY <1>2, <2>1, PrintedType DEF Taken
  <2>3. next' \in 0 .. arrived /\ arrived' = arrived
    BY <1>2, <2>1 DEF Taken
  <2> QED
    BY <1>2, <2>2, <2>3 DEF writePrinterBytes, Taken, printer, times
<1> QED
  BY <1>1, <1>2 DEF writePrinterBytes

\* Every step keeps the types.
LEMMA NextTypeOK ==
    ASSUME TypeOK, [Next]_vars
    PROVE  TypeOK'
<1> USE DEF TypeOK, printer, times, bytes, Places
<1>1. CASE Setup
  BY <1>1 DEF Setup, connectMQTT, connectPrinter
<1>2. CASE WiFiWaits
  <2>1. millis' \in 0 .. Period - 1
    BY <1>2, ElapseType DEF WiFiWaits
  <2> QED
    BY <1>2, <2>1 DEF WiFiWaits
<1>3. CASE WiFiThere
  BY <1>3 DEF WiFiThere
<1>4. CASE MqttChecked
  <2>1. millis' \in 0 .. Period - 1
    <3>1. \A d \in 0 .. MaxBlock : d \in Nat
      OBVIOUS
    <3> QED
      BY <1>4, <3>1, ElapseType DEF MqttChecked
  <2>2. /\ at' = "poll" /\ mqtt' \in BOOLEAN
        /\ lastReconnect' \in 0 .. Period - 1
        /\ UNCHANGED <<target, reach, printer, bytes>>
    BY <1>4 DEF MqttChecked, connectMQTT
  <2>3. waited' \in {NotSeen} \cup Nat
    BY <1>4 DEF MqttChecked, Larger, NotSeen
  <2> QED
    BY <2>1, <2>2, <2>3
<1>5. CASE PrinterChecked
  <2>1. PICK d \in 0 .. MaxBlock :
            /\ Elapse(d + 1)
            /\ waited' = IF waited = NotSeen THEN NotSeen ELSE waited + d + 1
    BY <1>5 DEF PrinterChecked
  <2>2. d + 1 \in Nat /\ d \in Nat
    OBVIOUS
  <2>3. millis' \in 0 .. Period - 1
    BY <2>1, <2>2, ElapseType
  <2>4. waited' \in {NotSeen} \cup Nat
    BY <2>1, <2>2 DEF NotSeen
  <2>5. /\ at' = "wifi" /\ {spp', printerConnected'} \subseteq BOOLEAN
        /\ UNCHANGED <<target, reach, mqtt, lastReconnect, bytes>>
    BY <1>5 DEF PrinterChecked, connectPrinter
  <2> QED
    BY <2>3, <2>4, <2>5
<1>6. CASE NothingArrives
  BY <1>6 DEF NothingArrives
<1>7. ASSUME NEW n \in 0 .. MaxPayload, PayloadArrives(n)
      PROVE  TypeOK'
  <2>1. next' \in 0 .. arrived' /\ arrived' \in 0 .. MaxBytes
    BY <1>7, ConstantsAreNumbers DEF PayloadArrives
  <2> QED
    BY <1>7, <2>1 DEF PayloadArrives
<1>8. CASE SerialWrite
  <2>1. /\ arrived - next \in Nat /\ next' = arrived /\ arrived' = arrived
        /\ arrived \in 0 .. arrived
    BY <1>8, ConstantsAreNumbers DEF SerialWrite
  <2>2. printed' \in Seq(1 .. MaxBytes)
    <3>1. arrived - next <= arrived - next
      BY <2>1
    <3>2. printed \o [i \in 1 .. arrived - next |-> next + i] \in Seq(1 .. MaxBytes)
      BY <2>1, <3>1, PrintedType
    <3> QED
      BY <1>8, <3>2 DEF SerialWrite
  <2> QED
    BY <1>8, <2>1, <2>2 DEF SerialWrite
<1>9. CASE mqttCallback
  BY <1>9 DEF mqttCallback, connectPrinter
<1>10. CASE writePrinterBytes
  BY <1>10, WriteTypeOK
<1>11. CASE Environment
  BY <1>11 DEF Environment, Comes, Goes, MqttDrops, PrinterDrops, Others
<1>12. CASE UNCHANGED vars
  BY <1>12 DEF vars
<1> QED
  BY <1>1, <1>2, <1>3, <1>4, <1>5, <1>6, <1>7, <1>8, <1>9, <1>10, <1>11, <1>12
  DEF Next, Program

\* The variables have their types at first.
LEMMA InitTypeOK ==
    ASSUME Init
    PROVE  TypeOK
<1>1. 0 \in 0 .. Period - 1 /\ 0 \in 0 .. MaxBytes /\ 0 \in 0 .. 0
  BY ConstantsAreNumbers
<1>2. printed \in Seq(1 .. MaxBytes)
  BY DEF Init
<1> QED
  BY <1>1, <1>2 DEF Init, TypeOK, Places, NotSeen

\* The variables always have their types.
THEOREM TypeCorrect == Spec => []TypeOK
BY InitTypeOK, NextTypeOK, PTL DEF Spec

-----------------------------------------------------------------------------
(* The reconnection interval.                                               *)

\* The time since the last attempt as the program computes it, from unsigned numbers.
Age == (millis - lastReconnect) % Period

\* Where the loop is between its check of MQTT and the end of its turn.
Checked == {"poll", "callback", "write", "printer"}

\* The loop has not seen MQTT down for longer than the program's own clock says, and in
\* the rest of a turn that saw it the clock has not gone past the interval; so it does
\* not wrap unseen before the next check.
AgeCovers ==
    /\ at = "setup" => waited = NotSeen
    /\ waited # NotSeen =>
          /\ waited <= Age
          /\ at \in Checked => Age <= RECONNECT_INTERVAL

\* The age is a number within one period.
LEMMA AgeType ==
    ASSUME TypeOK
    PROVE  Age \in 0 .. Period - 1 /\ Age \in Nat
<1>1. millis - lastReconnect \in Int
  BY ConstantsAreNumbers DEF TypeOK
<1>2. Age \in 0 .. Period - 1
  BY <1>1, ModPeriod DEF Age
<1> QED
  BY <1>2, ConstantsAreNumbers

\* Time that passes makes the age greater, as long as it does not reach the period.
LEMMA AgeGrows ==
    ASSUME TypeOK, NEW d \in Nat, Elapse(d), Age + d < Period,
           lastReconnect' = lastReconnect
    PROVE  Age' = Age + d
<1> DEFINE m == millis
           l == lastReconnect
           n == (m + d) % Period
<1>1. Period \in Nat \ {0} /\ m \in 0 .. Period - 1 /\ l \in 0 .. Period - 1
  BY ConstantsAreNumbers DEF TypeOK
<1>2. /\ Age \in 0 .. Period - 1
      /\ m >= l => Age = m - l
      /\ m < l => Age = m - l + Period
  <2>1. m >= l => m - l \in 0 .. Period - 1
    BY <1>1
  <2>2. m < l => m - l + Period \in 0 .. Period - 1
    BY <1>1
  <2>3. m - l \in Int
    BY <1>1
  <2> QED
    BY <2>1, <2>2, <2>3, ModPeriod DEF Age
<1>3. d < Period
  BY <1>1, <1>2
<1>4. /\ n \in 0 .. Period - 1
      /\ m + d < Period => n = m + d
      /\ m + d >= Period => n = m + d - Period
  <2>1. m + d < Period => m + d \in 0 .. Period - 1
    BY <1>1
  <2>2. m + d >= Period => m + d - Period \in 0 .. Period - 1
    BY <1>1, <1>3
  <2>3. PICK sum \in Int : sum = m + d
    BY <1>1
  <2>4. n = sum % Period
    BY <2>3
  <2> HIDE DEF n, m
  <2>5. /\ n \in 0 .. Period - 1
        /\ sum \in 0 .. Period - 1 => n = sum
        /\ sum - Period \in 0 .. Period - 1 => n = sum - Period
    BY <2>4, ModPeriod
  <2> QED
    BY <1>1, <2>1, <2>2, <2>3, <2>5
<1>5. Age' = (n - l) % Period
  BY DEF Age, Elapse
<1> HIDE DEF n
<1>6. n - l = Age + d \/ n - l + Period = Age + d
  BY <1>1, <1>2, <1>4
<1>7. Age + d \in 0 .. Period - 1
  BY <1>1, <1>2
<1>8. n - l \in Int
  BY <1>1, <1>4
<1>9. (n - l) % Period = Age + d
  <2>1. CASE n - l = Age + d
    BY <1>7, <1>8, <2>1, ModPeriod
  <2>2. CASE n - l + Period = Age + d
    BY <1>7, <1>8, <2>2, ModPeriod
  <2> QED
    BY <1>6, <2>1, <2>2
<1> QED
  BY <1>5, <1>9

\* Every step keeps AgeCovers.
LEMMA NextAgeCovers ==
    ASSUME TypeOK, AgeCovers, [Next]_vars
    PROVE  AgeCovers'
<1> USE DEF AgeCovers, Checked
<1>1. CASE Setup
  BY <1>1 DEF Setup
<1>2. CASE WiFiWaits
  BY <1>2 DEF WiFiWaits
<1>3. CASE WiFiThere
  BY <1>3 DEF WiFiThere, times, Age
<1>4. CASE MqttChecked
  <2>1. CASE ~mqtt /\ Due
    BY <1>4, <2>1 DEF MqttChecked
  <2>2. CASE mqtt
    BY <1>4, <2>2 DEF MqttChecked
  <2>3. CASE ~mqtt /\ ~Due
    <3>1. Age' = Age /\ waited' = Larger(waited, 0)
      BY <1>4, <2>3 DEF MqttChecked, Age
    <3>2. Age \in Nat /\ Age <= RECONNECT_INTERVAL
      <4>1. Age \in 0 .. Period - 1
        BY AgeType
      <4> QED
        BY <2>3, <4>1, ConstantsAreNumbers DEF Due, Age
    <3>3. waited' <= Age
      BY <3>1, <3>2 DEF TypeOK, Larger, NotSeen
    <3> QED
      BY <1>4, <3>1, <3>2, <3>3 DEF MqttChecked
  <2> QED
    BY <2>1, <2>2, <2>3
<1>5. CASE PrinterChecked
  <2>1. PICK d \in 0 .. MaxBlock :
            /\ Elapse(d + 1)
            /\ waited' = IF waited = NotSeen THEN NotSeen ELSE waited + d + 1
    BY <1>5 DEF PrinterChecked
  <2>2. at = "printer" /\ at' = "wifi" /\ lastReconnect' = lastReconnect
    BY <1>5 DEF PrinterChecked
  <2>3. CASE waited = NotSeen
    BY <2>1, <2>2, <2>3
  <2>4. CASE waited # NotSeen
    <3>1. /\ Age \in 0 .. Period - 1 /\ waited \in Nat
          /\ waited <= Age /\ Age <= RECONNECT_INTERVAL
      BY <2>2, <2>4, AgeType DEF TypeOK
    <3>2. d + 1 \in Nat /\ Age + (d + 1) < Period /\ d \in Nat
      BY <3>1, ConstantsAreNumbers
    <3>3. Age' = Age + (d + 1)
      BY <2>1, <2>2, <3>2, AgeGrows
    <3>4. waited' <= Age'
      BY <2>1, <2>4, <3>1, <3>2, <3>3
    <3> QED
      BY <2>2, <3>4
  <2> QED
    BY <2>3, <2>4
<1>6. CASE NothingArrives \/ SerialWrite \/ mqttCallback
  BY <1>6 DEF NothingArrives, SerialWrite, mqttCallback, times, Age
<1>7. ASSUME NEW n \in 0 .. MaxPayload, PayloadArrives(n)
      PROVE  AgeCovers'
  BY <1>7 DEF PayloadArrives, times, Age
<1>8. CASE writePrinterBytes
  BY <1>8 DEF writePrinterBytes, Written, PrinterGone, Stalled, Taken, times, Age
<1>9. CASE Environment
  BY <1>9 DEF Environment, Comes, Goes, MqttDrops, PrinterDrops, times, Age
<1>10. CASE UNCHANGED vars
  BY <1>10 DEF vars, times, Age
<1> QED
  BY <1>1, <1>2, <1>3, <1>4, <1>5, <1>6, <1>7, <1>8, <1>9, <1>10 DEF Next, Program

\* While there is Wi-Fi the loop never goes on for longer than the interval without MQTT
\* and without an attempt, however often millis() wraps.
THEOREM ReconnectsInTime == Spec => []TriedInTime
<1>1. Init => TypeOK /\ AgeCovers
  BY InitTypeOK DEF Init, AgeCovers, Checked
<1>2. TypeOK /\ AgeCovers /\ [Next]_vars => TypeOK' /\ AgeCovers'
  BY NextTypeOK, NextAgeCovers
<1>3. TypeOK /\ AgeCovers => TriedInTime
  <2> SUFFICES ASSUME TypeOK, AgeCovers, at = "poll"
               PROVE  waited <= RECONNECT_INTERVAL
    BY DEF TriedInTime
  <2>1. Age \in Nat
    BY AgeType
  <2> QED
    BY <2>1, ConstantsAreNumbers DEF TypeOK, AgeCovers, Checked, NotSeen
<1> QED
  BY <1>1, <1>2, <1>3, PTL DEF Spec

-----------------------------------------------------------------------------
(* Payloads.                                                                *)

\* A payload is cut only because the printer is away or takes nothing more.
THEOREM PayloadsCutForAReason == Spec => CutForAReason
<1> DEFINE Cut == /\ at \in {"callback", "write"} /\ at' = "printer"
                  /\ next' < arrived'
           Reason == ~spp' \/ (at = "write" /\ Stalled)
<1>1. ASSUME TypeOK, TypeOK', [Next]_vars, ~UNCHANGED vars, Cut
      PROVE  Reason
  <2>1. arrived \in Nat
    BY <1>1, ConstantsAreNumbers DEF TypeOK
  <2>2. ~SerialWrite /\ ~Written
    BY <1>1, <2>1 DEF SerialWrite, Written, bytes
  <2>3. CASE mqttCallback
    BY <1>1, <2>3 DEF mqttCallback, connectPrinter
  <2>4. CASE writePrinterBytes
    <3>1. CASE PrinterGone
      BY <3>1 DEF PrinterGone
    <3>2. CASE Stalled
      BY <2>4, <3>2 DEF writePrinterBytes
    <3>3. ASSUME NEW k \in 1 .. PRINTER_WRITE_CHUNK_SIZE, Taken(k)
          PROVE  FALSE
      BY <1>1, <2>4, <3>3 DEF Taken, writePrinterBytes
    <3> QED
      BY <2>2, <2>4, <3>1, <3>2, <3>3 DEF writePrinterBytes
  <2>5. ~Environment
    BY <1>1 DEF Environment, Comes, Goes, MqttDrops, PrinterDrops
  <2>6. /\ ~Setup /\ ~WiFiWaits /\ ~WiFiThere /\ ~MqttChecked /\ ~NothingArrives
        /\ ~PrinterChecked
    BY <1>1 DEF Setup, WiFiWaits, WiFiThere, MqttChecked, NothingArrives, PrinterChecked
  <2>7. ASSUME NEW n \in 0 .. MaxPayload
        PROVE  ~PayloadArrives(n)
    BY <1>1 DEF PayloadArrives
  <2> QED
    BY <1>1, <2>2, <2>3, <2>4, <2>5, <2>6, <2>7 DEF Next, Program
<1>2. TypeOK /\ TypeOK' /\ [Next]_vars => [Cut => Reason]_vars
  BY <1>1
<1> HIDE DEF Cut, Reason
<1>3. Spec => [][Cut => Reason]_vars
  BY <1>2, TypeCorrect, PTL DEF Spec
<1> QED
  BY <1>3 DEF CutForAReason, Cut, Reason

\* What is still to be written is part of one payload.
OnePayload == at \in {"callback", "write"} => arrived - next <= MaxPayload

\* Every step keeps that.
LEMMA NextOnePayload ==
    ASSUME TypeOK, OnePayload, [Next]_vars
    PROVE  OnePayload'
<1> USE DEF OnePayload
<1>1. CASE \/ Setup \/ WiFiWaits \/ WiFiThere \/ MqttChecked \/ NothingArrives
           \/ SerialWrite \/ PrinterChecked
  BY <1>1
  DEF Setup, WiFiWaits, WiFiThere, MqttChecked, NothingArrives, SerialWrite, PrinterChecked
<1>2. ASSUME NEW n \in 0 .. MaxPayload, PayloadArrives(n)
      PROVE  OnePayload'
  BY <1>2, ConstantsAreNumbers DEF PayloadArrives, TypeOK
<1>3. CASE mqttCallback
  BY <1>3 DEF mqttCallback, bytes
<1>4. CASE writePrinterBytes
  <2>1. CASE Written \/ PrinterGone \/ Stalled
    BY <2>1 DEF Written, PrinterGone, Stalled
  <2>2. ASSUME NEW k \in 1 .. PRINTER_WRITE_CHUNK_SIZE, Taken(k)
        PROVE  OnePayload'
    BY <1>4, <2>2, ConstantsAreNumbers DEF Taken, TypeOK, writePrinterBytes
  <2> QED
    BY <1>4, <2>1, <2>2 DEF writePrinterBytes
<1>5. CASE Environment
  BY <1>5 DEF Environment, Comes, Goes, MqttDrops, PrinterDrops, bytes
<1>6. CASE UNCHANGED vars
  BY <1>6 DEF vars, bytes
<1> QED
  BY <1>1, <1>2, <1>3, <1>4, <1>5, <1>6 DEF Next, Program

\* Each step prints the next bytes of the payload, takes a new one, or does not show.
LEMMA NextBridge ==
    ASSUME TypeOK, OnePayload, [Next]_vars
    PROVE  [Bridge!NextBytes]_(Bridge!bridge)
<1> USE DEF Bridge!bridge, Bridge!NextBytes
<1>1. ASSUME NEW n \in 0 .. MaxPayload, PayloadArrives(n)
      PROVE  Bridge!Arrive(n)
  BY <1>1 DEF PayloadArrives, Bridge!Arrive
<1>2. ASSUME NEW k \in Nat, k <= arrived - next, at \in {"callback", "write"},
             printed' = printed \o [i \in 1 .. k |-> next + i],
             next' \in {next + k, arrived}, arrived' = arrived
      PROVE  k \in 0 .. MaxPayload /\ Bridge!PrintBytes(k)
  <2>1. k <= MaxPayload /\ next + k <= arrived
    BY <1>2, ConstantsAreNumbers DEF TypeOK, OnePayload
  <2> QED
    BY <1>2, <2>1, ConstantsAreNumbers DEF Bridge!PrintBytes
<1>3. CASE SerialWrite
  <2>1. arrived - next \in Nat
    BY ConstantsAreNumbers DEF TypeOK
  <2>2. arrived - next \in 0 .. MaxPayload /\ Bridge!PrintBytes(arrived - next)
    BY <1>2, <1>3, <2>1 DEF SerialWrite
  <2> QED
    BY <2>2
<1>4. CASE writePrinterBytes
  <2>1. CASE Written \/ PrinterGone \/ Stalled
    BY <2>1 DEF Written, PrinterGone, Stalled, bytes
  <2>2. ASSUME NEW k \in 1 .. PRINTER_WRITE_CHUNK_SIZE, Taken(k)
        PROVE  k \in 0 .. MaxPayload /\ Bridge!PrintBytes(k)
    <3>1. k \in Nat /\ k <= arrived - next
      BY <2>2, ConstantsAreNumbers DEF Taken, Smaller, TypeOK
    <3> QED
      BY <1>2, <1>4, <2>2, <3>1 DEF Taken, writePrinterBytes
  <2> QED
    BY <1>4, <2>1, <2>2 DEF writePrinterBytes
<1>5. CASE \/ Setup \/ WiFiWaits \/ WiFiThere \/ MqttChecked \/ NothingArrives
           \/ mqttCallback \/ PrinterChecked
  BY <1>5
  DEF Setup, WiFiWaits, WiFiThere, MqttChecked, NothingArrives, mqttCallback,
      PrinterChecked, bytes
<1>6. CASE Environment
  BY <1>6 DEF Environment, Comes, Goes, MqttDrops, PrinterDrops, bytes
<1>7. CASE UNCHANGED vars
  BY <1>7 DEF vars, bytes
<1> QED
  BY <1>1, <1>3, <1>4, <1>5, <1>6, <1>7 DEF Next, Program

\* The bytes of a payload are printed in order, each once and without a gap; only the
\* end of a payload can be missing.
THEOREM ImplementsBridge == Spec => BridgeSpec
<1>1. Init => TypeOK /\ OnePayload /\ Bridge!InitBridge
  BY InitTypeOK DEF Init, OnePayload, Bridge!InitBridge
<1>2. TypeOK /\ OnePayload /\ [Next]_vars => TypeOK' /\ OnePayload'
  BY NextTypeOK, NextOnePayload
<1>3. TypeOK /\ OnePayload /\ [Next]_vars => [Bridge!NextBytes]_(Bridge!bridge)
  BY NextBridge
<1> QED
  BY <1>1, <1>2, <1>3, PTL DEF Spec, BridgeSpec, Bridge!Spec
=============================================================================
