--------------------------- MODULE ArduinoBridge ---------------------------
(***************************************************************************)
(* clients/esp32-arduino/esp32_mqtt_printer.ino and                        *)
(* clients/esp8266-arduino/esp8266_mqtt_serial_printer.ino: the Arduino    *)
(* loop that keeps Wi-Fi, MQTT and, on the ESP32, the Bluetooth printer    *)
(* connected, and the callback that writes a payload to the printer.       *)
(*                                                                         *)
(* One thread; an action is a call of the loop, and in writePrinterBytes   *)
(* a turn of its own loop, because the printer can go away between two     *)
(* writes.  Wi-Fi, broker and printer come and go at any time.  A call     *)
(* that connects succeeds if its other side is there; it may block.  A     *)
(* payload that is published while the client is away does not reach it    *)
(* (PubSubClient asks for a clean session).                                *)
(***************************************************************************)
EXTENDS Integers, Sequences

CONSTANTS
    Period,             \* millis() wraps here, 2^32
    RECONNECT_INTERVAL,
    PRINTER_WRITE_CHUNK_SIZE,
    MaxBlock,           \* bound: how long a call blocks
    MaxPayload,         \* bound: the longest payload
    MaxBytes            \* bound: how many bytes arrive

\* No call blocks until millis() comes round again.
ASSUME ArduinoAssumption ==
    /\ {Period, RECONNECT_INTERVAL, MaxBlock, MaxPayload, MaxBytes} \subseteq Nat
    /\ PRINTER_WRITE_CHUNK_SIZE \in Nat \ {0}
    /\ RECONNECT_INTERVAL + MaxBlock + 1 < Period

VARIABLES
    target,             \* the board
    at,                 \* where the program is
    reach,              \* what can be reached
    mqtt,               \* mqttClient.connected()
    spp,                \* SerialBT.connected()
    printerConnected,
    millis,
    lastReconnect,
    waited,             \* history variable: time since the loop has seen MQTT down
    arrived, next, printed      \* see PayloadBridge

bytes == <<arrived, next, printed>>
times == <<millis, lastReconnect, waited>>
printer == <<spp, printerConnected>>

vars == <<target, at, reach, mqtt, printer, times, bytes>>

Boards == {"esp32", "esp8266"}
Places == {"setup", "wifi", "mqtt", "poll", "callback", "write", "printer"}
Others == {"wifi", "broker", "printer"}

NotSeen == -1           \* the loop has not seen MQTT down since it last tried

Smaller(a, b) == IF a <= b THEN a ELSE b
Larger(a, b) == IF a >= b THEN a ELSE b

\* A call takes d units of time.
Elapse(d) == millis' = (millis + d) % Period

-----------------------------------------------------------------------------
(* Connections.                                                            *)

\* connectMQTT, when the client is not connected; it subscribes as well.
connectMQTT == mqtt' = ({"wifi", "broker"} \subseteq reach)

\* connectPrinter.
connectPrinter ==
    /\ spp' = (spp \/ "printer" \in reach)
    /\ printerConnected' = spp'

\* connectWiFi blocks until there is Wi-Fi.
WiFiWaits ==
    /\ at = "wifi" /\ "wifi" \notin reach
    /\ Elapse(1)
    /\ waited' = NotSeen
    /\ UNCHANGED <<target, at, reach, mqtt, printer, lastReconnect, bytes>>

WiFiThere ==
    /\ at = "wifi" /\ "wifi" \in reach
    /\ at' = "mqtt"
    /\ UNCHANGED <<target, reach, mqtt, printer, times, bytes>>

\* The ESP32 connects to everything before its loop begins, which takes any time, and
\* the ESP8266 to nothing.
Setup ==
    /\ at = "setup"
    /\ at' = "wifi"
    /\ IF target = "esp32"
       THEN "wifi" \in reach /\ connectMQTT /\ connectPrinter
       ELSE UNCHANGED <<mqtt, printer>>
    /\ millis' \in 0 .. Period - 1
    /\ UNCHANGED <<target, reach, lastReconnect, waited, bytes>>

\* Mutant: the times are compared as a sum, which does not survive the wrap.
DueAfterSum == millis > lastReconnect + RECONNECT_INTERVAL

\* The difference of two unsigned numbers.
Due == (millis - lastReconnect) % Period > RECONNECT_INTERVAL

\* lastReconnect is the time at which an attempt begins.
MqttChecked ==
    /\ at = "mqtt"
    /\ at' = "poll"
    /\ IF ~mqtt /\ Due
       THEN /\ lastReconnect' = millis
            /\ connectMQTT
            /\ \E d \in 0 .. MaxBlock : Elapse(d)
            /\ waited' = NotSeen
       ELSE /\ waited' = IF mqtt THEN NotSeen ELSE Larger(waited, 0)
            /\ UNCHANGED <<mqtt, millis, lastReconnect>>
    /\ UNCHANGED <<target, reach, printer, bytes>>

\* Mutant: the loop looks at its flag alone.
PrinterCheckedByFlag ==
    /\ at = "printer"
    /\ at' = "wifi"
    /\ IF target = "esp32" /\ ~printerConnected
       THEN connectPrinter
       ELSE UNCHANGED printer
    /\ \E d \in 0 .. MaxBlock :
          /\ Elapse(d + 1)
          /\ waited' = IF waited = NotSeen THEN NotSeen ELSE waited + d + 1
    /\ UNCHANGED <<target, reach, mqtt, lastReconnect, bytes>>

\* The end of the loop: the printer is looked after, and delay(10).  The time includes
\* what the callback took.
PrinterChecked ==
    /\ at = "printer"
    /\ at' = "wifi"
    /\ IF target = "esp32" /\ (~printerConnected \/ ~spp)
       THEN connectPrinter
       ELSE UNCHANGED printer
    /\ \E d \in 0 .. MaxBlock :
          /\ Elapse(d + 1)
          /\ waited' = IF waited = NotSeen THEN NotSeen ELSE waited + d + 1
    /\ UNCHANGED <<target, reach, mqtt, lastReconnect, bytes>>

-----------------------------------------------------------------------------
(* Payloads.                                                               *)

\* mqttClient.loop() finds nothing.
NothingArrives ==
    /\ at = "poll"
    /\ at' = "printer"
    /\ UNCHANGED <<target, reach, mqtt, printer, times, bytes>>

\* It finds a payload and calls mqttCallback.  The ESP8266 writes all of it to the
\* serial line there.
PayloadArrives(n) ==
    /\ at = "poll" /\ mqtt
    /\ arrived + n <= MaxBytes
    /\ arrived' = arrived + n
    /\ next' = arrived
    /\ at' = "callback"
    /\ UNCHANGED <<target, reach, mqtt, printer, times, printed>>

SerialWrite ==
    /\ at = "callback" /\ target = "esp8266"
    /\ at' = "printer"
    /\ printed' = printed \o [i \in 1 .. arrived - next |-> next + i]
    /\ next' = arrived
    /\ UNCHANGED <<target, reach, mqtt, printer, times, arrived>>

\* The ESP32 connects the printer if need be, and drops the payload if it cannot.
mqttCallback ==
    /\ at = "callback" /\ target = "esp32"
    /\ connectPrinter
    /\ at' = IF printerConnected' THEN "write" ELSE "printer"
    /\ UNCHANGED <<target, reach, mqtt, times, bytes>>

\* The turns of writePrinterBytes: the payload is written, the printer is gone, or the
\* call takes nothing.
Written ==
    /\ next = arrived
    /\ at' = "printer"
    /\ UNCHANGED <<printer, bytes>>

PrinterGone ==
    /\ next < arrived /\ ~spp
    /\ at' = "printer"
    /\ printerConnected' = FALSE
    /\ UNCHANGED <<spp, bytes>>

Stalled ==
    /\ next < arrived /\ spp
    /\ at' = "printer"
    /\ UNCHANGED <<printer, bytes>>

\* Mutant: the chunk is not cut to what remains of the payload.
TakenPastTheEnd(k) ==
    /\ next < arrived /\ spp
    /\ printed' = printed \o [i \in 1 .. k |-> next + i]
    /\ next' = next + k
    /\ UNCHANGED <<at, printer, arrived>>

\* Mutant: what was not taken by the first write is forgotten.
TakenOnce(k) ==
    /\ next < arrived /\ spp
    /\ k <= Smaller(arrived - next, PRINTER_WRITE_CHUNK_SIZE)
    /\ printed' = printed \o [i \in 1 .. k |-> next + i]
    /\ next' = next + k
    /\ at' = "printer"
    /\ UNCHANGED <<printer, arrived>>

\* Mutant: the offset moves on by the chunk, not by what was taken of it.
TakenChunk(k) ==
    /\ next < arrived /\ spp
    /\ k <= Smaller(arrived - next, PRINTER_WRITE_CHUNK_SIZE)
    /\ printed' = printed \o [i \in 1 .. k |-> next + i]
    /\ next' = next + Smaller(arrived - next, PRINTER_WRITE_CHUNK_SIZE)
    /\ UNCHANGED <<at, printer, arrived>>

\* The call takes some bytes of the next chunk; the offset moves on by these.
Taken(k) ==
    /\ next < arrived /\ spp
    /\ k <= Smaller(arrived - next, PRINTER_WRITE_CHUNK_SIZE)
    /\ printed' = printed \o [i \in 1 .. k |-> next + i]
    /\ next' = next + k
    /\ UNCHANGED <<at, printer, arrived>>

writePrinterBytes ==
    /\ at = "write"
    /\ \/ Written
       \/ PrinterGone
       \/ Stalled
       \/ \E k \in 1 .. PRINTER_WRITE_CHUNK_SIZE : Taken(k)
    /\ UNCHANGED <<target, reach, mqtt, times>>

-----------------------------------------------------------------------------
(* The others.                                                             *)

Comes(other) ==
    /\ other \notin reach
    /\ reach' = reach \cup {other}
    /\ UNCHANGED <<target, at, mqtt, printer, times, bytes>>

Goes(other) ==
    /\ reach' = reach \ {other}
    /\ other \in reach
    /\ UNCHANGED <<target, at, mqtt, printer, times, bytes>>

\* A connection ends some time after its other side has gone.
MqttDrops ==
    /\ mqtt /\ ~({"wifi", "broker"} \subseteq reach)
    /\ mqtt' = FALSE
    /\ UNCHANGED <<target, at, reach, printer, times, bytes>>

PrinterDrops ==
    /\ spp /\ "printer" \notin reach
    /\ spp' = FALSE
    /\ UNCHANGED <<target, at, reach, mqtt, printerConnected, times, bytes>>

Init ==
    /\ target \in Boards
    /\ at = "setup"
    /\ reach \in SUBSET Others
    /\ mqtt = FALSE
    /\ spp = FALSE
    /\ printerConnected = FALSE
    /\ millis = 0
    /\ lastReconnect = 0
    /\ waited = NotSeen
    /\ arrived = 0
    /\ next = 0
    /\ printed = <<>>

Program ==
    \/ Setup
    \/ WiFiWaits
    \/ WiFiThere
    \/ MqttChecked
    \/ NothingArrives
    \/ \E n \in 0 .. MaxPayload : PayloadArrives(n)
    \/ SerialWrite
    \/ mqttCallback
    \/ writePrinterBytes
    \/ PrinterChecked

Environment ==
    \/ \E other \in Others : Comes(other) \/ Goes(other)
    \/ MqttDrops
    \/ PrinterDrops

Next == Program \/ Environment

Spec == Init /\ [][Next]_vars

\* The program runs, except where it waits for Wi-Fi that is not there.
FairSpec == Spec /\ WF_vars(Program)

-----------------------------------------------------------------------------
(* Properties.                                                             *)

TypeOK ==
    /\ target \in Boards
    /\ at \in Places
    /\ reach \subseteq Others
    /\ {mqtt, spp, printerConnected} \subseteq BOOLEAN
    /\ {millis, lastReconnect} \subseteq 0 .. Period - 1
    /\ waited \in {NotSeen} \cup Nat
    /\ next \in 0 .. arrived
    /\ arrived \in 0 .. MaxBytes
    /\ printed \in Seq(1 .. MaxBytes)

\* While there is Wi-Fi the loop never goes on for longer than the interval without
\* MQTT and without an attempt, also when millis() wraps in between (line 237).
TriedInTime == at = "poll" => waited <= RECONNECT_INTERVAL

\* A payload is cut only because the printer is away or takes nothing more, and never
\* for the short writes in between (lines 160-183).
CutForAReason ==
    [][/\ at \in {"callback", "write"} /\ at' = "printer"
       /\ next' < arrived'
       => ~spp' \/ (at = "write" /\ Stalled)]_vars

\* Payloads are printed as PayloadBridge says.
Bridge == INSTANCE PayloadBridge

BridgeSpec == Bridge!Spec

\* When everything can be reached from some time on the client is connected to all of
\* it from some time on, whatever has been lost before.
AllComesBack ==
    <>[](reach = Others) => <>[](mqtt /\ (target = "esp32" => spp /\ printerConnected))
=============================================================================
