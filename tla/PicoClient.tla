----------------------------- MODULE PicoClient -----------------------------
(***************************************************************************)
(* printeasy_pico.c as one program: the main loop keeps the MQTT           *)
(* connection (PicoMqtt) and flushes the printer buffer (PicoUsb) in turn, *)
(* data arrives while there is a subscription, and time passes while the   *)
(* main loop sleeps (lines 281-311, 314-395, 434-463).                     *)
(*                                                                         *)
(* In the Bluetooth build the buffer has no part in the main loop and is   *)
(* left alone here; PicoBluetooth has it.                                  *)
(***************************************************************************)
EXTENDS PicoUsb

CONSTANTS Delay, Poll   \* of PicoMqtt

ASSUME TimesAssumption == {Delay, Poll} \subseteq Nat \ {0}

VARIABLES
    build, phase, client, connected_once, subscription, wait, retrying, untried,
    brokerUp,           \* of PicoMqtt
    turn                \* the main loop is at flush_usb_buffer in this turn

Mqtt == INSTANCE PicoMqtt

mqttVars == <<build, phase, client, connected_once, subscription, wait, retrying, untried,
              brokerUp>>

allVars == <<vars, mqttVars, turn>>

-----------------------------------------------------------------------------
(* The main loop.                                                           *)

\* Mutant: the buffer is flushed only while there is a connection.
FlushFollowsConnected == turn' = (~retrying' /\ client' = "connected")

\* The check is followed by the flush, unless it leads to the sleep first.
FlushFollows == turn' = ~retrying'

Checks == Mqtt!LoopChecks /\ FlushFollows /\ UNCHANGED vars

Restarts == Mqtt!LoopRestarts /\ FlushFollows /\ UNCHANGED vars

\* flush_usb_buffer goes on until the buffer is empty, there is no host, or fwrite takes
\* nothing.
Flushes ==
    /\ turn
    /\ ReadPosition \/ ReadLength \/ Fwrite \/ Consume \/ Store
    /\ turn' = ~(pc \in {"reading", "writing"} /\ pc' = "sleeping")
    /\ UNCHANGED mqttVars

\* sleep_ms, which the main loop comes to when the flush is over.
Sleeps ==
    /\ pc = "sleeping" /\ (turn => printer_used = 0)
    /\ Mqtt!Tick
    /\ turn' = FALSE
    /\ UNCHANGED vars

-----------------------------------------------------------------------------
(* Callbacks and the outside.                                               *)

\* Data comes with a subscription only.  As in QuietSpec it does not come in the middle
\* of the main loop's flush.
Arrives ==
    /\ build # "bluetooth" /\ subscription = "granted" /\ pc = "sleeping"
    /\ mqtt_incoming_data_cb
    /\ UNCHANGED <<mqttVars, turn>>

\* Steps of the MQTT connection that leave the main loop alone.
Connection(step) == step /\ UNCHANGED <<vars, turn>>

ClientInit == Init /\ Mqtt!Init /\ turn = FALSE

ClientNext ==
    \/ Checks
    \/ Restarts
    \/ Flushes
    \/ Sleeps
    \/ Arrives
    \/ Connection(Mqtt!Panic)
    \/ Connection(Mqtt!WifiConnects)
    \/ Connection(Mqtt!resolve_mqtt)
    \/ Connection(Mqtt!dns_found_cb)
    \/ Connection(Mqtt!ConnectAccepted)
    \/ Connection(Mqtt!Disconnected)
    \/ \E success \in BOOLEAN : Connection(Mqtt!Subscribed(success))
    \/ Connection(Mqtt!mqtt_reconnect_timer_handler)
    \/ Connection(Mqtt!BrokerChanges)

\* lwIP brings a lookup, an attempt to connect and a SUBSCRIBE to an end, boot goes on, and
\* the timer goes off or the main loop, whose steps go together, runs.
ClientFairness ==
    /\ WF_allVars(Connection(Mqtt!WifiConnects))
    /\ WF_allVars(Connection(Mqtt!resolve_mqtt))
    /\ WF_allVars(Connection(Mqtt!dns_found_cb))
    /\ WF_allVars(Connection(Mqtt!ConnectAccepted))
    /\ WF_allVars(\E success \in BOOLEAN : Connection(Mqtt!Subscribed(success)))
    /\ WF_allVars(\/ Connection(Mqtt!mqtt_reconnect_timer_handler)
                  \/ Checks \/ Restarts \/ Flushes \/ Sleeps)

ClientSpec == ClientInit /\ [][ClientNext]_allVars /\ ClientFairness

-----------------------------------------------------------------------------
(* Properties.                                                              *)

\* A connection that is gone is tried again within one delay, and the sleep of one turn of
\* the main loop, however much there is to flush; an attempt that fails counts as a
\* connection that is gone (lines 377-385, 453-461).
TriedInTime == Mqtt!TriedInTime

\* A client that was connected once is connected again if the broker can be reached in
\* the end.
ConnectionComesBack == Mqtt!ConnectionComesBack

\* No host is there, or fwrite takes nothing.
HostRefuses == pc \in {"reading", "writing"} /\ pc' = "sleeping"

\* What has arrived is printed, with or without a connection and in the middle of its
\* repair: if the host refuses no bytes from some time on, the buffer is empty again and
\* again (the flush in every turn of the main loop, line 459).
BytesAreFlushed ==
    <>[][~HostRefuses]_allVars => []<>(printer_used = 0)
=============================================================================
