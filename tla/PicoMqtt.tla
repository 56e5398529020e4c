------------------------------ MODULE PicoMqtt ------------------------------
(***************************************************************************)
(* How clients/pico-w/src/printeasy_pico.c comes to its MQTT connection    *)
(* and keeps it: the boot sequence, the name lookup, mqtt_start, the       *)
(* connection callback and the periodic check (lines 314-395, 414-463).    *)
(*                                                                         *)
(* lwIP is external: an attempt to connect succeeds or fails some time     *)
(* later, a connection ends at any time, and a SUBSCRIBE is answered or    *)
(* runs into a timeout that leaves the connection as it is.                *)
(*                                                                         *)
(* In the Bluetooth build a timer checks the connection and acts on it in  *)
(* one callback; in the others the main loop checks it, sleeps, and then   *)
(* acts on what it saw.                                                    *)
(***************************************************************************)
EXTENDS Naturals

CONSTANTS
    Delay,              \* MQTT_RECONNECT_DELAY_MS
    Poll                \* the sleep of 50 ms at the end of the main loop

VARIABLES
    build,              \* the transport the firmware is built for
    phase,              \* how far main has come
    client,             \* lwIP's client: its connection state, or "null"
    connected_once,
    subscription,       \* the SUBSCRIBE of this connection
    wait,               \* the time until the timer goes off or the sleep ends
    retrying,           \* the main loop has found the connection gone
    brokerUp,           \* the broker can be reached
    untried             \* history variable: how long a connection has been gone

clock == <<wait, retrying, untried>>

vars == <<build, phase, client, connected_once, subscription, clock, brokerUp>>

Phases == {"booting", "resolving", "running", "panicked"}
Clients == {"null", "disconnected", "connecting", "connected"}
Subscriptions == {"none", "asked", "granted", "failed"}

-----------------------------------------------------------------------------
(* Boot.                                                                   *)

\* mqtt_client_connect is refused while there is a connection or an attempt; else it
\* begins an attempt, which may fail at once if there is no way to the broker.
mqtt_start ==
    client' \in IF client \in {"connecting", "connected"} THEN {client}
                ELSE IF brokerUp THEN {"connecting"}
                ELSE {"connecting", "disconnected"}

\* A failed boot step, a failed lookup, or a client that cannot be allocated.
Panic ==
    /\ \/ phase \in {"booting", "resolving"}
       \/ phase = "running" /\ client = "null"
    /\ phase' = "panicked"
    /\ UNCHANGED <<build, client, connected_once, subscription, clock, brokerUp>>

\* connect_wifi succeeds, and the transport is set up.
WifiConnects ==
    /\ phase = "booting"
    /\ phase' = "resolving"
    /\ UNCHANGED <<build, client, connected_once, subscription, clock, brokerUp>>

\* resolve_mqtt has the address at once, or has to wait for it; main goes on to its
\* loop, or sets the timer.
resolve_mqtt ==
    /\ phase = "resolving"
    /\ phase' = "running"
    /\ mqtt_start \/ UNCHANGED client
    /\ wait' = IF build = "bluetooth" THEN Delay ELSE 0
    /\ UNCHANGED <<build, connected_once, subscription, retrying, untried, brokerUp>>

\* The address comes in.
dns_found_cb ==
    /\ phase = "running" /\ client = "null"
    /\ mqtt_start
    /\ UNCHANGED <<build, phase, connected_once, subscription, clock, brokerUp>>

-----------------------------------------------------------------------------
(* The connection.                                                         *)

\* mqtt_connection_cb, MQTT_CONNECT_ACCEPTED: it subscribes.
ConnectAccepted ==
    /\ client = "connecting" /\ brokerUp
    /\ client' = "connected"
    /\ connected_once' = TRUE
    /\ subscription' = "asked"
    /\ UNCHANGED <<build, phase, clock, brokerUp>>

\* Mutant: a lost connection counts as one that never was.
DisconnectedForgets ==
    /\ client = "connected" \/ (client = "connecting" /\ ~brokerUp)
    /\ client' = "disconnected"
    /\ connected_once' = FALSE
    /\ subscription' = "none"
    /\ untried' = 0
    /\ UNCHANGED <<build, phase, wait, retrying, brokerUp>>

\* mqtt_connection_cb, any other status: an attempt has failed or a connection is
\* gone.  It is only logged.
Disconnected ==
    /\ client = "connected" \/ (client = "connecting" /\ ~brokerUp)
    /\ client' = "disconnected"
    /\ subscription' = "none"
    /\ untried' = 0
    /\ UNCHANGED <<build, phase, connected_once, wait, retrying, brokerUp>>

\* mqtt_subscribe_request_cb: the broker has answered, or has not in time.  It is only
\* logged.
Subscribed(success) ==
    /\ subscription = "asked"
    /\ success <=> brokerUp
    /\ subscription' = IF success THEN "granted" ELSE "failed"
    /\ UNCHANGED <<build, phase, client, connected_once, clock, brokerUp>>

-----------------------------------------------------------------------------
(* The check.                                                              *)

Gone == client # "null" /\ connected_once /\ client # "connected"

\* The Bluetooth build's timer, which is set again.
mqtt_reconnect_timer_handler ==
    /\ phase = "running" /\ build = "bluetooth" /\ wait = 0
    /\ IF Gone THEN mqtt_start /\ untried' = 0
               ELSE UNCHANGED <<client, untried>>
    /\ wait' = Delay
    /\ UNCHANGED <<build, phase, connected_once, subscription, retrying, brokerUp>>

\* Mutant: the main loop sleeps for the whole delay whether it retries or not.
LoopSleepsFirst ==
    /\ phase = "running" /\ build # "bluetooth" /\ wait = 0
    /\ ~retrying
    /\ retrying' = Gone
    /\ wait' = Delay
    /\ UNCHANGED <<build, phase, client, connected_once, subscription, untried, brokerUp>>

\* A turn of the main loop finds the connection gone and sleeps, or finds it there.
LoopChecks ==
    /\ phase = "running" /\ build # "bluetooth" /\ wait = 0
    /\ ~retrying
    /\ retrying' = Gone
    /\ wait' = IF Gone THEN Delay ELSE Poll
    /\ UNCHANGED <<build, phase, client, connected_once, subscription, untried, brokerUp>>

\* After the sleep it starts again, whatever has become of the connection.
LoopRestarts ==
    /\ phase = "running" /\ build # "bluetooth" /\ wait = 0
    /\ retrying
    /\ mqtt_start
    /\ retrying' = FALSE
    /\ wait' = Poll
    /\ untried' = 0
    /\ UNCHANGED <<build, phase, connected_once, subscription, brokerUp>>

-----------------------------------------------------------------------------

\* Time passes; a timer or a sleep that is over is not late.
Tick ==
    /\ wait > 0
    /\ wait' = wait - 1
    /\ untried' = IF connected_once /\ client = "disconnected" THEN untried + 1 ELSE 0
    /\ UNCHANGED <<build, phase, client, connected_once, subscription, retrying, brokerUp>>

\* The broker goes away or comes back.
BrokerChanges ==
    /\ brokerUp' = ~brokerUp
    /\ UNCHANGED <<build, phase, client, connected_once, subscription, clock>>

Init ==
    /\ build \in {"bluetooth", "serial or usb"}
    /\ phase = "booting"
    /\ client = "null"
    /\ connected_once = FALSE
    /\ subscription = "none"
    /\ wait = 0
    /\ retrying = FALSE
    /\ brokerUp \in BOOLEAN
    /\ untried = 0

Next ==
    \/ Panic
    \/ WifiConnects
    \/ resolve_mqtt
    \/ dns_found_cb
    \/ ConnectAccepted
    \/ Disconnected
    \/ \E success \in BOOLEAN : Subscribed(success)
    \/ mqtt_reconnect_timer_handler
    \/ LoopChecks
    \/ LoopRestarts
    \/ Tick
    \/ BrokerChanges

Spec == Init /\ [][Next]_vars

-----------------------------------------------------------------------------
(* Properties.                                                             *)

\* A connection that is gone is tried again within one delay, and the sleep of one turn
\* of the main loop; an attempt that fails counts as a connection that is gone.
TriedInTime == connected_once /\ client = "disconnected" => untried <= Delay + Poll

\* A client that was connected once is connected again if the broker can be reached in
\* the end.
ConnectionComesBack ==
    <>[]brokerUp /\ <>(client = "connected") => []<>(client = "connected")
=============================================================================
