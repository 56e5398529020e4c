# PrintEasy: specifications, model checking and proofs

PrintEasy prints from HTTP and MCP requests on thermal printers that listen on an MQTT
topic. A Node server (`server/app.js`) renders requests to ESC/POS bytes and publishes
them; a client next to each printer (Pico W, ESP32, ESP8266, Linux) copies the bytes of
the topic to the printer. These modules say what the server's concurrent parts and the
clients do, in TLA+, what TLC checks about them on small instances and what TLAPS proves
about them for every instance. All paths are relative to `src/`.

## Inventory

| Component | State | Operations | Correct when |
|---|---|---|---|
| Print queue, `server/app.js` 118-310 | `printQueue`, `printQueueHistory`, `queueTimer`, `queueProcessing`, `queueSequence`, the worker's local `job` across its `await` | enqueue, cancel, timer callback, `processPrintQueue`, the `connect` and `close` handlers | pending jobs are in due order and not lost; each finishes once; a pending job always has a wakeup, and a prompt one; one worker at a time; the status shown is true |
| ESC/POS publisher, `server/app.js` 671-705 | per call: the `offset` in the closure and its promise; the MQTT client's unacknowledged messages | `publishEscPos`, `publishNext`, the publish callback | the payload can be put together from the topic; the promise settles once, and resolves only when all of it is there |
| HTTP endpoints, `server/app.js` 312-344, 1244-1304 | none of their own; a request waits for its rendering, then for its publish | `POST /print`, `POST /preview`, `GET`/`DELETE /queue`, `GET /health` | the status answered tells the caller what was printed, queued or cancelled; every request is answered |
| MCP endpoint, `server/app.js` 661-669, 707-784, 972-1240 | none of its own | `GET`, `DELETE` and `POST /mcp`: JSON-RPC requests, notifications, responses, batches; six tools | as above; a tool acts once |
| Authentication and origin check, `server/app.js` 62-74, 985-1016 | none | `requireApiToken`, `validateMcpOrigin`, `validMcpProtocolVersion`, `accepts` | nothing is done for a request that is turned away |
| Rendering, `server/app.js` 384-659, 735-752 | none | `wrapText`, `tableToLines`, `markdownToTextLines`, raster bands, QR header, `parseMarkdownParts`, `composePrintJob`, `encodePreview` | no word, dot or piece is lost or out of place; lines fit on the paper; the printer reads the commands as they are meant |
| Pico W client, `clients/pico-w/src/printeasy_pico.c` | the ring buffer, the Bluetooth channel, the MQTT connection | incoming data, flush, Bluetooth and MQTT events | the printer gets the bytes of the topic, in order, each once |
| ESP32 and ESP8266 clients, `*.ino` | connection flags, times of the last attempts | `loop`, the MQTT callback | as above; reconnection goes on for ever |
| Linux client, `clients/linux-python/printeasy_client.py` | the open device | `write`, paho's callbacks | as above |
| Mosquitto, MQTT.js, PubSubClient, paho, Docker | | | external; modelled as far as the code uses them |

How they interact. A request is checked, its content rendered to bytes, and it either calls
`publishEscPos` at once or puts a job in the queue. The queue's worker, started by the timer, calls `publishEscPos` for
one job after the other and awaits each. Every call of `publishEscPos`, the worker's and the
requests', shares one MQTT client and, by default, one topic. The MQTT client's `connect` and
`close` events set `mqttConnected`, which `publishEscPos`, the worker and
`scheduleQueueTimer` read. A client subscribes to the topic and writes what arrives.

What is hard. The server is one thread, but the worker awaits in the middle of its loop and
everything may happen there: requests, cancellations, other timers, loss and return of the
connection, and other calls of `publishEscPos`. QoS 1 sends a message again when its
acknowledgement is lost. A restart empties the queue. A caller learns of all this only what the
status of its answer says. The timer is cleared, set and consumed in five places. On the Pico the
bytes arrive at the network's pace and leave at the Bluetooth stack's or the USB host's, and in
the USB build they arrive at interrupt time. On every client Wi-Fi, broker and printer come and
go at any time, and a write may take less than it was given. Every hazard found is listed with
its line in `PROJECT.json`.

## Modules

| Module | What it is |
|---|---|
| `PrintLedger` | what the queue promises its callers, with no timer, worker or connection in it |
| `PrintQueue` | the queue, `server/app.js` 97-310 |
| `MCPrintQueue` | its instances for TLC |
| `CommonLemmas` | lemmas on numbers, on `InsertAt`, `RemoveAt`, `Tail` and sequences without repetition, on positions and windows of a ring, on induction, recursion and least elements, and on sequences put together from sequences, proved |
| `PublishEscPos` | the publisher, with several calls at once |
| `MCPublishEscPos` | its instances for TLC |
| `PublishEscPosProofs` | theorems about `PublishEscPos`, proved |
| `PrintServer` | requests over HTTP and MCP, composed with `PrintQueue`; failed and repeated publishes, restarts |
| `MCPrintServer` | its instance for TLC: the messages that a request may be |
| `PrintServerProofs` | theorems about `PrintQueue` and then about `PrintServer`, which extends it, proved |
| `TextLayout` | word wrap, tables and lines of text, with what they are for |
| `Raster` | picture bands, QR header and picture size, with the printer that reads them |
| `PrintJob` | fenced blocks, the pieces of a job, previews, with what a document means |
| `Rendering`, `MCRendering` | the three put to TLC: any input may be asked for |
| `RenderingProofs` | theorems about `TextLayout`, `Raster` and `PrintJob`, and from them about `Rendering`, proved |
| `ByteQueue` | what the Pico's printer buffer promises: a bounded queue of bytes |
| `PrinterBuffer` | the ring buffer of the Pico client, `printeasy_pico.c` 66-102 |
| `PicoBluetooth`, `MCPicoBluetooth` | the ring with its Bluetooth transport and the RFCOMM channel |
| `PicoUsb`, `MCPicoUsb` | the ring with its USB transport, data arriving at interrupt time |
| `PicoMqtt` | the Pico's boot sequence and MQTT connection |
| `PicoClient`, `MCPicoClient` | `PicoUsb` and `PicoMqtt` composed: the main loop keeps the connection and flushes the buffer in turn |
| `PicoBluetoothProofs` | theorems about `PicoBluetooth`, proved |
| `PicoClientProofs` | theorems about `PicoUsb` and `PicoClient`, proved |
| `PayloadBridge` | what a client promises that writes payloads as they come |
| `ArduinoBridge`, `MCArduinoBridge` | the ESP32 and ESP8266 clients |
| `ArduinoBridgeProofs` | theorems about `ArduinoBridge`, proved |
| `LinuxWriter`, `MCLinuxWriter` | the Linux client's `PrinterWriter` and `on_message` |
| `LinuxWriterProofs` | theorems about `LinuxWriter`, proved |

`PicoBluetooth` and `PicoUsb` extend `PrinterBuffer` and implement `ByteQueue`; `ArduinoBridge` and
`LinuxWriter` implement `PayloadBridge`. `PrintServer` extends `PrintQueue` and takes a publish for
what `PublishEscPos` shows of it; `PicoClient` extends `PicoUsb` and instantiates `PicoMqtt`. The operators marked "Mutant" in the modules stand for
plausible mistakes in the definition after them; each property of a passing run is known to fail
with one of them, as `PROJECT.json` lists. No specification uses them.

### PrintQueue

An action is one callback of the event loop: from where it enters the code to where the code
returns or awaits. Node runs nothing else in between. In particular the worker's continuation
after a settled `await` is one action with the settling, as no timer or I/O callback runs
between a promise's settling and its continuation in the same turn.

| Code | TLA+ |
|---|---|
| `printQueue`, `printQueueHistory`, `queueTimer`, `queueProcessing`, `queueSequence`, `mqttConnected` | variables of the same names; `queueTimer` is the time at which the timer goes off |
| the job objects | `jobs`, by sequence number; a job that left the queue still has a status, because the worker keeps its reference and writes to it |
| `processPrintQueue`'s local `job` | `inFlight` |
| calls of `addHistory` | also appended to the history variable `finished` |
| the timer callback | `TimerFires` |
| code after the `await`, its `catch` | `PublishResolves`, `PublishRejects`, each with the turns of the loop that follow (`LoopTurn`) and the `finally` block (`Stop`) |
| `POST /print` and the MCP print tools, as far as they reach the queue | `Request`, `Enqueue`; `EnqueueThrows` when `toISOString` throws on a date out of range |
| `DELETE /queue/:id`, `cancel_print_job` | `CancelQueuedJob` |
| `on('connect')`, `on('close')` | `MqttConnects`, `MqttCloses` |

Abstracted: the bytes, topic, source and error text of a job. `publishEscPos` is a promise
that settles at some time. `setTimeout` never fires early, takes a delay of 0 as 1, and is
clamped at `MaxTimeout`. `sort` on a queue that is sorted but for its last element is an
insertion; the comparison of ids is kept as the code has it, text order of two numerals
(`NumeralBefore`).

Clock. The unit of `now` stands for any number of milliseconds, so the models cover
schedules of any length. The clock does not go back: `Date.now()` can, and no property here is
claimed then. It stops at `MaxTime`, which reads "this late or later": a time beyond it is cut
to it (`Cap`), so a behaviour at the last time goes on rather than deadlocks.

### PublishEscPos

`Publish` is a call, `Refuse` a call that throws. `publishNext` is the closure of the same
name; the callback it hands to the MQTT client is `Acknowledge` without an error and `Fail`
with one. A message is the range of bytes it carries. External: the client keeps a QoS 1
message until its PUBACK, sends messages in the order it got them, and sends all that are
left again after a reconnection (`Send`, `Link`). It may send again before it emits
`connect`, so `linked` and `mqttConnected` differ for a while. `Fail` may happen to any message
at any time, which covers the ways in which MQTT.js gives a message up.

### PrintLedger

`Accept`, `PrintJob` and `Cancel` of jobs on a clock that moves on: a pending job is printed or
cancelled, one of the two, once; it is printed when it is due and never before a pending job
that is due earlier. `LedgerSpec` in `PrintQueue` is this with the queue as `pending` and the
entries of `finished` as `printed` and `cancelled`.

### PrintServer

A request is handled up to its first `await`, the rendering (`Receive`), from there to the
publish (`Composed`), and from the publish to its answer (`DirectResolves`, `DirectRejects`);
everything else may run in between. What a message asks for is worked out in the order in which
the code looks at it:

| Code | TLA+ |
|---|---|
| `requireApiToken`, `validateMcpOrigin`, `validMcpProtocolVersion`, `accepts` | `Authorised`, `OriginAllowed`, `VersionKnown`, `Acceptable`; `McpRefusal` has their order on `/mcp` |
| `isJsonRpcRequest`, `isJsonRpcNotification`, `isJsonRpcResponse`, `POST /mcp`, `handleMcpRequest`, `callMcpTool` | the same names, `PostOperation`, `RpcOperation`, `ToolOperation`: what is done for a message, or how it is answered at once |
| `normalisePayload`, `markdownFromToolArgs`, `decodeRawEscPos`, `resolvePublishTopic` | the same names, `TopicAllowed` |
| `scheduleOptionsFromRequest`, `parseScheduleOptions` | `AsksForQueue`, `IsLater`, and `when`, which can be a date that does not parse ("invalid") or is out of range ("never") |
| `publishOrQueueEscPos` | `PublishOrQueue`, with `Enqueue` and `EnqueueThrows` of `PrintQueue` |
| the answer and its status | `Answer`, `AnswerTo`, `StatusOf`; `Sound` says whether the message itself is a reason to fail |
| `processPrintQueue`'s publish | `WorkerResolves`, `WorkerRejects`: the actions of `PrintQueue`, and what they leave on the topic |
| a stop and a start of the process, at any point | `Restart` |

A message is a record of the fields the code tells apart: which fields a body has, whether its
content can be rendered, its schedule, its topic. `copies` is what of a request's payload is on the
topic: a sequence of copies, each "whole" or "cut". A publish that resolves has put a whole copy
there; one that is rejected, or is on its way when the process stops, has put nothing there, a cut
copy, or, when only the last acknowledgement is missing, a whole one. That is what `PublishEscPos`
shows of `publishEscPos`. The history variables `jobs` and `finished` of `PrintQueue` survive a
restart; a job's sequence number goes on, because the ids of the new process differ in their time.

### TextLayout, Raster, PrintJob, Rendering

These functions have no state. `Rendering` is a state machine in which any input of a set may be asked
for, and its invariants say what the function makes of it. `RequestAssumption` says what these sets may
hold: words, rows, source lines and tokens as the modules abstract them, widths and band heights that
GS v 0 has room for, QR data that GS ( k has room for. A loop of the code is a function of the number of
its turns, with one turn as an operator of its own: `Placed` and `LinesAfter` for `wrapText`, `Narrower` and
`Narrowings` for the `while` of `tableToLines` (it takes one character away in each turn, so it ends after
`Excess` turns), `Matched` and `Matches` for that of `parseMarkdownParts`. Each module has the functions
as the code computes them and, apart from them, what they are for:

- `TextLayout`. Layout looks at lengths only: a word is its length, a table cell the length of its text,
  a source line the kind that the regular expressions find, with its words or cells. `WellWrapped`:
  the words in order, lines that fit, and no way to break them that needs fewer lines. `FairlyCut`:
  tables fit unless all columns are down to six characters, only longest columns are cut, alike, and
  none without need. `WellLaidOut`: what can be read in the lines that come out, words, table cells and
  rules, is what the source lines hold, in the same order; nothing outside of the paper but a single long
  word, a table of too many columns, or a heading; the last line is not blank.
- `Raster`. A picture is its size and its dark dots, a byte the set of its bits. `Prints` is what a
  printer does with GS v 0 (external). `PicturePrinted`: the bands follow each other, none goes past
  the end, and the dots printed are the picture's.
- `PrintJob`. Markdown is a sequence of tokens, among them fences that open a `qr` or `image` block.
  `parseMarkdownParts` finds blocks by searching, as the regular expression does; `Meaning` reads the
  tokens from left to right once. `PreviewTrue`: a preview returns no more than `LimitTaken`, the limit
  asked for with the exception that 0 is taken for 4096, and says truly whether something is missing.

### PrinterBuffer, PicoBluetooth, PicoUsb

A byte is its position in the stream of arriving bytes, so that order, loss and repetition can be
seen. `printer_buffer`, `printer_read_pos`, `printer_write_pos` and `printer_used` are variables of
the same names; `received` and `printed` are history variables. The loop of `buffer_write` is one
operator (`Accepted` bytes are `Copied`), as nothing can come between its turns in the Bluetooth
build, and in the USB build it runs at interrupt time. `printer_overflowed` only decides what
is logged and is left out. The serial build writes each byte to the UART in the callback and has
no state.

`PicoBluetooth`: an action is one callback. BTstack and lwIP call back from one `async_context`, one
callback at a time. The stack is external: a request for CAN_SEND_NOW (`requested`) is answered by
one event, `bt_send_available(taken)`, unless the channel is closed before; `rfcomm_send` takes the
packet or returns an error. `link` is what the stack is doing: an SDP query, an RFCOMM open, an
open channel, or nothing after a failure ("given up": no line of the code starts again then).

`PicoUsb`: `CMakeLists.txt` links `pico_cyw43_arch_lwip_threadsafe_background`, so the data callback
interrupts the main loop anywhere. The callback is one action; the main loop's `flush_usb_buffer` is
one action for each of its accesses to the shared variables (`ReadPosition`, `ReadLength`, `Fwrite`,
`Consume`, `Store`). `printer_used -= len` may use a value loaded before or after, as nothing is
volatile, and counts modulo 2^32 (`SizeT`). `QuietSpec` is the part of `Spec` in which nothing
arrives while the main loop is in the flush.

### PicoMqtt

`phase` is how far `main` has come, `client` the state of lwIP's MQTT client. The Bluetooth build's
timer checks and acts in one callback (`mqtt_reconnect_timer_handler`); the other builds' main loop
checks (`LoopChecks`), sleeps, and then acts on what it saw (`LoopRestarts`). A failed boot step
panics. Time is `wait` and the history variable `untried`; a sleep that is over is not late.

### PicoClient

The USB and serial builds' main loop: it checks the connection (`Checks`, with the sleep that follows
when it is gone, and `Restarts` after it), flushes the buffer (`Flushes`, one of `PicoUsb`'s steps
at a time) and sleeps (`Sleeps`, in which time passes). `turn` says that the flush of this turn is due
or under way. Data arrives with a subscription only, and, as in `QuietSpec`, not in the middle of the
main loop's flush; `usb_race` is about what happens otherwise. In the Bluetooth build the buffer has no
part in the main loop and is left alone.

### ArduinoBridge

Both sketches, told apart by the variable `target`, which keeps its value: the ESP8266 has no
printer connection and writes to its serial line. An action is a call of `loop` (`MqttChecked`,
`mqttClient.loop` as `NothingArrives` or `PayloadArrives`, `PrinterChecked`), and in
`writePrinterBytes` a turn of its own loop, because the printer can go away between two writes.
`reach` is what can be reached; a connection (`mqtt`, `spp`) ends some time after its other side
has gone, and `printerConnected` is the program's memory of the latter. `millis` wraps at `Period`.

### LinuxWriter

`on_message` opens the port if there is none and enters the loop of `write`; `ChunkWritten`,
`PayloadWritten`, `WriteFails` and `ShortWrite` are the turns of this loop and its ends. `handle` is
the port or file, "stale" when its device has gone since it was opened. External, and assumed: a
blocking write takes all it is given as long as its device is there, or fails; a serial port may then
have taken any part of the chunk, all of it when it is `flush` that fails, a file has taken nothing.

### PayloadBridge

The bytes of a payload are printed in order, each once, from the first one on and without a gap;
what is missing is the end of the payload. This is what is left of the protocol's "write each
payload in arrival order" when a printer may go away in the middle of one.

## What TLC checks

| Run | Shows |
|---|---|
| `queue` | `TypeOK`, `DueOrder`, `NoLostWakeup` under every interleaving; with a connection a pending job has a timer, set no later than the head is due or, if its last publish failed, the retry interval is over (`PromptWakeup`); while a publish awaits its result no attempt is begun, of the same job neither (`OneWorker`); every pending job leaves the queue if the connection stays up in the end (`EveryJobLeaves`) |
| `queue_calm` | under `CalmSpec`: no job is lost (`JobsKept`) or finished twice (`FinishesOnce`), `StatusIsTrue`, and the queue implements `PrintLedger` |
| `queue_displaced` | finding: a job is dropped |
| `publish` | `Reassembly`, `ResolvedIsComplete`, `OneMessageAwaited` for two calls at once; every accepted call settles if the connection stays up in the end (`EveryCallSettles`) |
| `publish_interleaved` | finding: two jobs' messages alternate |
| `server` | the status answered tells what was printed, queued or cancelled (`AnswerTellsEffect`); a job that a caller was told is queued is pending, published, cancelled by a caller, or lost in a restart (`AcknowledgedJobsKept`); a queued job has no more copies on the topic than attempts, none before it is due, and a whole one last if it was published (`CopiesMatchAttempts`); every request that waits is answered if the connection stays up in the end (`EveryRequestAnswered`) |
| `rendering` | `WrapsWell`, `CutsFairly`, `LaysOutWell`, `CommandsAreRead`, `JobIsAsMeant`: the rendering functions do what they are for |
| `pico_bluetooth` | the ring stays consistent (`RingConsistent`), a request to send is outstanding exactly while it is needed (`SendIsAsked`), the ring is a `ByteQueue` (`QueueSpec`), and every byte is sent if the channel stays open in the end (`EveryByteSent`) |
| `usb_race` | finding: bytes that arrive in the middle of a flush are printed twice or out of order |
| `pico_client` | a lost connection is tried again in time, however much there is to flush (`TriedInTime`), and comes back if the broker does (`ConnectionComesBack`), in all builds; the USB ring is a `ByteQueue` as long as nothing arrives during the main loop's flush (`QueueSpec`); what has arrived is flushed, with or without a connection (`BytesAreFlushed`) |
| `arduino` | payloads are printed as `PayloadBridge` says (`BridgeSpec`) and cut only for a reason (`CutForAReason`); the interval holds across the wrap of `millis` (`TriedInTime`); everything is connected again in the end (`AllComesBack`) |
| `linux` | `BridgeSpec`, and a port whose device has gone is not used again after a failure (`NoStaleHandle`) |

`CalmSpec` is the part of `Spec` in which the job in flight stays at the head of the queue:
nothing due earlier is enqueued while it is being published, and it is not cancelled then. It
is a restriction of the environment, not of the worker. The findings are what happens outside
it; the properties of run `queue` hold there as well, as it is checked under `Spec` itself. `ServerSpec` is restricted in the same way.

### Findings

1. `server/app.js:260`. After the `await` the worker takes off whatever is at the head. A job
   enqueued meanwhile with an earlier time (an absolute time in the past will do) is dropped
   unpublished, and the published one stays and is published again. `server/.env.example:40-41`:
   "Scheduled jobs are kept while this server process is running." A cancellation
   while the job is published (`server/app.js:281`) leads to the same: the job is reported as
   cancelled and as published, and the `shift` takes off the job behind it.
2. `server/app.js:694`. Calls of `publishEscPos` do not wait for each other: the chunks of two
   jobs alternate on the topic. `clients/protocol/README.md:18`: "One print job may arrive as
   multiple MQTT messages on the same topic. Write each payload to the printer in arrival order."
3. `clients/pico-w/src/printeasy_pico.c:300`. In the USB build the data callback interrupts the main
   loop in the middle of `flush_usb_buffer`, which takes no lock; both change the read position and
   the number of bytes, and both write. `clients/pico-w/README.md:3`: it "writes each binary ESC/POS
   payload unchanged to one printer transport".

Seen on the way, and not the question of a run, because the model shows it on its face:

- `server/app.js:229`: `PRINT_QUEUE_RETRY_MS` is used only while disconnected; after a publish that
  failed with a connection the `finally` block sets the timer to go off at once (`Armed`, `Stop`).
  `server/README.md:55`: "Retry interval for due queued jobs while MQTT is disconnected or publish
  fails." `PromptWakeup` allows the interval after a failed publish, so it would hold of code that kept
  it, and does not say that the code does.
- `server/app.js:1232`: a `tools/call` without an id prints or queues, and is answered 400 with its
  result. `server/app.js:792`: "202 Accepted for notifications/responses." `AnswerTellsEffect` names it as
  the one case in which a 400 goes with something that was done.
- `server/app.js:736`: a preview with `maxBytes` 0 returns up to 4096 bytes. The tool's schema
  (`server/app.js:864-869`) allows 0 and calls it the "Maximum number of rendered bytes to include".
  `PreviewTrue` states the code's limit with this exception (`LimitTaken`).
- `printeasy_pico.c:379`, 454: a first MQTT connection that fails is not tried again, as `connected_once`
  is not set then; `printeasy_pico.c:214`, 154: neither is a failed RFCOMM open or SDP query.
  `clients/protocol/README.md:19`: "Clients should reconnect to Wi-Fi/network, MQTT, and printer
  transport after failures." For these reasons `ConnectionComesBack` speaks of a client that was connected
  before, and `EveryByteSent` of a channel that stays open.
- `server/app.js:1286`: a publish that fails in the middle is answered 400, as a malformed request is, though
  a part of the job, or all of it, may be printed.
- `server/app.js:569`: a heading is not wrapped, and goes over the edge of the paper if it is long.
- `printeasy_pico.c:316`: a SUBSCRIBE that fails is only logged; the client stays connected without one.
- `printeasy_client.py:130`: the number of bytes that an unbuffered write took is not looked at. It
  would leave a gap with a device whose blocking writes can be short.

### Bounds

Bounds of `PrintQueue`: `MaxSequence` jobs are ever created (2 or 3: one in flight, one to
displace or follow it, and one more), the clock stops at `MaxTime`, and from the `MaxAttempts`th
attempt on a publish does not fail (2: a failure and the attempt after it). The other constants
are configuration values: `MaxJobs` 2, so that the queue is full with one job more to come;
`HistoryLimit` 1, so that it is cut; `MaxTimeout` 2 and times up to 4 (two jobs) or 3 (three jobs), so
that the timer is clamped; `ScheduleSlack` 1; `RetryMs` 2, which is not what a timer of a connected
queue would wait; `Base` 3, so that the third id has two digits and comes before the second.

Bounds of `PrintServer`: three requests, one of which may be any of about 80 messages over both
protocols, among them every refusal, form, method and tool, while the second queues a job and the third
cancels one; one restart, at any point; a queue of one job, so that it can be full, and two jobs ever;
two attempts. `ALLOW_TOPIC_OVERRIDE` is off, which has the more refusals.

Bounds of `Rendering`: paragraphs up to five words of lengths 1, 2, 6 and 8, wrapped to 5, 6 and 9
characters, so that words fit exactly, are one too long, and are longer than a line; tables up to four
columns on 20 characters, with cells up to the whole width; documents of up to three lines of every kind; pictures 1, 8 and 17 dots wide
and 1, 2 and 5 high, with every single dot, in bands of 1, 2 and 300; lengths around 256 and 4096,
and 65 527, the longest that a UTF-8 body of 64 kB has room for; markdown of up to five tokens.

Bounds of `PublishEscPos`: two calls (no part of the code compares or counts calls), payloads up
to 5 bytes in chunks of 2, which has the empty, the short, the exact and the cut payload and
a chain of three; the connection is lost up to twice, so that a message can be sent three times.
The calls and connections of this model end, so its runs allow deadlock.

Bounds of the Pico: a ring of 4 cells, pieces of a payload up to 5 bytes, so that one can overflow
an empty ring, and 9 bytes in all, so that both positions wrap twice; frames of 1 to 3 bytes, so that a
packet ends at the frame, at the end of the array or at the last byte. The number of channels is
that of two services found by one query. `usb_race` needs less. The bytes of the USB model end, so
its run allows deadlock. `PicoClient`: a ring of 3 cells, 7 bytes in pieces up to 4, a delay of 2 and a
sleep of 1, so that more than one turn of the main loop fits into the delay.

Bounds of `ArduinoBridge`: `millis` wraps at 5, with an interval of 2 and calls that block up to 1, so that
it wraps between an attempt and the next one; chunks of 2 and payloads of 3, so that the second chunk
is a short one; 4 bytes in all, so that a second payload follows a cut one. Of `LinuxWriter`: chunks of
2, payloads of 5, 7 bytes in all.

### Fairness

`PrintQueue!FairSpec`: time passes; a timer that is due goes off; and a publish settles while
`mqttConnected`. The first two are Node's, the third is the MQTT client's: it acknowledges or
fails every message while it has a connection (`PublishEscPos` shows it from there). Nothing is
assumed of requests or the network; `EveryJobLeaves` supposes that the connection stays up
from some time on. It also rests on `MaxAttempts`: a job that fails for ever stays in the queue for
ever, and so does every job behind it.

`PrintServer`: the same, and rendering comes to an end (it is a computation), and the publish a
request awaits settles while there is a connection. A `Composed` that `Calm` forbids at the time is not
required. Nothing is assumed of restarts: a request that one has cost is "lost", not answered.

`PublishEscPos!FairSpec`: while there is a connection the client sends what it has, and the
broker acknowledges each call's message. Messages may fail, but need not.

`PicoBluetooth!FairSpec`: while a channel is open the stack answers a request and takes a packet in
the end; a query and an attempt to open a channel come to an end; the stack starts. That is BTstack's
contract, and nothing is assumed of the printer: `EveryByteSent` supposes that the channel stays open
from some time on. `PicoClient!ClientFairness`: boot goes on, the main loop runs (its check, its flush and its
sleep are one program, so they are one fairness condition), and lwIP brings an attempt to a broker that
is there, a lookup and a SUBSCRIBE to an end; `BytesAreFlushed` supposes that the USB host takes bytes from some time on. `ArduinoBridge!FairSpec`: the
one thread runs. Nothing is assumed of Wi-Fi, broker and printer; `AllComesBack` supposes that they can
all be reached from some time on.

## What is proved

### The print queue

The first part of `PrintServerProofs`, for all values of the constants under `ConstantsAssumption` (sizes are
naturals, the timer's limit is positive, numerals have at least two digits):

| Theorem | States |
|---|---|
| `TypeCorrect` | `Spec => []TypeOK`, the limits of queue and history included |
| `WakeupNotLost` | `Spec => []NoLostWakeup` |
| `WakeupPrompt` | `Spec => []PromptWakeup` |
| `QueueInDueOrder` | `Spec => []DueOrder` |
| `OneWorkerAtATime` | `Spec => OneWorker` |
| `AcceptedJobsKept` | `CalmSpec => []JobsKept` |
| `JobsFinishOnce` | `CalmSpec => []FinishesOnce` |
| `ShownStatusIsTrue` | `CalmSpec => []StatusIsTrue` |
| `ImplementsLedger` | `CalmSpec => LedgerSpec`, that is `PrintLedger` |

`TypeOK` is inductive. The two wakeup properties are not inductive apart: that a timer is
consumed by the re-entry test without harm needs that a set `queueProcessing` means an awaiting
worker, and that a connection coming up finds a prompt timer needs that the `connect` handler sets
it for the queue there is. Their conjunction `Wakeups` is inductive relative to `TypeOK`; the
lemmas `ScheduledWakeups` and `LoopTurnWakeups` are the two ways in which a step re-establishes it:
it calls `scheduleQueueTimer` last, or it leaves the worker awaiting. `DueOrder` is inductive
relative to `TypeOK` because `runAt` and `created` of a job never change: the lemmas on
`InsertAt`, `RemoveAt` and `Tail` (`CommonLemmas`) give the order of the new queue. It needs of
`Before` only that it implies `NotLater`, so nothing about text order of ids. `OneWorker` follows
from `NoLostWakeup`: as the flag is set while the worker awaits, the timer's callback begins nothing, and
no other action of the queue changes `attempts` but the turn of the loop after a publish that succeeded.

Under `CalmSpec` the inductive invariant is `CalmInv`, relative to `TypeOK` and `NoLostWakeup`: the job
in flight is the head of the queue (`Calm`, which `CalmSpec` asks of each step), no job is in the queue
twice, finished twice, or both (`Once`), the job in flight is due (`InFlightDue`), and `StatusIsTrue`.
`Calm` is what makes the `shift` after the await take out the worker's own job
(`QueuedAfterResolve`); the two findings about `server/app.js:260` and 281 are this lemma without it.
`Once` is needed because taking one place out of the queue removes the job only if it has no other
place there. `JobsKept` is kept by every step that keeps `Once` (`NextBooks`): a step moves a job from
the queue to the history, adds one, or does neither.

For `PrintLedger` a step is mapped by what it does to the set of the pending jobs: `TimerFires`, a rejected
publish and the connection stutter, the others are `Accept`, `PrintJob`, `Cancel` or the clock. That no pending job is due before
the one that is printed is `HeadIsEarliest`, from `DueOrder` and `Calm`; that it is due is
`InFlightDue`; that no step changes when a job is due is `NextDueTimes`.

### The publisher

`PublishEscPosProofs`, for every set of calls, every payload and chunk size and any number of lost
connections (`PublishAssumption`):

| Theorem | States |
|---|---|
| `TypeCorrect` | `Spec => []TypeOK` |
| `OneAwaited` | `Spec => []OneMessageAwaited` |
| `PayloadsCanBeReassembled` | `Spec => []Reassembly` |
| `ResolvedPayloadsAreComplete` | `Spec => []ResolvedIsComplete` |

Each theorem rests on the one before it. `Awaited`: the client holds exactly one message of a call
that awaits and none of another, and it is the chunk at the call's offset. `InTurn` relates this one
message to what the broker has: it is new and begins where something the broker has ends, or it repeats
the last thing the broker took of this call (`FollowsOn`, `ComesAfter`). This is why sending again after a lost
connection appends a repetition or the next chunk and nothing else, whatever other calls send in
between; `TopicInOrder` follows from it. `Complete` says which chunks the broker has: every message begins
at a multiple of the chunk size, and everything before the message that is awaited has been taken, or
everything, when the call is resolved. The messages of a resolved call are then in a bijection with
`1 .. chunks`, which is why it reports their number.

### The server as its callers see it

`PrintServerProofs`, for every set of requests, whatever messages each may be (`Messages` is not
restricted), both values of `ALLOW_TOPIC_OVERRIDE` and any number of restarts:

| Theorem | States |
|---|---|
| `AnswersAreTrue` | `ServerSpec => []AnswerTellsEffect` |
| `NoJobForgotten` | `ServerSpec => []AcknowledgedJobsKept` |
| `CopiesAreCounted` | `ServerSpec => []CopiesMatchAttempts` |

The invariant is `ServerInv`, in three parts.

- `AnswersTell`: what is on the topic agrees with the answer, and a request that waits has put nothing
  there and waits for what its operation needs. `AnswerTold` goes through the outcomes: it rests on
  `StatusOf`, and, for the 400 that goes with something that was done, on `MethodNeeded`: over MCP only a
  message with a method is carried out, so that an answer of 400 means that there was no id.
- `QueueInv`, the invariant of the queue under `CalmSpec`. But for a restart every step of the server is one
  of `PrintQueue` (`ServerSteps`), so the lemmas about the queue hold as they are; a restart leaves an empty
  queue (`RestartQueue`). `JobsKept` is not part of it: a restart breaks it, which is why
  `AcknowledgedJobsKept` speaks of `lost`.
- `Kept`: the jobs are those of the requests answered as queued; each stands somewhere (`Stands`) and is in step
  with its copies (`InStep`). `CopiesMatchAttempts` is not inductive: that an attempt adds one copy at most
  needs that the job in flight has been counted for one copy more than there are, which
  `LoopTurnAttempts` of the queue gives for every new attempt.

### The Pico's ring buffer and its Bluetooth channel

`PicoBluetoothProofs`, for every size of the buffer but 0 and every size of payloads and frames
(`BufferAssumption`, `BluetoothAssumption`):

| Theorem | States |
|---|---|
| `TypeCorrect` | `Spec => []TypeOK`: no more bytes wait than there are cells, the positions stay inside |
| `RingStaysConsistent` | `Spec => []RingConsistent`: the two positions and the fill level agree |
| `SendingNeverStalls` | `Spec => []SendIsAsked` |
| `ImplementsByteQueue` | `Spec => QueueSpec`, that is `ByteQueue` |

`TypeOK /\ RingConsistent` is inductive. What has to be shown of the ring is arithmetic with a position
that has wrapped. `CommonLemmas` has it, for a ring of any size, and both transports use it: `AheadOfWrap` (going on from a
wrapped position), `BehindTheWrap` (the way back) and `CellDistance` (how far the cell of the i-th waiting
byte is from the write position: too far for the loop of `buffer_write` to reach it). From these
`WindowGrows` and `WindowShrinks` say what copying and taking do to a window, the bytes that wait as a
sequence; `WriteAppends`, `ConsumeTakesFirst` and `PointerBytes` say it of `buffer_write`, `buffer_consume`
and `buffer_contiguous_read`. The refinement follows: a piece of a payload is `Step(n, Accepted(n), 0)` of
`ByteQueue`, a packet is `Step(0, 0, k)`, everything else leaves the queue alone. It needs
`RingConsistent` because a write position that is not where the waiting bytes end would overwrite them.

`SendIsAsked` needs `LinkAgrees` beside it: there is a channel id exactly while the channel is open, so a
failed attempt to open one cannot take the id away from under a request. The lemma
`RequestsWhatIsNeeded` is what `request_bt_send` establishes at the end of each callback that calls it.

### The Pico's main loop and its USB transport

`PicoClientProofs`, for every size of the buffer but 0 that is less than the period of `size_t`, every size of
the pieces that arrive, every positive delay and poll interval (`BufferAssumption`, `UsbAssumption`,
`TimesAssumption`):

| Theorem | States |
|---|---|
| `QuietFlushIsQueue` | `QuietSpec => QueueSpec`: `PicoUsb` implements `ByteQueue` as long as no data arrives in the middle of a flush |
| `ImplementsByteQueue` | `ClientSpec => QueueSpec`: so does the whole client |
| `ReconnectsInTime` | `ClientSpec => []TriedInTime`, both builds |

A flush reads the position, reads the length, writes, and then moves the position and lowers the fill
level in two steps, so between `fwrite` and the end of `buffer_consume` the three variables of the ring
disagree on purpose. `First` and `Rest` say where the bytes are that are still to be sent at each of these
places; `FlushInv`, the inductive invariant, says that the local variables of the flush are still true of
the ring and that the ring is written where these bytes end. The only steps of the queue are `fwrite`,
which takes the first `k` bytes, and the callback, which appends what fits; the rest of the flush moves
nothing (`ReadingMovesNothing`, `ConsumingMovesNothing`). The restriction of `QuietSpec` is used where
`loaded = printer_used` is kept up to the store; without it the main loop sends
bytes twice or out of order, which is what the run `usb_race` shows. It is no further restriction for the client: every step of `ClientSpec` is one of `QuietSpec` or leaves
the buffer alone (`ClientStepIsQuiet`).

`TriedInTime` is not inductive: it says nothing of how long the loop still sleeps. `ConnectionInv` adds up the
time a connection has been gone and the time still to wait: at most the delay over Bluetooth, where a timer of lwIP
tries again; over USB a poll, when the sleep in progress is a poll, and a delay and a poll, when it is
the delay that comes after the check. That no connection was there before there is a client is part
of it, since the first attempt, which `main` makes, is not one of the loop's.

### Rendering

`RenderingProofs`, for whatever may be asked (`RequestAssumption`), every width of paper of 20 characters
or more (`LayoutAssumption`) and every font that is not higher than a line (`FontAssumption`):

| Theorem | States |
|---|---|
| `ParagraphsWrapWell` | `Spec => []WrapsWell` |
| `TablesCutFairly` | `Spec => []CutsFairly` |
| `DocumentsLaidOutWell` | `Spec => []LaysOutWell` |
| `CommandsRead` | `Spec => []CommandsAreRead` |
| `JobsAreAsMeant` | `Spec => []JobIsAsMeant` |
| `PicturesArePrinted`, `QrDataIsRead`, `LinesAreInside` | what `CommandsRead` says, for one picture, length and number of lines |

Here the state is one request, so the inductive invariant is only that it is one of those there are
(`RequestsOnly`); the work is in the theorem about each function. That a loop does what it is for is
induction over its turns. The library's induction and recursion theorems take operators, which the
provers cannot instantiate; `InductionTo` and `Recursion` of `CommonLemmas` say the same with a set of
numbers and with a function of steps, and from them come, for every loop, that its function exists and
goes on turn by turn (`LinesAfterAre`, `NarrowingsAre`, `MatchesAre`, ...), and then its invariant:

- `wrapText`. `WrappedTo`: the last line holds the words since some word, all lines fit, and together they
  hold the words so far. That no other way to break the words needs fewer lines is `AheadOf`: another way has
  ended at least as many lines before each word, and if no more, then none since the word that our last line
  begins with. `AheadNext` is the case in which `wrapText` ends a line: the other way must have ended one
  too, since by `OneLine` the words of a line of ours and the next one would be on one line of its own, and fit.
- `tableToLines`. `CutFrom`: no column is below three or above its natural width, nothing is cut before
  the table is too wide, and a cut column is at most one below any other. The last part holds
  because the widest is narrowed; `NarrowedIsCut` adds that after `Excess` turns the condition of the loop
  is false.
- `markdownToTextLines`. `LinesAtAreGood`: what comes out at a source line, together with the rows of a table
  that are still pending (`Pending`), is what the source line holds and what was pending before. Dropping
  the blank lines at the end loses nothing (`GoodLines`): a line of length 0 shows nothing, and a heading,
  item or row that shows something has a length.
- `parseMarkdownParts`. `SearchKeepsUp`: behind every block that the search has found, the reader of
  `Meaning` is between two blocks (`Between`), with the search's parts as its pieces. From one block to the next
  the reader takes in text (`TextIsRead`), the block (`BlockIsRead`) and its end (`BlockEnds`); what is behind
  the last block is text even where a block opens that has no end (`RestIsText`).
- `imageBufferToEscPos`. The dots of a row go through a division by 8 twice: the code packs dot `x` into
  byte `x \div 8`, bit `7 - x % 8`, and the printer takes it out again. That no other dot comes to the same
  place is the lemma `OneQuotient`: quotient and remainder of a number are unique; `BitsOfARow` and
  `BytesOfARow` apply it to the bits of a byte and to the bytes of a band, and `BandPrinted` puts them together.
  `BandsCover` is that the loop's last turn is the one that reaches the last row.

The assumptions on widths and lengths are needed: a length of 65 533 makes `storeLength` 65 536, whose two
bytes are 0.

### The Linux client

`LinuxWriterProofs`, for every size of chunks and payloads (`WriterAssumption`):

| Theorem | States |
|---|---|
| `TypeCorrect` | `Spec => []TypeOK` |
| `FailedPortIsClosed` | `Spec => []NoStaleHandle` |
| `ImplementsPayloadBridge` | `Spec => BridgeSpec`, that is `PayloadBridge` |

`TypeOK` is inductive together with `PayloadInHand` (what remains of a payload is no longer than a
payload), which the refinement needs because `PayloadBridge` prints at most a payload in one step. The
mapping gives up the rest of a payload as soon as it can no longer be written: when the loop is left, or
the port has gone stale. A step is then a write of `k` bytes (`WritesAreBridged`), a payload given up
(`GivingUpIsBridged`), an arrival, or a stutter.

### The ESP32 and ESP8266 clients

`ArduinoBridgeProofs`, for every period of `millis`, interval, chunk and payload size under
`ArduinoAssumption`, both targets:

| Theorem | States |
|---|---|
| `TypeCorrect` | `Spec => []TypeOK` |
| `ReconnectsInTime` | `Spec => []TriedInTime` |
| `PayloadsCutForAReason` | `Spec => CutForAReason` |
| `ImplementsBridge` | `Spec => BridgeSpec`, that is `PayloadBridge` |

`TriedInTime` is about true time, the program sees only the difference of two wrapping counters. The
invariant `AgeCovers` relates them: the time for which the loop has seen MQTT down is at most the
difference, and after a check that made no attempt the difference is within the interval for the rest of the turn. So it
cannot pass a whole period between two checks, which is where the assumption on the period is
needed. The refinement needs `OnePayload` (what remains to be written is part of one payload), as on Linux.

### What is only model-checked

Liveness, which is out of the prover's reach: `EveryJobLeaves`, `EveryCallSettles`,
`EveryRequestAnswered`, `EveryByteSent`, `ConnectionComesBack`, `BytesAreFlushed`, `AllComesBack`. Every
invariant and action property of a passing run, and every refinement, is a theorem. The
findings are counterexamples that TLC found.

## Not modelled

- Rendering: the regular expressions that classify a source line or strip inline markdown
  (`stripInlineMarkdown`), the wording of a task list, the receiptline mode; scaling and decoding of images
  and fonts are sharp's and receiptline's, outside the repository.
- Server: the contents of answers (`queueSnapshot`, `printerStatus`, `mcpTools`) beyond their outcome;
  express's parsing of bodies.
- Docker, Mosquitto and systemd have configuration only. The setup scripts run once.
- Clients: configuration strings, logging, TLS and NTP set-up, paho's own reconnection. What is published
  while a client is away does not reach it (all ask for a clean session), and the models of the clients
  begin with what arrives.

## Plan

Done, most important first: the queue, the publisher, the Pico's buffer and transports, the connections of
all clients, the server as its callers see it, rendering, the Pico's main loop, and the proofs above, which
state every safety property that the runs check. Next, if the code grows: the classification of source
lines, once it is more than regular expressions.
