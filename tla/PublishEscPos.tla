---------------------------- MODULE PublishEscPos ----------------------------
(***************************************************************************)
(* publishEscPos of server/app.js (lines 671-705): a job's bytes go out as *)
(* a chain of QoS 1 MQTT messages, the next one published from the         *)
(* callback of the one before.  Several calls can be under way at once:    *)
(* every HTTP request and MCP tool call that prints directly, and the      *)
(* worker of the print queue.                                              *)
(*                                                                         *)
(* The MQTT client and the broker are external and modelled from how       *)
(* app.js uses them: a QoS 1 message stays with the client until the       *)
(* broker acknowledges it, and is sent again after every reconnection.     *)
(* A message is the range of the bytes it carries.                         *)
(***************************************************************************)
EXTENDS Integers, Sequences, FiniteSets, SequencesExt

CONSTANTS
    Calls,              \* the calls of publishEscPos
    ChunkBytes,         \* MQTT_PUBLISH_CHUNK_BYTES; not positive: one message
    MaxLength,          \* bound: the longest payload
    MaxDrops            \* bound: how often the connection is lost

ASSUME PublishAssumption ==
    ChunkBytes \in Int /\ MaxLength \in Nat /\ MaxDrops \in Nat

VARIABLES
    linked,             \* the client has a connection to the broker
    mqttConnected,      \* the flag the connect and close handlers keep
    drops,              \* how often the connection was lost
    call,               \* each call: its state, payload length, offset, chunks
    outbox,             \* messages of the client without PUBACK, oldest first
    topic               \* every message the broker took, in order

vars == <<linked, mqttConnected, drops, call, outbox, topic>>

NaN == -1               \* 0 / 0
Lengths == 0 .. MaxLength

State == {"new", "refused", "awaiting", "resolved", "rejected"}
Call == [state : State, length : Lengths, offset : Lengths, chunks : Nat \cup {NaN}]
Chunk == [call : Calls, from : Lengths, to : Lengths]
Message == [chunk : Chunk, sent : BOOLEAN]

ChunkSize(length) == IF ChunkBytes > 0 THEN ChunkBytes ELSE length

\* Math.max(1, Math.ceil(length / chunkSize)), where 0 / 0 is NaN.
Chunks(length) ==
    IF ChunkSize(length) = 0 THEN NaN
    ELSE IF length = 0 THEN 1
    ELSE (length + ChunkSize(length) - 1) \div ChunkSize(length)

\* Mutant: the offset moves on by the chunk size, past the end or not.
NextOffsetUncut(offset, length) == offset + ChunkSize(length)

NextOffset(offset, length) ==
    IF offset + ChunkSize(length) < length THEN offset + ChunkSize(length) ELSE length

-----------------------------------------------------------------------------

\* Mutant: the next chunk starts one byte too late.
publishNextSkips(c, length, offset, box) ==
    LET to == NextOffset(offset, length)
        at(state, o) == [state |-> state, length |-> length, offset |-> o,
                         chunks |-> Chunks(length)]
    IN  \/ /\ offset >= length
           /\ call' = [call EXCEPT ![c] = at("resolved", offset)]
           /\ outbox' = box
        \/ /\ offset < length
           /\ call' = [call EXCEPT ![c] = at("awaiting", IF to < length THEN to + 1 ELSE to)]
           /\ outbox' = Append(box, [chunk |-> [call |-> c, from |-> offset, to |-> to],
                                     sent |-> FALSE])

\* Mutant: the last chunk, if it is not a full one, is not published.
publishNextFullChunks(c, length, offset, box) ==
    LET to == NextOffset(offset, length)
        at(state, o) == [state |-> state, length |-> length, offset |-> o,
                         chunks |-> Chunks(length)]
    IN  \/ /\ offset + ChunkSize(length) > length
           /\ call' = [call EXCEPT ![c] = at("resolved", offset)]
           /\ outbox' = box
        \/ /\ offset + ChunkSize(length) <= length
           /\ call' = [call EXCEPT ![c] = at("awaiting", to)]
           /\ outbox' = Append(box, [chunk |-> [call |-> c, from |-> offset, to |-> to],
                                     sent |-> FALSE])

\* publishNext for a call that is at the offset: the promise resolves at the end of
\* the payload, or the next chunk is handed to the client, whose other messages are
\* in box.
publishNext(c, length, offset, box) ==
    LET to == NextOffset(offset, length)
        at(state, o) == [state |-> state, length |-> length, offset |-> o,
                         chunks |-> Chunks(length)]
    IN  \/ /\ offset >= length
           /\ call' = [call EXCEPT ![c] = at("resolved", offset)]
           /\ outbox' = box
        \/ /\ offset < length
           /\ call' = [call EXCEPT ![c] = at("awaiting", to)]
           /\ outbox' = Append(box, [chunk |-> [call |-> c, from |-> offset, to |-> to],
                                     sent |-> FALSE])

\* publishEscPos is called while the broker is connected, as far as the server knows.
Publish(c, length) ==
    /\ call[c].state = "new"
    /\ mqttConnected
    /\ publishNext(c, length, 0, outbox)
    /\ UNCHANGED <<linked, mqttConnected, drops, topic>>

\* It throws otherwise.
Refuse(c, length) ==
    /\ call[c].state = "new"
    /\ ~mqttConnected
    /\ call' = [call EXCEPT ![c].state = "refused", ![c].length = length]
    /\ UNCHANGED <<linked, mqttConnected, drops, outbox, topic>>

\* Mutant: the chain goes on only if the server thinks it is connected.
AcknowledgeChecked(i) ==
    LET c == outbox[i].chunk.call
    IN  /\ linked
        /\ outbox[i].sent
        /\ IF mqttConnected
           THEN publishNext(c, call[c].length, call[c].offset, RemoveAt(outbox, i))
           ELSE outbox' = RemoveAt(outbox, i) /\ UNCHANGED call
        /\ UNCHANGED <<linked, mqttConnected, drops, topic>>

\* The callback of a message is called without an error, on its PUBACK.
Acknowledge(i) ==
    LET c == outbox[i].chunk.call
    IN  /\ linked
        /\ outbox[i].sent
        /\ publishNext(c, call[c].length, call[c].offset, RemoveAt(outbox, i))
        /\ UNCHANGED <<linked, mqttConnected, drops, topic>>

\* Mutant: no return after reject, the chain goes on.
FailAndGoOn(i) ==
    LET c == outbox[i].chunk.call
        o == call[c].offset
    IN  /\ call[c].offset < call[c].length
        /\ call' = [call EXCEPT ![c].state = "rejected",
                                ![c].offset = NextOffset(o, call[c].length)]
        /\ outbox' = Append(RemoveAt(outbox, i),
                            [chunk |-> [call |-> c, from |-> o,
                                        to |-> NextOffset(o, call[c].length)],
                             sent |-> FALSE])
        /\ UNCHANGED <<linked, mqttConnected, drops, topic>>

\* The callback of a message is called with an error: the client gives it up.
Fail(i) ==
    LET c == outbox[i].chunk.call
    IN  /\ call' = [call EXCEPT ![c].state = "rejected"]
        /\ outbox' = RemoveAt(outbox, i)
        /\ UNCHANGED <<linked, mqttConnected, drops, topic>>

\* The client sends its messages in order, and the broker takes each.
Send(i) ==
    /\ linked
    /\ ~outbox[i].sent
    /\ \A j \in 1 .. i - 1 : outbox[j].sent
    /\ outbox' = [outbox EXCEPT ![i].sent = TRUE]
    /\ topic' = Append(topic, outbox[i].chunk)
    /\ UNCHANGED <<linked, mqttConnected, drops, call>>

Link ==
    /\ ~linked
    /\ linked' = TRUE
    /\ UNCHANGED <<mqttConnected, drops, call, outbox, topic>>

\* The 'connect' event: the client may have sent messages again before it.
ConnectEvent ==
    /\ linked /\ ~mqttConnected
    /\ mqttConnected' = TRUE
    /\ UNCHANGED <<linked, drops, call, outbox, topic>>

\* The connection is lost, and with it the PUBACKs under way: what the broker took
\* and the client did not hear of will be sent again.
CloseEvent ==
    /\ linked
    /\ drops < MaxDrops
    /\ drops' = drops + 1
    /\ linked' = FALSE
    /\ mqttConnected' = FALSE
    /\ outbox' = [i \in DOMAIN outbox |-> [outbox[i] EXCEPT !.sent = FALSE]]
    /\ UNCHANGED <<call, topic>>

Init ==
    /\ linked = FALSE
    /\ mqttConnected = FALSE
    /\ drops = 0
    /\ call = [c \in Calls |-> [state |-> "new", length |-> 0, offset |-> 0, chunks |-> 0]]
    /\ outbox = <<>>
    /\ topic = <<>>

Next ==
    \/ \E c \in Calls, length \in Lengths : Publish(c, length) \/ Refuse(c, length)
    \/ \E i \in DOMAIN outbox : Acknowledge(i) \/ Fail(i) \/ Send(i)
    \/ Link
    \/ ConnectEvent
    \/ CloseEvent

Spec == Init /\ [][Next]_vars

\* While there is a connection the client sends and the broker acknowledges.  A
\* message may also fail at any time; nobody has to call, or to connect.
FairSpec ==
    /\ Spec
    /\ WF_vars(\E i \in DOMAIN outbox : Send(i))
    /\ \A c \in Calls : WF_vars(\E i \in DOMAIN outbox :
                                   outbox[i].chunk.call = c /\ Acknowledge(i))

-----------------------------------------------------------------------------
(* Properties.                                                             *)

\* The variables have their types.
TypeOK ==
    /\ linked \in BOOLEAN
    /\ mqttConnected \in BOOLEAN
    /\ drops \in 0 .. MaxDrops
    /\ call \in [Calls -> Call]
    /\ outbox \in Seq(Message)
    /\ topic \in Seq(Chunk)

\* However the calls interleave and however often a message is sent again, a
\* subscriber that drops a repeated message can put a payload together: the messages
\* of a call come in order, without a gap or an overlap, none larger than a chunk.
Reassembly ==
    /\ \A i \in DOMAIN topic :
          /\ topic[i].from < topic[i].to
          /\ topic[i].to - topic[i].from <= ChunkSize(call[topic[i].call].length)
          /\ \/ topic[i].from = 0
             \/ \E j \in 1 .. i - 1 : /\ topic[j].call = topic[i].call
                                      /\ topic[j].to = topic[i].from
    /\ \A i, j \in DOMAIN topic :
          i < j /\ topic[i].call = topic[j].call =>
              topic[i] = topic[j] \/ topic[i].to <= topic[j].from

\* A call that resolved has put its whole payload on the topic, in as many messages
\* as it reports (a call without bytes reports one, or NaN, and publishes none).
ResolvedIsComplete ==
    \A c \in Calls :
        call[c].state = "resolved" /\ call[c].length > 0 =>
            LET mine == {m \in {topic[i] : i \in DOMAIN topic} : m.call = c}
            IN  /\ \E m \in mine : m.to = call[c].length
                /\ Cardinality(mine) = call[c].chunks

\* A call waits for one message at a time, and none is left when it has settled: a
\* rejected payload does not go on behind the error.
OneMessageAwaited ==
    \A c \in Calls :
        Cardinality({i \in DOMAIN outbox : outbox[i].chunk.call = c}) =
            IF call[c].state = "awaiting" THEN 1 ELSE 0

\* If the connection stays up in the end, every call that was accepted settles.
EveryCallSettles ==
    <>[]linked => \A c \in Calls : call[c].state = "awaiting" ~> call[c].state # "awaiting"

-----------------------------------------------------------------------------
(* What the documentation says and Spec does not keep.                     *)

\* "One print job may arrive as multiple MQTT messages on the same topic.  Write each
\* payload to the printer in arrival order": nothing of another job arrives between
\* two messages of a job (publishEscPos does not wait for another call to settle).
JobsContiguous ==
    \A i, j, k \in DOMAIN topic :
        i < j /\ j < k /\ topic[i].call = topic[k].call => topic[j].call = topic[i].call

=============================================================================
