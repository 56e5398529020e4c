----------------------------- MODULE PrintServer -----------------------------
(***************************************************************************)
(* server/app.js as its callers see it: the routes POST /print, POST       *)
(* /preview, GET and DELETE /queue, GET /health and /mcp, with the print   *)
(* queue behind them (lines 62-74, 312-344, 661-669, 707-721, 772-784,     *)
(* 968-1188, 1194-1304).                                                   *)
(*                                                                         *)
(* A request is handled in one callback up to its first await, which is    *)
(* the rendering of its content, and from there to the next, the direct    *)
(* publish.  Meanwhile other requests, the queue's worker and the MQTT     *)
(* client's events run.  A publish is here what PublishEscPos shows of     *)
(* it: resolved, it has put the whole payload on the topic; rejected,      *)
(* nothing, a part or, if only the last acknowledgement was missing, all.  *)
(* The server may be restarted at any time.                                *)
(***************************************************************************)
EXTENDS PrintQueue

CONSTANTS
    Requests,           \* the requests that are made
    Messages,           \* for each of them, what it may be
    AllowTopicOverride, \* ALLOW_TOPIC_OVERRIDE
    MaxRestarts         \* bound: how often the server is restarted

ASSUME ServerAssumption == AllowTopicOverride \in BOOLEAN /\ MaxRestarts \in Nat

VARIABLES
    request,            \* each request: where it is, its message and its answer
    copies,             \* what of each request's payload is on the topic, in order
    lost,               \* history variable: the jobs that a restart has cost
    restarts

serverVars == <<request, copies, lost, restarts>>

allVars == <<vars, serverVars>>

NoRequest == [pc |-> "new"]

-----------------------------------------------------------------------------
(* The checks that come before a handler.                                   *)

\* requireApiToken: a bearer token, if there is one, hides the other places.
Authorised(m) == (IF m.bearer # "none" THEN m.bearer ELSE m.key) = "right"

\* validateMcpOrigin
OriginAllowed(m) == m.origin \in {"none", "same_host", "listed"}

\* validMcpProtocolVersion
VersionKnown(m) == m.version \in {"none", "known"}

\* accepts, as each of the three /mcp routes asks it.
Acceptable(m) ==
    CASE m.verb = "POST" -> {"json", "events"} \subseteq m.accept
      [] m.verb = "GET" -> "events" \in m.accept
      [] m.verb = "DELETE" -> TRUE

\* The status with which /mcp turns a message away before it looks at its body, or 0.
McpRefusal(m) ==
    CASE ~OriginAllowed(m) -> 403
      [] OriginAllowed(m) /\ ~Authorised(m) -> 401
      [] OriginAllowed(m) /\ Authorised(m) /\ ~VersionKnown(m) -> 400
      [] OriginAllowed(m) /\ Authorised(m) /\ VersionKnown(m) ->
            IF ~Acceptable(m) THEN 406 ELSE IF m.verb # "POST" THEN 405 ELSE 0

-----------------------------------------------------------------------------
(* What a request asks for.                                                 *)

\* normalisePayload: the field of a body that is printed, by the fields it has; a body
\* that is text is its own markdown, and a body with a qr or an image needs no other.
normalisePayload(fields) ==
    LET found == SelectSeq(<<"body", "markdown", "text", "tasks">>, LAMBDA f : f \in fields)
    IN  IF found # <<>> THEN Head(found)
        ELSE IF fields \cap {"qr", "image"} # {} THEN "" ELSE "unsupported"

\* The same for the arguments of a tool, where tasks come first.
markdownFromToolArgs(fields) ==
    LET found == SelectSeq(<<"tasks", "markdown", "text">>, LAMBDA f : f \in fields)
    IN  IF found # <<>> THEN Head(found)
        ELSE IF fields \cap {"qr", "image"} # {} THEN "" ELSE "unsupported"

\* Raw data that are not blank, in an encoding that is known, base64 if none is named.
decodeRawEscPos(work) == work.data # "blank" /\ work.encoding \in {"none", "base64", "hex"}

\* What is done for a message: an operation, or the outcome it is answered with at once.
\* callMcpTool; data without a digit of their encoding decode to nothing.
ToolOperation(b) ==
    CASE b.tool \in {"printReceipt", "previewReceipt"} ->
            IF markdownFromToolArgs(b.work.fields) = "unsupported" THEN "error"
            ELSE IF b.tool = "printReceipt" THEN "print" ELSE "preview"
      [] b.tool = "publishEscPos" ->
            IF /\ decodeRawEscPos(b.work) /\ b.work.data # "no_digits"
               /\ b.work.topic = "default" \/ AllowTopicOverride
            THEN "publish"
            ELSE "error"
      [] b.tool = "cancelQueuedPrint" -> IF b.work.target = NoJob THEN "error" ELSE "cancel"
      [] b.tool \in {"listPrintQueue", "getPrinterStatus"} -> "ok"
      [] b.tool \in {"none", "unknown"} -> "error"

\* handleMcpRequest
RpcOperation(b) ==
    CASE ~b.jsonrpc -> "error"
      [] b.jsonrpc /\ ~b.id /\ b.method = "notifications/" -> "none"
      [] b.jsonrpc /\ b.method \in {"initialize", "ping", "tools/list"} -> "ok"
      [] b.jsonrpc /\ b.method = "tools/call" -> ToolOperation(b)
      [] OTHER -> "error"

\* The kinds of JSON-RPC messages.
HasMethod(b) == b.form = "message" /\ b.method # "none"
isJsonRpcRequest(b) == HasMethod(b) /\ b.id
isJsonRpcNotification(b) == HasMethod(b) /\ ~b.id
isJsonRpcResponse(b) == b.form = "message" /\ b.method = "none" /\ b.id /\ b.result

\* POST /mcp: a batch, a response, a message to handle, or something that is no message.
PostOperation(b) ==
    CASE b.form = "batch" -> "error"
      [] isJsonRpcResponse(b) -> "none"
      [] isJsonRpcRequest(b) \/ isJsonRpcNotification(b) -> RpcOperation(b)
      [] OTHER -> "error"

Operation(m) ==
    CASE m.route = "health" -> "ok"
      [] m.route = "mcp" -> IF McpRefusal(m) # 0 THEN "refused" ELSE PostOperation(m.body)
      [] m.route \notin {"health", "mcp"} /\ ~Authorised(m) -> "refused"
      [] m.route = "queue" /\ Authorised(m) -> "ok"
      [] m.route = "cancel" /\ Authorised(m) -> "cancel"
      [] m.route \in {"print", "preview"} /\ Authorised(m) ->
            IF normalisePayload(m.work.fields) = "unsupported" THEN "error" ELSE m.route

\* Content, schedule and topic of a message that is carried out.
Work(m) == IF m.route = "mcp" THEN m.body.work ELSE m.work

\* scheduleOptionsFromRequest takes a queue that is the text "true", the tools do not.
AsksForQueue(m) ==
    Work(m).queue = "yes" \/ (Work(m).queue = "text" /\ m.route = "print")

IsLater(m) == Work(m).when \in {"later", "never"}

-----------------------------------------------------------------------------
(* Answers.                                                                 *)

\* The status of an answer with this outcome.  /mcp answers a message without an id 202
\* if there is nothing to say, and else 400, whatever it is.
StatusOf(m, outcome) ==
    CASE outcome = "refused" -> IF m.route = "mcp" THEN McpRefusal(m) ELSE 401
      [] outcome = "none" -> 202
      [] m.route = "mcp" /\ outcome \notin {"refused", "none"} ->
            IF isJsonRpcRequest(m.body) THEN 200 ELSE 400
      [] OTHER -> CASE outcome = "error" -> 400
                    [] outcome = "not_found" -> 404
                    [] outcome = "unavailable" -> 503
                    [] outcome \in {"ok", "queued"} -> 200

\* The answer to a message; job is the one it has put into the queue or taken from it.
\* For the properties it is kept what was asked for, whether the message itself is a
\* reason to fail (raw data are not rendered), and whether it is a JSON-RPC message
\* without an id.
Sound(m) == (Operation(m) = "publish" \/ Work(m).renders) /\ Work(m).when = "now"

AnswerTo(m, outcome, job) ==
    [pc |-> "answered", outcome |-> outcome, status |-> StatusOf(m, outcome), job |-> job,
     operation |-> Operation(m), sound |-> outcome = "error" => Sound(m),
     hasId |-> m.route = "mcp" => m.body.id]

Answer(r, m, outcome, job) ==
    request' = [request EXCEPT ![r] = AnswerTo(m, outcome, job)]

Waits(r, m, pc) == request' = [request EXCEPT ![r] = [pc |-> pc, message |-> m]]

-----------------------------------------------------------------------------
(* The handlers.                                                            *)

\* publishOrQueueEscPos for a request whose bytes are there.
PublishOrQueue(r, m) ==
    LET queued == AsksForQueue(m) \/ IsLater(m)
        full == Len(printQueue) >= MaxJobs
    IN  \/ /\ Work(m).when = "invalid" \/ (queued /\ full)
           /\ Answer(r, m, "error", NoJob)
           /\ UNCHANGED vars
        \/ /\ Work(m).when = "never" /\ ~full
           /\ Answer(r, m, "error", NoJob)
           /\ EnqueueThrows
        \/ /\ Work(m).when \in {"now", "later"} /\ queued
           /\ Enqueue(IF IsLater(m) THEN Cap(now + ScheduleSlack + 1) ELSE now, TRUE)
           /\ Answer(r, m, "queued", queueSequence')
        \/ /\ Work(m).when = "now" /\ ~queued /\ ~mqttConnected
           /\ Answer(r, m, IF m.route = "print" THEN "unavailable" ELSE "error", NoJob)
           /\ UNCHANGED vars
        \/ /\ Work(m).when = "now" /\ ~queued /\ mqttConnected
           /\ Waits(r, m, "publishing")
           /\ UNCHANGED vars

\* A request comes in and is handled up to its first await, or to its end.
Receive(r, m) ==
    /\ request[r].pc = "new"
    /\ \/ /\ Operation(m) \in {"refused", "error", "none", "ok"}
          /\ Answer(r, m, Operation(m), NoJob)
          /\ UNCHANGED vars
       \/ /\ Operation(m) \in {"print", "preview"}
          /\ Waits(r, m, "composing")
          /\ UNCHANGED vars
       \/ /\ Operation(m) = "publish"
          /\ PublishOrQueue(r, m)
       \/ /\ Operation(m) = "cancel" /\ Work(m).target \notin Queued
          /\ Answer(r, m, IF m.route = "mcp" THEN "error" ELSE "not_found", NoJob)
          /\ UNCHANGED vars
       \/ /\ Operation(m) = "cancel"
          /\ CancelQueuedJob(Work(m).target)
          /\ Answer(r, m, "ok", Work(m).target)
    /\ UNCHANGED <<copies, lost, restarts>>

\* resolvePublishTopic: POST /print has no topic of its own.
TopicAllowed(m) == m.route # "mcp" \/ Work(m).topic = "default" \/ AllowTopicOverride

\* The content of a message is rendered, or cannot be; then a preview is answered, and a
\* print job has its topic resolved and goes on.
\* Mutant: the rendering is awaited outside of the try block.
ComposedOutsideTry(r) ==
    LET m == request[r].message
    IN  /\ request[r].pc = "composing" /\ Work(m).renders
        /\ IF Operation(m) = "preview" THEN Answer(r, m, "ok", NoJob) /\ UNCHANGED vars
           ELSE IF TopicAllowed(m) THEN PublishOrQueue(r, m)
           ELSE Answer(r, m, "error", NoJob) /\ UNCHANGED vars
        /\ UNCHANGED <<copies, lost, restarts>>

Composed(r) ==
    LET m == request[r].message
    IN  /\ request[r].pc = "composing"
        /\ \/ /\ ~Work(m).renders \/ (Operation(m) = "print" /\ ~TopicAllowed(m))
              /\ Answer(r, m, "error", NoJob)
              /\ UNCHANGED vars
           \/ /\ Work(m).renders /\ Operation(m) = "preview"
              /\ Answer(r, m, "ok", NoJob)
              /\ UNCHANGED vars
           \/ /\ Work(m).renders /\ Operation(m) = "print" /\ TopicAllowed(m)
              /\ PublishOrQueue(r, m)
        /\ UNCHANGED <<copies, lost, restarts>>

\* What a publish that does not succeed may leave on the topic.
Remains(before) == {before, Append(before, "cut"), Append(before, "whole")}

\* Mutant: a publish that fails is answered like one that was never tried.
DirectRejectsAsUnavailable(r) ==
    /\ request[r].pc = "publishing"
    /\ \E c \in Remains(copies[r]) : copies' = [copies EXCEPT ![r] = c]
    /\ Answer(r, request[r].message, "unavailable", NoJob)
    /\ UNCHANGED <<vars, lost, restarts>>

\* The publish a request awaits is settled.
DirectRejects(r) ==
    /\ request[r].pc = "publishing"
    /\ \E c \in Remains(copies[r]) : copies' = [copies EXCEPT ![r] = c]
    /\ Answer(r, request[r].message, "error", NoJob)
    /\ UNCHANGED <<vars, lost, restarts>>

DirectResolves(r) ==
    /\ request[r].pc = "publishing"
    /\ copies' = [copies EXCEPT ![r] = Append(@, "whole")]
    /\ Answer(r, request[r].message, "ok", NoJob)
    /\ UNCHANGED <<vars, lost, restarts>>

-----------------------------------------------------------------------------
(* The queue behind them.                                                   *)

\* The requests whose answer says that a job is queued.
Acknowledged == {r \in Requests : request[r].pc = "answered" /\ request[r].outcome = "queued"}

\* The request whose payload the worker is publishing.
IsInFlight(r) == r \in Acknowledged /\ request[r].job = inFlight

WorkerResolves ==
    /\ PublishResolves
    /\ copies' = [r \in Requests |-> IF IsInFlight(r) THEN Append(copies[r], "whole")
                                     ELSE copies[r]]
    /\ UNCHANGED <<request, lost, restarts>>

WorkerRejects ==
    /\ PublishRejects
    /\ \E r \in Requests :
          /\ IsInFlight(r)
          /\ \E c \in Remains(copies[r]) : copies' = [copies EXCEPT ![r] = c]
    /\ UNCHANGED <<request, lost, restarts>>

Unasked(action) == action /\ UNCHANGED serverVars

\* The process is stopped, at any point, and started again: the queue, its history and
\* every request that waits are gone.  A publish on its way leaves what a failed one does.
\* The ids of the new process have another time in them, so that none is used twice.
Restart ==
    LET waiting == {r \in Requests : request[r].pc \in {"composing", "publishing"}}
        sending == {r \in waiting : request[r].pc = "publishing"}
                   \cup {r \in Requests : inFlight # NoJob /\ IsInFlight(r)}
    IN  /\ restarts < MaxRestarts
        /\ restarts' = restarts + 1
        /\ mqttConnected' = FALSE
        /\ printQueue' = <<>> /\ printQueueHistory' = <<>>
        /\ queueTimer' = NoTimer
        /\ queueProcessing' = FALSE /\ inFlight' = NoJob
        /\ UNCHANGED <<now, jobs, queueSequence, finished>>
        /\ lost' = lost \cup Queued
        /\ request' = [r \in Requests |->
                IF r \in waiting THEN [request[r] EXCEPT !.pc = "lost"] ELSE request[r]]
        /\ \E left \in [sending -> {<<>>, <<"cut">>, <<"whole">>}] :
              copies' = [r \in Requests |->
                  IF r \in sending THEN copies[r] \o left[r] ELSE copies[r]]

ServerInit ==
    /\ Init
    /\ request = [r \in Requests |-> NoRequest]
    /\ copies = [r \in Requests |-> <<>>]
    /\ lost = {}
    /\ restarts = 0

RequestStep(r) ==
    \/ \E m \in Messages[r] : Receive(r, m)
    \/ Composed(r)
    \/ DirectResolves(r)
    \/ DirectRejects(r)

ServerNext ==
    \/ \E r \in Requests : RequestStep(r)
    \/ WorkerResolves
    \/ WorkerRejects
    \/ Unasked(Tick)
    \/ Unasked(MqttConnects)
    \/ Unasked(MqttCloses)
    \/ Unasked(TimerFires)
    \/ Restart

\* As in CalmSpec, the job in flight is neither displaced nor cancelled.  Rendering ends;
\* the MQTT client settles a publish while it has a connection.
ServerFairness ==
    /\ WF_allVars(Unasked(Tick))
    /\ WF_allVars(Unasked(TimerFires))
    /\ WF_allVars(mqttConnected /\ (WorkerResolves \/ WorkerRejects))
    /\ \A r \in Requests :
          /\ WF_allVars(Composed(r) /\ Calm')
          /\ WF_allVars(mqttConnected /\ (DirectResolves(r) \/ DirectRejects(r)))

ServerSpec == ServerInit /\ [][ServerNext /\ Calm']_allVars /\ ServerFairness

-----------------------------------------------------------------------------
(* Properties.                                                              *)

Answered(r) == request[r].pc = "answered"

\* The caller can tell from the answer what was done.  A status that says "not now" or
\* "not you" (202, 401, 403, 404, 405, 406, 503) means that nothing was printed or queued;
\* a print that is answered as done is on the topic once and whole; of a print that is
\* answered as failed there is at most one copy, and none if it is an HTTP 400 that the
\* caller's own message is the reason for; and a 400 to something that was printed or
\* queued is given to a message without an id only (lines 1221-1239, 1265-1289).
AnswerTellsEffect ==
    \A r \in Requests : Answered(r) =>
        LET a == request[r]
            prints == a.operation \in {"print", "publish"}
        IN  /\ a.status \in {202, 401, 403, 404, 405, 406, 503} =>
                  copies[r] = <<>> /\ a.outcome # "queued"
            /\ ~prints => copies[r] = <<>>
            /\ prints /\ a.outcome = "ok" => copies[r] = <<"whole">>
            /\ a.outcome = "error" =>
                  Len(copies[r]) <= 1 /\ (copies[r] # <<>> => a.sound)
            /\ a.status = 400 /\ a.outcome \in {"ok", "queued"} => ~a.hasId

\* A job that a caller was told is queued is not forgotten: it is pending, was published
\* whole, was cancelled by a request that was told so, or was lost in a restart, where it
\* was in memory only (lines 114-118); and no other jobs exist.
AcknowledgedJobsKept ==
    /\ DOMAIN jobs = {request[r].job : r \in Acknowledged}
    /\ \A r \in Acknowledged :
          LET id == request[r].job
          IN  \/ id \in Queued \cup lost
              \/ id \in Finished("published") /\ "whole" \in ToSet(copies[r])
              \/ /\ id \in Finished("cancelled")
                 /\ \E s \in Requests : Answered(s) /\ request[s].outcome = "ok"
                                        /\ request[s].job = id

\* What a queued job has put on the topic: nothing before it is due, no more copies than
\* attempts, and whole in the end if it was published, with nothing after that.  A retry
\* begins again at the first byte, so "cut" copies before the whole one are what the code
\* does, and only their number is bounded (lines 240-275).
CopiesMatchAttempts ==
    \A r \in Acknowledged :
        LET id == request[r].job
            c == copies[r]
        IN  /\ jobs[id].runAt > now => c = <<>>
            /\ Len(c) <= jobs[id].attempts
            /\ id \in Queued /\ id # inFlight /\ jobs[id].attempts = 0 => c = <<>>
            /\ id \in Finished("published") => c # <<>> /\ Last(c) = "whole"

\* If the broker can be reached in the end, every request that waits for its content or
\* for a publish is answered, unless the server is restarted first.
EveryRequestAnswered ==
    <>[]mqttConnected =>
        \A r \in Requests :
            request[r].pc \in {"composing", "publishing"} ~>
                request[r].pc \in {"answered", "lost"}

=============================================================================
