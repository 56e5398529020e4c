--------------------------- MODULE MCPrintServer ---------------------------
(* PrintServer with three requests.  The first may be any of the messages  *)
(* below; the second queues, the third cancels.                            *)
EXTENDS PrintServer, TLC

CONSTANTS r1, r2, r3

MCRequests == {r1, r2, r3}

PlainWork == [fields |-> {"markdown"}, renders |-> TRUE, data |-> "bytes", encoding |-> "none",
              when |-> "now", queue |-> "no", topic |-> "default", target |-> NoJob]

Http(route, changed) ==
    [route |-> route, bearer |-> "right", key |-> "none", work |-> changed @@ PlainWork]

Message(changed) ==
    changed @@ [form |-> "message", jsonrpc |-> TRUE, id |-> TRUE, method |-> "tools/call",
                result |-> FALSE, tool |-> "none", work |-> PlainWork]

Mcp(changed, body) ==
    changed @@ [route |-> "mcp", verb |-> "POST", origin |-> "none", bearer |-> "right",
                key |-> "none", version |-> "none", accept |-> {"json", "events"},
                body |-> body]

Tool(name, id, changed) ==
    Mcp(<<>>, Message([tool |-> name, id |-> id, work |-> changed @@ PlainWork]))

PrintTool == Message([tool |-> "printReceipt"])

\* Content, schedules and topics that lead to different ends.
Works ==
    {[fields |-> f] : f \in {{}, {"qr"}, {"tasks", "text"}}}
    \cup {[renders |-> FALSE]}
    \cup {[when |-> w] : w \in {"now", "later", "never", "invalid"}}
    \cup {[queue |-> q] : q \in {"yes", "text"}}

\* Tokens and headers that are turned away are tried on what would print, the others on
\* what does not, as they make no difference afterwards.
WrongTokens ==
    {[bearer |-> "wrong", key |-> k] : k \in {"none", "right", "wrong"}}
    \cup {[bearer |-> "none", key |-> k] : k \in {"none", "wrong"}}

HttpMessages ==
    {Http("print", w) : w \in Works}
    \cup {Http("preview", w) : w \in {[fields |-> {}], [renders |-> FALSE], [renders |-> TRUE]}}
    \cup {t @@ Http("print", <<>>) : t \in WrongTokens}
    \cup {[bearer |-> "none"] @@ Http(route, <<>>) : route \in {"health", "queue"}}
    \cup {[bearer |-> "none", key |-> "right"] @@ Http("queue", <<>>)}
    \cup {Http("cancel", [target |-> 1])}

WrongHeaders ==
    {[origin |-> "foreign"], [version |-> "unknown"], [key |-> "right", bearer |-> "wrong"]}
    \cup {[accept |-> a] : a \in {{"json"}, {"events"}}}

RightHeaders ==
    {[origin |-> o] : o \in {"same_host", "listed"}}
    \cup {[version |-> "known"], [key |-> "right", bearer |-> "none"]}

Bodies ==
    {Message([form |-> f]) : f \in {"batch", "junk"}}
    \cup {Message([method |-> "none", id |-> i, result |-> v]) : i, v \in BOOLEAN}
    \cup {Message([method |-> n, id |-> i]) :
            n \in {"notifications/", "ping", "unknown"}, i \in BOOLEAN}
    \cup {Message([jsonrpc |-> FALSE])}

McpMessages ==
    {Mcp(h, PrintTool) : h \in WrongHeaders}
    \cup {Mcp(h, Message([method |-> "ping"])) : h \in RightHeaders}
    \cup {Mcp([verb |-> v] @@ h, PrintTool) : v \in {"GET", "DELETE"},
              h \in {[version |-> "known"], [accept |-> {}], [origin |-> "foreign"]}}
    \cup {Mcp(<<>>, b) : b \in Bodies}
    \cup {Tool("printReceipt", TRUE, w) : w \in Works \cup {[topic |-> "other"]}}
    \cup {Tool("printReceipt", FALSE, w) : w \in {[when |-> "now"], [when |-> "later"]}}
    \cup {Tool("previewReceipt", TRUE, [renders |-> v]) : v \in BOOLEAN}
    \cup {Tool("publishEscPos", TRUE, w) :
              w \in {[data |-> "blank"], [data |-> "no_digits"], [encoding |-> "other"],
                     [encoding |-> "hex"], [topic |-> "other"], [queue |-> "yes"]}}
    \cup {Tool("cancelQueuedPrint", TRUE, [target |-> t]) : t \in {NoJob, 1, 2}}
    \cup {Tool(n, TRUE, <<>>) : n \in {"listPrintQueue", "unknown"}}

MCMessages == [r \in Requests |->
    CASE r = r1 -> HttpMessages \cup McpMessages
      [] r = r2 -> {Http("print", [when |-> "later"]),
                    Tool("publishEscPos", TRUE, [queue |-> "yes"])}
      [] r = r3 -> {Http("cancel", [target |-> 1])}]
=============================================================================
