----------------------------- MODULE PrintQueue -----------------------------
(***************************************************************************)
(* The in-memory print queue of server/app.js (lines 97-310): the pending  *)
(* jobs sorted by due time, the one Node timer that wakes the worker, the  *)
(* asynchronous worker processPrintQueue, cancellation, the history, and   *)
(* the connection flag the MQTT event handlers keep.                       *)
(*                                                                         *)
(* JavaScript runs one callback at a time, so an action is one callback:   *)
(* from where the event loop enters the code to where the code returns or  *)
(* awaits.  The worker awaits in one place, publishEscPos, which is here a *)
(* promise that is resolved or rejected at some later time; module         *)
(* PublishEscPos says what happens inside it.                              *)
(*                                                                         *)
(* A job is named by the queueSequence number in its id.                   *)
(***************************************************************************)
EXTENDS Integers, Sequences, FiniteSets, SequencesExt

CONSTANTS
    MaxJobs,            \* PRINT_QUEUE_MAX_JOBS
    HistoryLimit,       \* PRINT_QUEUE_HISTORY_LIMIT
    RetryMs,            \* PRINT_QUEUE_RETRY_MS
    MaxTimeout,         \* the longest setTimeout delay, 2147483647
    ScheduleSlack,      \* a job due within 10 ms is not "scheduled"
    Base,               \* ids are numerals of this base, 36
    MaxTime,            \* bound: the clock stops here, "this late or later"
    MaxSequence,        \* bound: how many ids are created
    MaxAttempts         \* bound: from this attempt on a publish succeeds

ASSUME ConstantsAssumption ==
    /\ {MaxJobs, HistoryLimit, RetryMs, ScheduleSlack, MaxSequence} \subseteq Nat
    /\ {MaxTimeout, MaxTime, MaxAttempts} \subseteq Nat \ {0}
    /\ Base \in Nat \ {0, 1}

VARIABLES
    now,                \* Date.now()
    mqttConnected,
    jobs,               \* the job objects ever created, by sequence number
    printQueue,         \* pending jobs, next one first
    printQueueHistory,  \* finished jobs, newest first
    queueTimer,         \* when the timer goes off, or NoTimer
    queueProcessing,
    inFlight,           \* processPrintQueue's local job while it awaits
    queueSequence,
    finished            \* history variable: every addHistory call, in order

vars == <<now, mqttConnected, jobs, printQueue, printQueueHistory, queueTimer,
          queueProcessing, inFlight, queueSequence, finished>>

Times == 1 .. MaxTime
NoTimer == 0            \* queueTimer is null
NoJob == 0              \* the worker is not awaiting a publish
NoOption == -1          \* a schedule option is missing or empty

Status == {"queued", "waiting_for_mqtt", "publishing", "retrying", "cancelled"}
Job == [runAt : Times, created : Times, status : Status, attempts : Nat]
Outcome == [id : Nat, status : {"published", "cancelled"}]

Queued == {printQueue[i] : i \in DOMAIN printQueue}

-----------------------------------------------------------------------------
(* Time.  The clock runs from 1 to MaxTime; 0 is the epoch.                *)

Larger(a, b) == IF a >= b THEN a ELSE b
Smaller(a, b) == IF a <= b THEN a ELSE b
Cap(t) == Smaller(t, MaxTime)

\* scheduleQueueTimer clears the old timer and arms a new one for the head of
\* the queue, if any.  Node takes a delay of 0 as 1.
Armed(queue, job, connected) ==
    IF queue = <<>> THEN NoTimer
    ELSE LET delay == IF connected
                      THEN Larger(0, job[Head(queue)].runAt - now)
                      ELSE RetryMs
         IN  Cap(now + Larger(1, Smaller(delay, MaxTimeout)))

scheduleQueueTimer == queueTimer' = Armed(printQueue', jobs', mqttConnected')

-----------------------------------------------------------------------------
(* The order of the queue: runAtMs, then id.localeCompare.                 *)

Width(n) == CHOOSE w \in 1 .. n : Base^(w - 1) <= n /\ n < Base^w

\* The numerals of m and n in alphabetical order, as localeCompare has them:
\* digit by digit from the left, so that "10" comes before "z".
NumeralBefore(m, n) ==
    IF Width(m) < Width(n)
    THEN m * Base^(Width(n) - Width(m)) <= n
    ELSE m < n * Base^(Width(m) - Width(n))

Before(job, i, j) ==
    \/ job[i].runAt < job[j].runAt
    \/ /\ job[i].runAt = job[j].runAt
       /\ \/ job[i].created < job[j].created
          \/ job[i].created = job[j].created /\ NumeralBefore(i, j)

\* Mutant: push, and forget to sort.
PushOnly(id) == printQueue' = Append(printQueue, id)

\* push, then sort: the queue is sorted already, so the new job is inserted.
SortedInsert(id) ==
    \E k \in 1 .. Len(printQueue) + 1 :
        /\ \A i \in 1 .. k - 1 : Before(jobs', printQueue[i], id)
        /\ \A i \in k .. Len(printQueue) : Before(jobs', id, printQueue[i])
        /\ printQueue' = InsertAt(printQueue, k, id)

-----------------------------------------------------------------------------
(* The history: newest first, cut to HistoryLimit.                         *)

\* Mutant: unshift, and forget to cut.
addHistoryUncut(id, status) ==
    LET entry == [id |-> id, status |-> status]
    IN  /\ printQueueHistory' = <<entry>> \o printQueueHistory
        /\ finished' = Append(finished, entry)

addHistory(id, status) ==
    LET entry == [id |-> id, status |-> status]
        longer == <<entry>> \o printQueueHistory
    IN  /\ printQueueHistory' = SubSeq(longer, 1, Smaller(Len(longer), HistoryLimit))
        /\ finished' = Append(finished, entry)

-----------------------------------------------------------------------------
(* The worker, processPrintQueue.                                          *)

\* One turn of its loop, over the queue as the step leaves it.  The worker hands
\* the head of the queue to publishEscPos and awaits, the timer being as given, or
\* it stops and, in the finally block, sets the timer again.
\* Mutant: the worker does not look at the time.
HeadIsThere == printQueue' # <<>>

HeadIsDue == printQueue' # <<>> /\ jobs[Head(printQueue')].runAt <= now

Publish(timer) ==
    /\ HeadIsDue /\ mqttConnected
    /\ jobs' = [jobs EXCEPT ![Head(printQueue')].status = "publishing",
                            ![Head(printQueue')].attempts = @ + 1]
    /\ inFlight' = Head(printQueue')
    /\ queueProcessing' = TRUE
    /\ queueTimer' = timer

\* Mutant: the finally block does not set the timer.
StopUnarmed == /\ inFlight' = NoJob
               /\ queueProcessing' = FALSE
               /\ UNCHANGED queueTimer

Stop == /\ inFlight' = NoJob
        /\ queueProcessing' = FALSE
        /\ scheduleQueueTimer

NothingDue == /\ ~HeadIsDue
              /\ UNCHANGED jobs
              /\ Stop

NotConnected ==
    /\ HeadIsDue /\ ~mqttConnected
    /\ jobs' = [jobs EXCEPT ![Head(printQueue')].status = "waiting_for_mqtt"]
    /\ Stop

LoopTurn(timer) == Publish(timer) \/ NothingDue \/ NotConnected

\* Mutant: the timer starts a second worker while the first one awaits.
TimerStartsAnother ==
    /\ queueTimer # NoTimer
    /\ queueTimer <= now
    /\ UNCHANGED <<now, mqttConnected, printQueue, printQueueHistory,
                   queueSequence, finished>>
    /\ LoopTurn(NoTimer)

\* The timer goes off.  If the worker is awaiting a publish, nothing happens.
TimerFires ==
    /\ queueTimer # NoTimer
    /\ queueTimer <= now
    /\ UNCHANGED <<now, mqttConnected, printQueue, printQueueHistory,
                   queueSequence, finished>>
    /\ IF queueProcessing
       THEN /\ queueTimer' = NoTimer
            /\ UNCHANGED <<jobs, inFlight, queueProcessing>>
       ELSE LoopTurn(NoTimer)

\* Mutant: the published job stays in the queue.
ResolvesWithoutShift ==
    /\ inFlight # NoJob
    /\ addHistory(inFlight, "published")
    /\ UNCHANGED <<now, mqttConnected, printQueue, queueSequence>>
    /\ LoopTurn(queueTimer)

\* publishEscPos resolves: the broker has every chunk.  The worker takes the
\* job that is now at the head off the queue and records its own as published.
PublishResolves ==
    /\ inFlight # NoJob
    /\ printQueue' = IF printQueue = <<>> THEN <<>> ELSE Tail(printQueue)
    /\ addHistory(inFlight, "published")
    /\ UNCHANGED <<now, mqttConnected, queueSequence>>
    /\ LoopTurn(queueTimer)

\* Mutant: a job that fails is taken off the queue as well.
RejectsAndShifts ==
    /\ inFlight # NoJob
    /\ jobs[inFlight].attempts < MaxAttempts
    /\ jobs' = [jobs EXCEPT ![inFlight].status = "retrying"]
    /\ printQueue' = IF printQueue = <<>> THEN <<>> ELSE Tail(printQueue)
    /\ UNCHANGED <<now, mqttConnected, printQueueHistory, queueSequence, finished>>
    /\ Stop

\* Mutant: a failed publish leaves the status as it was.
RejectsQuietly ==
    /\ inFlight # NoJob
    /\ jobs[inFlight].attempts < MaxAttempts
    /\ UNCHANGED <<now, mqttConnected, jobs, printQueue, printQueueHistory,
                   queueSequence, finished>>
    /\ Stop

\* publishEscPos rejects: the job stays where it is and the worker stops.
PublishRejects ==
    /\ inFlight # NoJob
    /\ jobs[inFlight].attempts < MaxAttempts
    /\ jobs' = [jobs EXCEPT ![inFlight].status = "retrying"]
    /\ UNCHANGED <<now, mqttConnected, printQueue, printQueueHistory,
                   queueSequence, finished>>
    /\ Stop

-----------------------------------------------------------------------------
(* The callers: POST /print, the MCP tools and DELETE /queue/:id.          *)

\* parseScheduleOptions, for options that are valid: the later of the absolute
\* time and the delay from now.
RequestedTime(scheduleAt, delayMs) ==
    LET base == IF scheduleAt = NoOption THEN now ELSE scheduleAt
    IN  IF delayMs = NoOption THEN base ELSE Larger(base, now + delayMs)

\* publishOrQueueEscPos queues a job that is scheduled or asks for the queue;
\* any other goes straight to publishEscPos and never enters the queue.
IsQueued(requested, queue) == queue \/ requested > now + ScheduleSlack

\* 0 is falsy: a job requested for the epoch runs now.
RunAt(requested) == IF requested = 0 THEN now ELSE requested

\* An id is used up for every job; the job object is made, sorted into the
\* queue, and the timer is set for the head of the queue.
Enqueue(requested, queue) ==
    /\ IsQueued(requested, queue)
    /\ Len(printQueue) < MaxJobs
    /\ queueSequence < MaxSequence
    /\ RunAt(requested) \in Times
    /\ queueSequence' = queueSequence + 1
    /\ jobs' = [i \in DOMAIN jobs \cup {queueSequence'} |->
                    IF i \in DOMAIN jobs THEN jobs[i]
                    ELSE [runAt |-> RunAt(requested), created |-> now,
                          status |-> "queued", attempts |-> 0]]
    /\ SortedInsert(queueSequence')
    /\ UNCHANGED <<now, mqttConnected, printQueueHistory, queueProcessing,
                   inFlight, finished>>
    /\ scheduleQueueTimer

\* A delay beyond the last representable date: toISOString throws after the id
\* was made and before the job is pushed.
EnqueueThrows ==
    /\ Len(printQueue) < MaxJobs
    /\ queueSequence < MaxSequence
    /\ queueSequence' = queueSequence + 1
    /\ UNCHANGED <<now, mqttConnected, jobs, printQueue, printQueueHistory,
                   queueTimer, queueProcessing, inFlight, finished>>

\* Any pending job can be cancelled, the one being published too.
CancelQueuedJob(id) ==
    /\ \E k \in DOMAIN printQueue :
          /\ printQueue[k] = id
          /\ printQueue' = RemoveAt(printQueue, k)
    /\ jobs' = [jobs EXCEPT ![id].status = "cancelled"]
    /\ addHistory(id, "cancelled")
    /\ UNCHANGED <<now, mqttConnected, queueProcessing, inFlight, queueSequence>>
    /\ scheduleQueueTimer

-----------------------------------------------------------------------------
(* The MQTT client's events, and the clock.                                *)

\* Mutant: the timer is not set again when the connection comes up.
ConnectsUnarmed ==
    /\ ~mqttConnected
    /\ mqttConnected' = TRUE
    /\ UNCHANGED <<now, jobs, printQueue, printQueueHistory, queueTimer,
                   queueProcessing, inFlight, queueSequence, finished>>

MqttConnects ==
    /\ ~mqttConnected
    /\ mqttConnected' = TRUE
    /\ UNCHANGED <<now, jobs, printQueue, printQueueHistory, queueProcessing,
                   inFlight, queueSequence, finished>>
    /\ scheduleQueueTimer

\* The worker is not told: it awaits until the client settles its publish.
MqttCloses ==
    /\ mqttConnected
    /\ mqttConnected' = FALSE
    /\ UNCHANGED <<now, jobs, printQueue, printQueueHistory, queueTimer,
                   queueProcessing, inFlight, queueSequence, finished>>

Tick ==
    /\ now < MaxTime
    /\ now' = now + 1
    /\ UNCHANGED <<mqttConnected, jobs, printQueue, printQueueHistory, queueTimer,
                   queueProcessing, inFlight, queueSequence, finished>>

Init ==
    /\ now = 1
    /\ mqttConnected = FALSE
    /\ jobs = [i \in {} |-> 0]
    /\ printQueue = <<>>
    /\ printQueueHistory = <<>>
    /\ queueTimer = NoTimer
    /\ queueProcessing = FALSE
    /\ inFlight = NoJob
    /\ queueSequence = 0
    /\ finished = <<>>

Request ==
    \E scheduleAt \in 0 .. MaxTime \cup {NoOption}, delayMs \in 0 .. MaxTime \cup {NoOption},
       queue \in BOOLEAN :
        Enqueue(RequestedTime(scheduleAt, delayMs), queue)

Next ==
    \/ Tick
    \/ MqttConnects
    \/ MqttCloses
    \/ TimerFires
    \/ PublishResolves
    \/ PublishRejects
    \/ Request
    \/ EnqueueThrows
    \/ \E id \in Queued : CancelQueuedJob(id)

Spec == Init /\ [][Next]_vars

\* Node's clock advances, its event loop runs a timer that is due, and the MQTT
\* client settles a publish while it has a connection; requests and the network
\* owe nothing.
Settle == mqttConnected /\ (PublishResolves \/ PublishRejects)

Fairness ==
    /\ WF_vars(Tick)
    /\ WF_vars(TimerFires)
    /\ WF_vars(Settle)

FairSpec == Spec /\ Fairness

-----------------------------------------------------------------------------
(* Properties of every behaviour.                                          *)

\* The variables have their types; the queue and the history keep their limits.
TypeOK ==
    /\ now \in Times
    /\ mqttConnected \in BOOLEAN
    /\ queueSequence \in 0 .. MaxSequence
    /\ DOMAIN jobs \subseteq 1 .. queueSequence
    /\ jobs \in [DOMAIN jobs -> Job]
    /\ printQueue \in Seq(DOMAIN jobs)
    /\ Len(printQueue) <= MaxJobs
    /\ printQueueHistory \in Seq(Outcome)
    /\ Len(printQueueHistory) <= HistoryLimit
    /\ queueTimer \in Times \cup {NoTimer}
    /\ queueProcessing \in BOOLEAN
    /\ inFlight \in DOMAIN jobs \cup {NoJob}
    /\ finished \in Seq(Outcome)

\* The pending jobs are in the order of their due times; of two due at the same
\* time the one made in an earlier millisecond is first (sort, lines 214-215).
NotLater(job, i, j) ==
    \/ job[i].runAt < job[j].runAt
    \/ job[i].runAt = job[j].runAt /\ job[i].created <= job[j].created

DueOrder ==
    \A i, j \in DOMAIN printQueue :
        i < j => NotLater(jobs, printQueue[i], printQueue[j])

\* No wakeup is lost: queueProcessing is set exactly while the worker awaits a
\* publish, and a pending job has a timer or an awaiting worker that will set one
\* (every exit of lines 196-286 that leaves a job pending, the finally block too).
NoLostWakeup ==
    /\ queueProcessing <=> inFlight # NoJob
    /\ printQueue # <<>> => queueTimer # NoTimer \/ inFlight # NoJob

\* With a connection and no worker running there is a timer, and it goes off no later than
\* the head of the queue is due, or the retry interval is over if the last publish of the
\* head failed; whatever was enqueued, cancelled or displaced since it was set, and
\* whichever connection state it was set in (lines 99-103, 229).  server/README.md:55
\* promises the interval after a failed publish.  The code waits for it only while
\* disconnected; with a connection it is early, which is allowed here and not required.
LatestWakeup(job) ==
    Larger(now + (IF job.status = "retrying" THEN Larger(1, RetryMs) ELSE 1), job.runAt)

PromptWakeup ==
    printQueue # <<>> /\ mqttConnected /\ ~queueProcessing =>
        /\ queueTimer # NoTimer
        /\ queueTimer <= LatestWakeup(jobs[Head(printQueue)])

\* One worker at a time: while a publish awaits its result no attempt is begun, of its own
\* job or of another, and the worker is not forgotten.  Only the step that records the job
\* in flight as published may begin the next attempt; one that fails ends the worker (the
\* re-entry test, line 240; lines 258-268).
Settles ==
    /\ Len(finished') > Len(finished)
    /\ finished'[Len(finished')] = [id |-> inFlight, status |-> "published"]

NothingBegins == \A id \in DOMAIN jobs : jobs'[id].attempts = jobs[id].attempts

OneWorkerStep ==
    inFlight # NoJob =>
        \/ Settles
        \/ /\ NothingBegins
           /\ \/ inFlight' = inFlight
              \/ inFlight' = NoJob /\ jobs'[inFlight].status = "retrying"

OneWorker == [][OneWorkerStep]_vars

\* If the connection stays up in the end, every pending job leaves the queue.
EveryJobLeaves ==
    <>[]mqttConnected =>
        \A id \in 1 .. MaxSequence : id \in Queued ~> id \notin Queued

-----------------------------------------------------------------------------
(* Properties that need the job in flight to stay at the head of the queue. *)
(* The worker takes the head off the queue after its await, so a job put in *)
(* front of the one in flight, or a cancellation of that one, leads it to   *)
(* the wrong job.  CalmSpec is the behaviours in which neither happens.     *)

Calm == inFlight # NoJob => printQueue # <<>> /\ Head(printQueue) = inFlight

CalmSpec == Init /\ [][Next /\ Calm']_vars

Finished(status) == {e.id : e \in {finished[i] : i \in
                        {j \in DOMAIN finished : finished[j].status = status}}}

\* An accepted job is pending until it is published or cancelled: the queue drops
\* none.
JobsKept ==
    \A id \in DOMAIN jobs :
        id \in Queued \cup Finished("published") \cup Finished("cancelled")

\* A job finishes once: it is not published twice, nor published and cancelled,
\* and once it is finished it is no longer pending.
FinishesOnce ==
    /\ \A i, j \in DOMAIN finished : finished[i].id = finished[j].id => i = j
    /\ \A i \in DOMAIN finished : finished[i].id \notin Queued

\* GET /queue tells the truth: the job shown as publishing is the one that is
\* being published, and no pending job is shown as finished.
StatusIsTrue ==
    \A id \in Queued :
        /\ jobs[id].status = "publishing" <=> id = inFlight
        /\ jobs[id].status # "cancelled"

\* What the queue promises: PrintLedger, with the queue as its pending jobs.
Ledger == INSTANCE PrintLedger WITH
    Capacity <- MaxJobs,
    clock <- now,
    pending <- [id \in Queued |-> jobs[id].runAt],
    printed <- Finished("published"),
    cancelled <- Finished("cancelled")

LedgerSpec == Ledger!Spec
=============================================================================
