-------------------------- MODULE PrintServerProofs --------------------------
(* Proofs about the print queue, for every value of its constants, and      *)
(* about the server around it, for every set of requests, whatever messages *)
(* they may be, and every number of restarts.  A step of the server is one  *)
(* of the queue or leaves it alone, so that the second part rests on the    *)
(* lemmas of the first.                                                     *)
EXTENDS PrintServer, CommonLemmas, TLAPS

-----------------------------------------------------------------------------
(* THE QUEUE: timers and wakeups.                                           *)

\* A timer that is armed is armed for a time of the clock, no later than the head
\* of the queue is due if there is a connection.
LEMMA ArmedProperties ==
    ASSUME TypeOK, NEW J, NEW job \in [J -> Job], NEW q \in Seq(J), NEW c \in BOOLEAN
    PROVE  /\ Armed(q, job, c) \in Times \cup {NoTimer}
           /\ q # <<>> => Armed(q, job, c) # NoTimer
           /\ q # <<>> /\ c => Armed(q, job, c) <= Larger(now + 1, job[Head(q)].runAt)
<1>1. CASE q = <<>>
  BY <1>1 DEF Armed
<1>2. CASE q # <<>>
  <2> DEFINE due == job[Head(q)].runAt
             delay == IF c THEN Larger(0, due - now) ELSE RetryMs
  <2>1. due \in Nat
    BY <1>2, TailElements DEF Job, Times
  <2>2. now \in Nat \ {0} /\ now <= MaxTime
    BY ConstantsAssumption DEF TypeOK, Times
  <2>3. MaxTime \in Nat \ {0} /\ MaxTimeout \in Nat \ {0} /\ RetryMs \in Nat
    BY ConstantsAssumption
  <2>4. Armed(q, job, c) = Cap(now + Larger(1, Smaller(delay, MaxTimeout)))
    BY <1>2 DEF Armed
  <2>5. delay \in Nat /\ (c => delay = 0 \/ delay = due - now)
    BY <2>1, <2>2, <2>3 DEF Larger
  <2> HIDE DEF due, delay
  <2>6. /\ Cap(now + Larger(1, Smaller(delay, MaxTimeout))) \in 1 .. MaxTime
        /\ c => Cap(now + Larger(1, Smaller(delay, MaxTimeout))) <= Larger(now + 1, due)
    BY <2>1, <2>2, <2>3, <2>5 DEF Cap, Larger, Smaller
  <2> QED
    BY <1>2, <2>3, <2>4, <2>6 DEF due, Times, NoTimer
<1> QED
  BY <1>1, <1>2

\* An entry of the history goes to its front, and the history keeps its limit.
LEMMA AddHistoryType ==
    ASSUME TypeOK, NEW id \in Nat, NEW status \in {"published", "cancelled"},
           addHistory(id, status)
    PROVE  /\ printQueueHistory' \in Seq(Outcome) /\ Len(printQueueHistory') <= HistoryLimit
           /\ finished' \in Seq(Outcome)
<1> DEFINE entry == [id |-> id, status |-> status]
           longer == <<entry>> \o printQueueHistory
           length == Smaller(Len(longer), HistoryLimit)
<1>1. entry \in Outcome
  BY DEF Outcome
<1>2. HistoryLimit \in Nat
  BY ConstantsAssumption
<1> HIDE DEF entry
<1>3. longer \in Seq(Outcome) /\ Len(longer) \in Nat
  BY <1>1 DEF TypeOK
<1> HIDE DEF longer
<1>4. length \in 0 .. Len(longer) /\ length <= HistoryLimit
  BY <1>2, <1>3 DEF Smaller
<1> HIDE DEF length
<1>5. /\ SubSeq(longer, 1, length) \in Seq(Outcome)
      /\ Len(SubSeq(longer, 1, length)) = length
  BY <1>3, <1>4
<1>6. /\ printQueueHistory' = SubSeq(longer, 1, length)
      /\ finished' = Append(finished, entry)
  BY DEF addHistory, entry, longer, length
<1> QED
  BY <1>1, <1>4, <1>5, <1>6 DEF TypeOK

\* scheduleQueueTimer leaves the timer as NoLostWakeup and PromptWakeup want it.
LEMMA ScheduleProperties ==
    ASSUME TypeOK, jobs' \in [DOMAIN jobs' -> Job], printQueue' \in Seq(DOMAIN jobs'),
           mqttConnected' \in BOOLEAN, scheduleQueueTimer
    PROVE  /\ queueTimer' \in Times \cup {NoTimer}
           /\ printQueue' # <<>> => queueTimer' # NoTimer
           /\ printQueue' # <<>> /\ mqttConnected' =>
                 queueTimer' <= Larger(now + 1, jobs'[Head(printQueue')].runAt)
BY ArmedProperties DEF scheduleQueueTimer

\* A turn of the worker's loop changes a job's status and attempts only, and sets
\* the timer when it ends the loop.
LEMMA LoopTurnProperties ==
    ASSUME TypeOK, printQueue' \in Seq(DOMAIN jobs), mqttConnected' \in BOOLEAN,
           NEW timer \in Times \cup {NoTimer}, LoopTurn(timer)
    PROVE  /\ DOMAIN jobs' = DOMAIN jobs
           /\ jobs' \in [DOMAIN jobs -> Job]
           /\ \A id \in DOMAIN jobs : /\ jobs'[id].runAt = jobs[id].runAt
                                      /\ jobs'[id].created = jobs[id].created
           /\ inFlight' \in DOMAIN jobs \cup {NoJob}
           /\ queueProcessing' \in BOOLEAN
           /\ queueProcessing' <=> inFlight' # NoJob
           /\ queueTimer' \in Times \cup {NoTimer}
           /\ ~queueProcessing' => scheduleQueueTimer
<1>1. jobs \in [DOMAIN jobs -> Job] /\ NoJob \notin DOMAIN jobs
  BY DEF TypeOK, NoJob
<1>2. CASE Publish(timer)
  <2> DEFINE id == Head(printQueue')
  <2>1. id \in DOMAIN jobs
    BY <1>2, TailElements DEF Publish, HeadIsDue
  <2> HIDE DEF id
  <2>2. jobs' = [jobs EXCEPT ![id].status = "publishing", ![id].attempts = @ + 1]
    BY <1>2 DEF Publish, id
  <2>3. /\ inFlight' = id /\ queueProcessing' = TRUE /\ queueTimer' = timer
    BY <1>2 DEF Publish, id
  <2>4. jobs' = [jobs EXCEPT ![id] = [jobs[id] EXCEPT !.status = "publishing",
                                                    !.attempts = jobs[id].attempts + 1]]
    BY <2>1, <2>2
  <2>5. [jobs[id] EXCEPT !.status = "publishing", !.attempts = jobs[id].attempts + 1] \in Job
    <3>1. jobs[id] \in Job
      BY <1>1, <2>1
    <3>2. jobs[id].attempts + 1 \in Nat /\ "publishing" \in Status
      BY <3>1 DEF Job, Status
    <3> QED
      BY ONLY <3>1, <3>2 DEF Job
  <2>6. DOMAIN jobs' = DOMAIN jobs /\ jobs' \in [DOMAIN jobs -> Job]
    BY <1>1, <2>1, <2>4, <2>5
  <2>7. \A j \in DOMAIN jobs : /\ jobs'[j].runAt = jobs[j].runAt
                               /\ jobs'[j].created = jobs[j].created
    BY <1>1, <2>1, <2>4 DEF Job
  <2> QED
    BY <1>1, <2>1, <2>3, <2>6, <2>7
<1>3. CASE NothingDue
  <2>1. jobs' = jobs /\ inFlight' = NoJob /\ queueProcessing' = FALSE /\ scheduleQueueTimer
    BY <1>3 DEF NothingDue, Stop
  <2>2. queueTimer' \in Times \cup {NoTimer}
    BY <1>1, <2>1, ScheduleProperties
  <2> QED
    BY <1>1, <2>1, <2>2
<1>4. CASE NotConnected
  <2> DEFINE id == Head(printQueue')
  <2>1. id \in DOMAIN jobs
    BY <1>4, TailElements DEF NotConnected, HeadIsDue
  <2> HIDE DEF id
  <2>2. jobs' = [jobs EXCEPT ![id].status = "waiting_for_mqtt"]
    BY <1>4 DEF NotConnected, id
  <2>3. inFlight' = NoJob /\ queueProcessing' = FALSE /\ scheduleQueueTimer
    BY <1>4 DEF NotConnected, Stop
  <2>4. DOMAIN jobs' = DOMAIN jobs /\ jobs' \in [DOMAIN jobs -> Job]
    BY <1>1, <2>1, <2>2 DEF Job, Status
  <2>5. queueTimer' \in Times \cup {NoTimer}
    BY <2>3, <2>4, ScheduleProperties
  <2> QED
    BY <1>1, <2>1, <2>2, <2>3, <2>4, <2>5 DEF Job
<1> QED
  BY <1>2, <1>3, <1>4 DEF LoopTurn

-----------------------------------------------------------------------------
(* What each operation does to the jobs and the queue.                     *)

\* A new job gets a fresh number; the other jobs stay as they are, and it goes to
\* some place of the queue.
LEMMA EnqueueProperties ==
    ASSUME TypeOK, NEW requested \in Int, NEW queue \in BOOLEAN, Enqueue(requested, queue)
    PROVE  /\ queueSequence' \in 1 .. MaxSequence /\ queueSequence' \notin DOMAIN jobs
           /\ DOMAIN jobs' = DOMAIN jobs \cup {queueSequence'}
           /\ DOMAIN jobs' \subseteq 1 .. queueSequence'
           /\ jobs' \in [DOMAIN jobs' -> Job]
           /\ \A id \in DOMAIN jobs : jobs'[id] = jobs[id]
           /\ \E k \in 1 .. Len(printQueue) + 1 :
                 /\ \A i \in 1 .. k - 1 : Before(jobs', printQueue[i], queueSequence')
                 /\ \A i \in k .. Len(printQueue) : Before(jobs', queueSequence', printQueue[i])
                 /\ printQueue' = InsertAt(printQueue, k, queueSequence')
           /\ printQueue \in Seq(DOMAIN jobs')
           /\ printQueue' \in Seq(DOMAIN jobs') /\ Len(printQueue') <= MaxJobs
<1> DEFINE id == queueSequence'
           new == [runAt |-> RunAt(requested), created |-> now,
                   status |-> "queued", attempts |-> 0]
<1>1. /\ id \in 1 .. MaxSequence /\ id \notin DOMAIN jobs
      /\ DOMAIN jobs \cup {id} \subseteq 1 .. id
  BY ConstantsAssumption, SMTT(30) DEF TypeOK, Enqueue
<1>2. new \in Job
  BY DEF TypeOK, Enqueue, Job, Status
<1>3. jobs' = [i \in DOMAIN jobs \cup {id} |-> IF i \in DOMAIN jobs THEN jobs[i] ELSE new]
  BY DEF Enqueue
<1> HIDE DEF id, new
<1>4. /\ DOMAIN jobs' = DOMAIN jobs \cup {id}
      /\ jobs' \in [DOMAIN jobs' -> Job]
      /\ \A i \in DOMAIN jobs : jobs'[i] = jobs[i]
  BY <1>2, <1>3 DEF TypeOK
<1>5. PICK k \in 1 .. Len(printQueue) + 1 :
         /\ \A i \in 1 .. k - 1 : Before(jobs', printQueue[i], id)
         /\ \A i \in k .. Len(printQueue) : Before(jobs', id, printQueue[i])
         /\ printQueue' = InsertAt(printQueue, k, id)
  BY DEF Enqueue, SortedInsert, id
<1>6. printQueue \in Seq(DOMAIN jobs') /\ id \in DOMAIN jobs'
  BY <1>4 DEF TypeOK
<1>7. printQueue' \in Seq(DOMAIN jobs') /\ Len(printQueue') = Len(printQueue) + 1
  <2>1. printQueue' = InsertAt(printQueue, k, id)
    BY <1>5
  <2> QED
    BY <1>6, <2>1, InsertAtType
<1>8. Len(printQueue) + 1 <= MaxJobs
  BY ConstantsAssumption DEF Enqueue, TypeOK
<1> QED
  BY <1>1, <1>4, <1>5, <1>6, <1>7, <1>8 DEF id

\* A request asks for a time that is a number, whatever options it has.
LEMMA RequestIsEnqueue ==
    TypeOK /\ Request => \E requested \in Int, queue \in BOOLEAN : Enqueue(requested, queue)
<1> SUFFICES ASSUME TypeOK, Request
             PROVE  \E requested \in Int, queue \in BOOLEAN : Enqueue(requested, queue)
  OBVIOUS
<1>1. PICK scheduleAt \in 0 .. MaxTime \cup {NoOption},
           delayMs \in 0 .. MaxTime \cup {NoOption}, queue \in BOOLEAN :
              Enqueue(RequestedTime(scheduleAt, delayMs), queue)
  BY DEF Request
<1>2. now \in Int /\ scheduleAt \in Int /\ delayMs \in Int
  BY ConstantsAssumption DEF TypeOK, Times, NoOption
<1>3. RequestedTime(scheduleAt, delayMs) \in Int
  BY <1>2 DEF RequestedTime, Larger
<1> QED
  BY <1>1, <1>3

\* A cancelled job leaves its place in the queue; the other jobs stay as they are.
LEMMA CancelProperties ==
    ASSUME TypeOK, NEW id \in Queued, CancelQueuedJob(id)
    PROVE  /\ id \in DOMAIN jobs
           /\ \E k \in 1 .. Len(printQueue) : printQueue' = RemoveAt(printQueue, k)
           /\ printQueue' \in Seq(DOMAIN jobs) /\ Len(printQueue') <= MaxJobs
           /\ DOMAIN jobs' = DOMAIN jobs /\ jobs' \in [DOMAIN jobs -> Job]
           /\ \A j \in DOMAIN jobs : /\ jobs'[j].runAt = jobs[j].runAt
                                     /\ jobs'[j].created = jobs[j].created
<1>1. PICK k \in DOMAIN printQueue : printQueue[k] = id /\ printQueue' = RemoveAt(printQueue, k)
  BY DEF CancelQueuedJob
<1>2. k \in 1 .. Len(printQueue) /\ id \in DOMAIN jobs
  BY <1>1 DEF TypeOK
<1>3. printQueue' \in Seq(DOMAIN jobs) /\ Len(printQueue') = Len(printQueue) - 1
  BY <1>1, <1>2, RemoveAtProperties DEF TypeOK
<1>4. Len(printQueue') <= MaxJobs
  BY <1>3, ConstantsAssumption, SMTT(30) DEF TypeOK
<1>5. jobs' = [jobs EXCEPT ![id].status = "cancelled"]
  BY DEF CancelQueuedJob
<1>6. DOMAIN jobs' = DOMAIN jobs /\ jobs' \in [DOMAIN jobs -> Job]
  BY <1>2, <1>5 DEF TypeOK, Job, Status
<1>7. \A j \in DOMAIN jobs : /\ jobs'[j].runAt = jobs[j].runAt
                             /\ jobs'[j].created = jobs[j].created
  BY <1>2, <1>5 DEF TypeOK, Job
<1> QED
  BY <1>1, <1>2, <1>3, <1>4, <1>6, <1>7

\* A rejected publish changes the status of one job.
LEMMA RejectProperties ==
    ASSUME TypeOK, PublishRejects
    PROVE  /\ DOMAIN jobs' = DOMAIN jobs /\ jobs' \in [DOMAIN jobs -> Job]
           /\ \A j \in DOMAIN jobs : /\ jobs'[j].runAt = jobs[j].runAt
                                     /\ jobs'[j].created = jobs[j].created
<1>1. inFlight \in DOMAIN jobs /\ jobs' = [jobs EXCEPT ![inFlight].status = "retrying"]
  BY DEF TypeOK, PublishRejects
<1> QED
  BY <1>1 DEF TypeOK, Job, Status

\* A resolved publish takes the head off the queue, whichever job that is.
LEMMA ResolveProperties ==
    ASSUME TypeOK, PublishResolves
    PROVE  /\ inFlight \in DOMAIN jobs /\ inFlight \in Nat
           /\ printQueue' \in Seq(DOMAIN jobs) /\ Len(printQueue') <= MaxJobs
           /\ printQueue # <<>> => printQueue' = Tail(printQueue)
<1>1. inFlight \in DOMAIN jobs /\ inFlight \in Nat
  BY DEF TypeOK, PublishResolves
<1>2. CASE printQueue = <<>>
  BY <1>1, <1>2 DEF TypeOK, PublishResolves
<1>3. CASE printQueue # <<>>
  <2>1. printQueue' = Tail(printQueue)
    BY <1>3 DEF PublishResolves
  <2>2. printQueue' \in Seq(DOMAIN jobs) /\ Len(printQueue') = Len(printQueue) - 1
    BY <1>3, <2>1, TailElements DEF TypeOK
  <2> QED
    BY <1>1, <1>3, <2>1, <2>2, ConstantsAssumption DEF TypeOK
<1> QED
  BY <1>2, <1>3

-----------------------------------------------------------------------------
(* Types.                                                                  *)

\* The initial state is well typed.
LEMMA InitTypeOK == Init => TypeOK
<1> SUFFICES ASSUME Init PROVE TypeOK
  OBVIOUS
<1>1. now \in Times /\ Len(printQueue) <= MaxJobs /\ Len(printQueueHistory) <= HistoryLimit
  BY ConstantsAssumption DEF Init, Times
<1>2. DOMAIN jobs = {} /\ jobs \in [{} -> Job]
  BY DEF Init
<1>3. printQueue \in Seq(DOMAIN jobs)
  BY DEF Init
<1>4. printQueueHistory \in Seq(Outcome) /\ finished \in Seq(Outcome)
  BY DEF Init
<1>5. queueSequence \in 0 .. MaxSequence
  BY ConstantsAssumption DEF Init
<1> QED
  BY <1>1, <1>2, <1>3, <1>4, <1>5 DEF Init, TypeOK

\* Every step keeps the types.  One case per action of Next.
LEMMA NextTypeOK == TypeOK /\ [Next]_vars => TypeOK'
<1> SUFFICES ASSUME TypeOK, [Next]_vars PROVE TypeOK'
  OBVIOUS
<1>1. CASE Tick
  BY <1>1, ConstantsAssumption, SMTT(30) DEF Tick, TypeOK, Times
<1>2. CASE MqttConnects
  <2>1. queueTimer' \in Times \cup {NoTimer}
    BY <1>2, ScheduleProperties DEF MqttConnects, TypeOK
  <2> QED
    BY <1>2, <2>1 DEF MqttConnects, TypeOK
<1>3. CASE MqttCloses
  BY <1>3 DEF MqttCloses, TypeOK
<1>4. CASE TimerFires
  <2>1. CASE queueProcessing
    BY <1>4, <2>1 DEF TimerFires, TypeOK
  <2>2. CASE ~queueProcessing
    <3>1. /\ UNCHANGED <<now, mqttConnected, printQueue, printQueueHistory,
                         queueSequence, finished>>
          /\ LoopTurn(NoTimer)
      BY <1>4, <2>2 DEF TimerFires
    <3>2. /\ printQueue' \in Seq(DOMAIN jobs) /\ mqttConnected' \in BOOLEAN
          /\ NoTimer \in Times \cup {NoTimer}
      BY <3>1 DEF TypeOK
    <3>3. /\ DOMAIN jobs' = DOMAIN jobs /\ jobs' \in [DOMAIN jobs -> Job]
          /\ inFlight' \in DOMAIN jobs \cup {NoJob}
          /\ queueProcessing' \in BOOLEAN
          /\ queueTimer' \in Times \cup {NoTimer}
      BY <3>1, <3>2, LoopTurnProperties
    <3> QED
      BY <3>1, <3>3 DEF TypeOK
  <2> QED
    BY <2>1, <2>2
<1>5. CASE PublishResolves
  <2>1. /\ inFlight \in Nat /\ printQueue' \in Seq(DOMAIN jobs) /\ Len(printQueue') <= MaxJobs
    BY <1>5, ResolveProperties
  <2>2. /\ UNCHANGED <<now, mqttConnected, queueSequence>>
        /\ addHistory(inFlight, "published") /\ LoopTurn(queueTimer)
    BY <1>5 DEF PublishResolves
  <2>3. /\ printQueueHistory' \in Seq(Outcome) /\ Len(printQueueHistory') <= HistoryLimit
        /\ finished' \in Seq(Outcome)
    BY <2>1, <2>2, AddHistoryType
  <2>4. mqttConnected' \in BOOLEAN /\ queueTimer \in Times \cup {NoTimer}
    BY <2>2 DEF TypeOK
  <2>5. /\ DOMAIN jobs' = DOMAIN jobs /\ jobs' \in [DOMAIN jobs -> Job]
        /\ inFlight' \in DOMAIN jobs \cup {NoJob}
        /\ queueProcessing' \in BOOLEAN
        /\ queueTimer' \in Times \cup {NoTimer}
    BY <2>1, <2>2, <2>4, LoopTurnProperties
  <2> QED
    BY <2>1, <2>2, <2>3, <2>5 DEF TypeOK
<1>6. CASE PublishRejects
  <2>1. DOMAIN jobs' = DOMAIN jobs /\ jobs' \in [DOMAIN jobs -> Job]
    BY <1>6, RejectProperties
  <2>2. /\ UNCHANGED <<now, mqttConnected, printQueue, printQueueHistory,
                       queueSequence, finished>>
        /\ inFlight' = NoJob /\ queueProcessing' = FALSE /\ scheduleQueueTimer
    BY <1>6 DEF PublishRejects, Stop
  <2>3. queueTimer' \in Times \cup {NoTimer}
    BY <2>1, <2>2, ScheduleProperties DEF TypeOK
  <2> QED
    BY <2>1, <2>2, <2>3 DEF TypeOK
<1>7. CASE Request
  <2>1. PICK requested \in Int, queue \in BOOLEAN : Enqueue(requested, queue)
    BY <1>7, RequestIsEnqueue
  <2>2. /\ queueSequence' \in 1 .. MaxSequence
        /\ DOMAIN jobs' \subseteq 1 .. queueSequence'
        /\ DOMAIN jobs \subseteq DOMAIN jobs'
        /\ jobs' \in [DOMAIN jobs' -> Job]
        /\ printQueue' \in Seq(DOMAIN jobs') /\ Len(printQueue') <= MaxJobs
    BY <2>1, EnqueueProperties
  <2>3. /\ UNCHANGED <<now, mqttConnected, printQueueHistory, queueProcessing,
                       inFlight, finished>>
        /\ scheduleQueueTimer
    BY <2>1 DEF Enqueue
  <2>4. queueTimer' \in Times \cup {NoTimer}
    BY <2>2, <2>3, ScheduleProperties DEF TypeOK
  <2> QED
    BY <2>2, <2>3, <2>4 DEF TypeOK
<1>8. CASE EnqueueThrows
  BY <1>8, ConstantsAssumption DEF EnqueueThrows, TypeOK
<1>9. ASSUME NEW id \in Queued, CancelQueuedJob(id)
      PROVE  TypeOK'
  <2>1. /\ id \in DOMAIN jobs /\ id \in Nat
        /\ printQueue' \in Seq(DOMAIN jobs) /\ Len(printQueue') <= MaxJobs
        /\ DOMAIN jobs' = DOMAIN jobs /\ jobs' \in [DOMAIN jobs -> Job]
    BY <1>9, CancelProperties DEF TypeOK
  <2>2. /\ UNCHANGED <<now, mqttConnected, queueProcessing, inFlight, queueSequence>>
        /\ addHistory(id, "cancelled") /\ scheduleQueueTimer
    BY <1>9 DEF CancelQueuedJob
  <2>3. /\ printQueueHistory' \in Seq(Outcome) /\ Len(printQueueHistory') <= HistoryLimit
        /\ finished' \in Seq(Outcome)
    BY <2>1, <2>2, AddHistoryType
  <2>4. queueTimer' \in Times \cup {NoTimer}
    BY <2>1, <2>2, ScheduleProperties DEF TypeOK
  <2> QED
    BY <2>1, <2>2, <2>3, <2>4 DEF TypeOK
<1>10. CASE UNCHANGED vars
  BY <1>10 DEF vars, TypeOK
<1> QED
  BY <1>1, <1>2, <1>3, <1>4, <1>5, <1>6, <1>7, <1>8, <1>9, <1>10 DEF Next

\* The variables of the queue always have their types, and the queue and the
\* history never outgrow PRINT_QUEUE_MAX_JOBS and PRINT_QUEUE_HISTORY_LIMIT.
THEOREM TypeCorrect == Spec => []TypeOK
<1> QED
  BY InitTypeOK, NextTypeOK, PTL DEF Spec

-----------------------------------------------------------------------------
(* Wakeups.                                                                *)

Wakeups == NoLostWakeup /\ PromptWakeup

\* With an empty queue there is nothing to wake up for.
LEMMA InitWakeups == Init => Wakeups
BY DEF Init, Wakeups, NoLostWakeup, PromptWakeup

\* A step that calls scheduleQueueTimer with the clock standing still and the worker
\* not running leaves both parts of Wakeups true.
LEMMA ScheduledWakeups ==
    ASSUME TypeOK, TypeOK', now' = now, scheduleQueueTimer,
           queueProcessing' <=> inFlight' # NoJob
    PROVE  Wakeups'
<1>1. /\ printQueue' # <<>> => queueTimer' # NoTimer
      /\ printQueue' # <<>> /\ mqttConnected' =>
            queueTimer' <= Larger(now + 1, jobs'[Head(printQueue')].runAt)
  BY ScheduleProperties DEF TypeOK
<1>2. ASSUME printQueue' # <<>> /\ mqttConnected'
      PROVE  queueTimer' <= LatestWakeup(jobs[Head(printQueue)])'
  <2> DEFINE due == jobs'[Head(printQueue')].runAt
  <2>1. Head(printQueue') \in DOMAIN jobs' /\ jobs' \in [DOMAIN jobs' -> Job]
    BY <1>2, TailElements DEF TypeOK
  <2>2. due \in Int /\ now \in Int /\ RetryMs \in Nat /\ queueTimer' \in Int
    <3>1. jobs'[Head(printQueue')] \in Job
      BY <2>1
    <3>2. due \in Times
      BY <3>1 DEF Job
    <3>3. now \in Times /\ queueTimer' \in Times \cup {NoTimer}
      BY DEF TypeOK
    <3> QED
      BY <3>2, <3>3, ConstantsAssumption DEF Times, NoTimer
  <2>3. queueTimer' <= Larger(now + 1, due)
    BY <1>1, <1>2
  <2>4. LatestWakeup(jobs[Head(printQueue)])' = Larger(now + Larger(1, RetryMs), due)
        \/ LatestWakeup(jobs[Head(printQueue)])' = Larger(now + 1, due)
    BY DEF LatestWakeup
  <2> HIDE DEF due
  <2> QED
    BY <2>2, <2>3, <2>4 DEF Larger
<1> QED
  BY <1>1, <1>2 DEF Wakeups, NoLostWakeup, PromptWakeup

\* A turn of the worker's loop keeps Wakeups: it goes on awaiting, or it ends and
\* sets the timer.
LEMMA LoopTurnWakeups ==
    ASSUME TypeOK, TypeOK', now' = now, printQueue' \in Seq(DOMAIN jobs),
           NEW timer \in Times \cup {NoTimer}, LoopTurn(timer)
    PROVE  Wakeups'
<1>1. /\ queueProcessing' <=> inFlight' # NoJob
      /\ ~queueProcessing' => scheduleQueueTimer
  BY LoopTurnProperties DEF TypeOK
<1>2. CASE queueProcessing'
  BY <1>1, <1>2 DEF Wakeups, NoLostWakeup, PromptWakeup
<1>3. CASE ~queueProcessing'
  BY <1>1, <1>3, ScheduledWakeups
<1> QED
  BY <1>2, <1>3

\* Every step keeps both parts of Wakeups, given the types before and after it.
LEMMA NextWakeups == TypeOK /\ TypeOK' /\ Wakeups /\ [Next]_vars => Wakeups'
<1> SUFFICES ASSUME TypeOK, TypeOK', Wakeups, [Next]_vars PROVE Wakeups'
  OBVIOUS
<1>1. CASE Tick
  <2>1. now \in Int /\ now' = now + 1
    BY <1>1 DEF Tick, TypeOK, Times
  <2>2. UNCHANGED <<mqttConnected, jobs, printQueue, queueTimer, queueProcessing, inFlight>>
    BY <1>1 DEF Tick
  <2>3. queueTimer \in Int
    BY DEF TypeOK, Times, NoTimer
  <2>4. ASSUME printQueue # <<>>
        PROVE  /\ jobs[Head(printQueue)].runAt \in Int
               /\ RetryMs \in Nat
    <3>1. Head(printQueue) \in DOMAIN jobs
      BY <2>4, TailElements DEF TypeOK
    <3>2. jobs[Head(printQueue)] \in Job
      BY <3>1 DEF TypeOK
    <3> QED
      BY <3>2, ConstantsAssumption DEF Job, Times
  <2>5. ASSUME printQueue # <<>>
        PROVE  LatestWakeup(jobs[Head(printQueue)]) <= LatestWakeup(jobs[Head(printQueue)])'
    <3> DEFINE job == jobs[Head(printQueue)]
               interval == IF job.status = "retrying" THEN Larger(1, RetryMs) ELSE 1
    <3>1. interval \in Int /\ job.runAt \in Int
      BY <2>4, <2>5 DEF Larger
    <3>2. /\ LatestWakeup(jobs[Head(printQueue)]) = Larger(now + interval, job.runAt)
          /\ LatestWakeup(jobs[Head(printQueue)])' = Larger(now' + interval, job.runAt)
      BY <2>2 DEF LatestWakeup
    <3> HIDE DEF interval, job
    <3> QED
      BY <2>1, <3>1, <3>2 DEF Larger
  <2>6. ASSUME printQueue # <<>>
        PROVE  /\ LatestWakeup(jobs[Head(printQueue)]) \in Int
               /\ LatestWakeup(jobs[Head(printQueue)])' \in Int
    BY <2>1, <2>2, <2>4, <2>6 DEF LatestWakeup, Larger
  <2>7. ASSUME printQueue # <<>>, queueTimer <= LatestWakeup(jobs[Head(printQueue)])
        PROVE  queueTimer' <= LatestWakeup(jobs[Head(printQueue)])'
    BY <2>2, <2>3, <2>5, <2>6, <2>7
  <2> QED
    BY <2>2, <2>7 DEF Wakeups, NoLostWakeup, PromptWakeup
<1>2. CASE MqttConnects
  BY <1>2, ScheduledWakeups DEF MqttConnects, Wakeups, NoLostWakeup
<1>3. CASE MqttCloses
  BY <1>3 DEF MqttCloses, Wakeups, NoLostWakeup, PromptWakeup
<1>4. CASE TimerFires
  <2>1. CASE queueProcessing
    BY <1>4, <2>1 DEF TimerFires, Wakeups, NoLostWakeup, PromptWakeup
  <2>2. CASE ~queueProcessing
    <3>1. now' = now /\ printQueue' \in Seq(DOMAIN jobs) /\ LoopTurn(NoTimer)
      BY <1>4, <2>2 DEF TimerFires, TypeOK
    <3> QED
      BY <3>1, LoopTurnWakeups
  <2> QED
    BY <2>1, <2>2
<1>5. CASE PublishResolves
  <2>1. now' = now /\ LoopTurn(queueTimer)
    BY <1>5 DEF PublishResolves
  <2>2. printQueue' \in Seq(DOMAIN jobs) /\ queueTimer \in Times \cup {NoTimer}
    BY <1>5, ResolveProperties DEF TypeOK
  <2> QED
    BY <2>1, <2>2, LoopTurnWakeups
<1>6. CASE PublishRejects
  BY <1>6, ScheduledWakeups DEF PublishRejects, Stop
<1>7. CASE Request
  <2>1. PICK requested \in Int, queue \in BOOLEAN : Enqueue(requested, queue)
    BY <1>7, RequestIsEnqueue
  <2> QED
    BY <2>1, ScheduledWakeups DEF Enqueue, Wakeups, NoLostWakeup
<1>8. CASE EnqueueThrows
  BY <1>8 DEF EnqueueThrows, Wakeups, NoLostWakeup, PromptWakeup, LatestWakeup
<1>9. ASSUME NEW id \in Queued, CancelQueuedJob(id)
      PROVE  Wakeups'
  BY <1>9, ScheduledWakeups DEF CancelQueuedJob, Wakeups, NoLostWakeup
<1>10. CASE UNCHANGED vars
  BY <1>10 DEF vars, Wakeups, NoLostWakeup, PromptWakeup, LatestWakeup
<1> QED
  BY <1>1, <1>2, <1>3, <1>4, <1>5, <1>6, <1>7, <1>8, <1>9, <1>10 DEF Next

\* The flag queueProcessing is set exactly while the worker awaits, and a pending
\* job is never left without a timer or a worker.
THEOREM WakeupNotLost == Spec => []NoLostWakeup
<1>1. Wakeups => NoLostWakeup
  BY DEF Wakeups
<1> QED
  BY <1>1, InitTypeOK, NextTypeOK, InitWakeups, NextWakeups, PTL DEF Spec

\* While there is a connection and no publish to await, a pending job has a timer, which is
\* set for the time the head of the queue is due, or sooner, or, if the head's last publish
\* failed, for the end of the retry interval, or sooner.
THEOREM WakeupPrompt == Spec => []PromptWakeup
<1>1. Wakeups => PromptWakeup
  BY DEF Wakeups
<1> QED
  BY <1>1, InitTypeOK, NextTypeOK, InitWakeups, NextWakeups, PTL DEF Spec

-----------------------------------------------------------------------------
(* The order of the queue.                                                 *)

InOrder(q, job) == \A i, j \in 1 .. Len(q) : i < j => NotLater(job, q[i], q[j])

\* Order looks at runAt and created only, which no step changes.
LEMMA OrderOfSameJobs ==
    ASSUME NEW J, NEW q \in Seq(J), NEW job, NEW new, InOrder(q, job),
           \A id \in J : /\ new[id].runAt = job[id].runAt
                         /\ new[id].created = job[id].created
    PROVE  InOrder(q, new)
<1> SUFFICES ASSUME NEW i \in 1 .. Len(q), NEW j \in 1 .. Len(q), i < j
             PROVE  NotLater(new, q[i], q[j])
  BY DEF InOrder
<1>1. q[i] \in J /\ q[j] \in J
  OBVIOUS
<1>2. NotLater(job, q[i], q[j])
  BY DEF InOrder
<1> QED
  BY <1>1, <1>2 DEF NotLater

\* Taking the head away leaves the queue in order.
LEMMA TailInOrder ==
    ASSUME NEW J, NEW q \in Seq(J), NEW job, q # <<>>, InOrder(q, job)
    PROVE  InOrder(Tail(q), job)
<1> SUFFICES ASSUME NEW i \in 1 .. Len(Tail(q)), NEW j \in 1 .. Len(Tail(q)), i < j
             PROVE  NotLater(job, Tail(q)[i], Tail(q)[j])
  BY DEF InOrder
<1>1. /\ i + 1 \in 1 .. Len(q) /\ j + 1 \in 1 .. Len(q) /\ i + 1 < j + 1
      /\ Tail(q)[i] = q[i + 1] /\ Tail(q)[j] = q[j + 1]
  BY TailElements
<1> QED
  BY <1>1 DEF InOrder

\* Taking any element away leaves the queue in order.
LEMMA RemoveInOrder ==
    ASSUME NEW J, NEW q \in Seq(J), NEW job, NEW k \in 1 .. Len(q), InOrder(q, job)
    PROVE  InOrder(RemoveAt(q, k), job)
<1>0. /\ RemoveAt(q, k) \in Seq(J)
      /\ Len(RemoveAt(q, k)) = Len(q) - 1
      /\ \A i \in 1 .. k - 1 : RemoveAt(q, k)[i] = q[i]
      /\ \A i \in k .. Len(q) - 1 : RemoveAt(q, k)[i] = q[i + 1]
  BY RemoveAtProperties, Zenon
<1> DEFINE r == RemoveAt(q, k)
           from(i) == IF i < k THEN i ELSE i + 1
<1>1. /\ Len(r) = Len(q) - 1
      /\ \A i \in 1 .. k - 1 : r[i] = q[i]
      /\ \A i \in k .. Len(q) - 1 : r[i] = q[i + 1]
  BY <1>0
<1> HIDE DEF r
<1> SUFFICES ASSUME NEW i \in 1 .. Len(r), NEW j \in 1 .. Len(r), i < j
             PROVE  NotLater(job, r[i], r[j])
  BY DEF InOrder, r
<1>2. Len(q) \in Nat /\ k \in Nat
  OBVIOUS
<1>3. from(i) \in 1 .. Len(q) /\ from(j) \in 1 .. Len(q) /\ from(i) < from(j)
  BY <1>1, <1>2
<1>4. r[i] = q[from(i)] /\ r[j] = q[from(j)]
  BY <1>1, <1>2, SMTT(30)
<1> HIDE DEF from
<1> QED
  BY <1>3, <1>4 DEF InOrder

\* Inserting an element after those that are before it and before those that are
\* after it leaves the queue in order.
LEMMA InsertInOrder ==
    ASSUME NEW J, NEW q \in Seq(J), NEW job, NEW e \in J, NEW k \in 1 .. Len(q) + 1,
           InOrder(q, job),
           \A id \in J : job[id].created \in Nat,
           \A i \in 1 .. k - 1 : Before(job, q[i], e),
           \A i \in k .. Len(q) : Before(job, e, q[i])
    PROVE  InOrder(InsertAt(q, k, e), job)
<1>0. /\ InsertAt(q, k, e) \in Seq(J)
      /\ Len(InsertAt(q, k, e)) = Len(q) + 1
      /\ \A i \in 1 .. k - 1 : InsertAt(q, k, e)[i] = q[i]
      /\ InsertAt(q, k, e)[k] = e
      /\ \A i \in k + 1 .. Len(q) + 1 : InsertAt(q, k, e)[i] = q[i - 1]
  BY InsertAtProperties
<1> DEFINE r == InsertAt(q, k, e)
<1>1. /\ Len(r) = Len(q) + 1
      /\ \A i \in 1 .. k - 1 : r[i] = q[i]
      /\ r[k] = e
      /\ \A i \in k + 1 .. Len(q) + 1 : r[i] = q[i - 1]
  BY <1>0
<1> HIDE DEF r
<1>2. Len(q) \in Nat /\ k \in Nat
  OBVIOUS
<1>3. ASSUME NEW a \in J, NEW b \in J, Before(job, a, b)
      PROVE  NotLater(job, a, b)
  BY <1>3 DEF Before, NotLater
<1> SUFFICES ASSUME NEW i \in 1 .. Len(r), NEW j \in 1 .. Len(r), i < j
             PROVE  NotLater(job, r[i], r[j])
  BY DEF InOrder, r
<1>4. CASE j < k
  BY <1>1, <1>2, <1>4 DEF InOrder
<1>5. CASE j = k
  <2>1. i \in 1 .. k - 1 /\ i \in 1 .. Len(q) /\ r[i] = q[i] /\ r[j] = e
    BY <1>1, <1>2, <1>5
  <2> QED
    BY <1>3, <2>1
<1>6. CASE i < k /\ k < j
  <2>1. /\ i \in 1 .. Len(q) /\ j - 1 \in 1 .. Len(q) /\ i < j - 1
        /\ r[i] = q[i] /\ r[j] = q[j - 1]
    BY <1>1, <1>2, <1>6
  <2> QED
    BY <2>1 DEF InOrder
<1>7. CASE i = k
  <2>1. j - 1 \in k .. Len(q) /\ j - 1 \in 1 .. Len(q) /\ r[i] = e /\ r[j] = q[j - 1]
    BY <1>1, <1>2, <1>7
  <2> QED
    BY <1>3, <2>1
<1>8. CASE k < i
  <2>1. /\ i - 1 \in 1 .. Len(q) /\ j - 1 \in 1 .. Len(q) /\ i - 1 < j - 1
        /\ r[i] = q[i - 1] /\ r[j] = q[j - 1]
    BY <1>1, <1>2, <1>8
  <2> QED
    BY <2>1 DEF InOrder
<1> QED
  BY <1>2, <1>4, <1>5, <1>6, <1>7, <1>8

\* DueOrder is InOrder of the queue as it is.
LEMMA DueOrderIsInOrder == TypeOK => (DueOrder <=> InOrder(printQueue, jobs))
<1> SUFFICES ASSUME TypeOK PROVE DueOrder <=> InOrder(printQueue, jobs)
  OBVIOUS
<1>1. DOMAIN printQueue = 1 .. Len(printQueue)
  BY DEF TypeOK
<1> QED
  BY <1>1 DEF DueOrder, InOrder

\* Every step keeps the queue in order: it inserts one job at its place, takes one
\* away, or leaves the queue alone.
LEMMA NextInOrder ==
    TypeOK /\ TypeOK' /\ InOrder(printQueue, jobs) /\ [Next]_vars
        => InOrder(printQueue', jobs')
<1> SUFFICES ASSUME TypeOK, TypeOK', InOrder(printQueue, jobs), [Next]_vars
             PROVE  InOrder(printQueue', jobs')
  OBVIOUS
<1> USE DEF TypeOK
<1>1. ASSUME UNCHANGED printQueue,
             \A id \in DOMAIN jobs : /\ jobs'[id].runAt = jobs[id].runAt
                                     /\ jobs'[id].created = jobs[id].created
      PROVE  InOrder(printQueue', jobs')
  BY <1>1, OrderOfSameJobs
<1>2. CASE UNCHANGED <<printQueue, jobs>>
  BY <1>2
<1>3. CASE TimerFires
  <2>1. CASE queueProcessing
    BY <1>2, <1>3, <2>1 DEF TimerFires
  <2>2. CASE ~queueProcessing
    <3>1. /\ printQueue' = printQueue /\ mqttConnected' = mqttConnected
          /\ LoopTurn(NoTimer) /\ NoTimer \in Times \cup {NoTimer}
      BY <1>3, <2>2 DEF TimerFires
    <3>2. \A id \in DOMAIN jobs : /\ jobs'[id].runAt = jobs[id].runAt
                                  /\ jobs'[id].created = jobs[id].created
      BY <3>1, LoopTurnProperties
    <3> QED
      BY <1>1, <3>1, <3>2
  <2> QED
    BY <2>1, <2>2
<1>4. CASE PublishResolves
  <2>1. LoopTurn(queueTimer) /\ mqttConnected' = mqttConnected
    BY <1>4 DEF PublishResolves
  <2>2. /\ printQueue' \in Seq(DOMAIN jobs)
        /\ printQueue # <<>> => printQueue' = Tail(printQueue)
    BY <1>4, ResolveProperties
  <2>3. \A id \in DOMAIN jobs : /\ jobs'[id].runAt = jobs[id].runAt
                                /\ jobs'[id].created = jobs[id].created
    BY <2>1, <2>2, LoopTurnProperties
  <2>4. InOrder(printQueue', jobs)
    <3>1. CASE printQueue = <<>>
      BY <1>4, <3>1 DEF PublishResolves
    <3>2. CASE printQueue # <<>>
      BY <2>2, <3>2, TailInOrder
    <3> QED
      BY <3>1, <3>2
  <2> QED
    BY <2>2, <2>3, <2>4, OrderOfSameJobs
<1>5. CASE PublishRejects
  <2>1. \A id \in DOMAIN jobs : /\ jobs'[id].runAt = jobs[id].runAt
                                /\ jobs'[id].created = jobs[id].created
    BY <1>5, RejectProperties
  <2> QED
    BY <1>1, <1>5, <2>1 DEF PublishRejects
<1>6. CASE Request
  <2>1. PICK requested \in Int, queue \in BOOLEAN : Enqueue(requested, queue)
    BY <1>6, RequestIsEnqueue
  <2> DEFINE id == queueSequence'
  <2>2. /\ \A j \in DOMAIN jobs : jobs'[j] = jobs[j]
        /\ id \in DOMAIN jobs' /\ printQueue \in Seq(DOMAIN jobs')
        /\ jobs' \in [DOMAIN jobs' -> Job]
    BY <2>1, EnqueueProperties
  <2>3. PICK k \in 1 .. Len(printQueue) + 1 :
           /\ \A i \in 1 .. k - 1 : Before(jobs', printQueue[i], id)
           /\ \A i \in k .. Len(printQueue) : Before(jobs', id, printQueue[i])
           /\ printQueue' = InsertAt(printQueue, k, id)
    BY <2>1, EnqueueProperties
  <2> HIDE DEF id
  <2>4. InOrder(printQueue, jobs')
    <3>1. printQueue \in Seq(DOMAIN jobs)
      OBVIOUS
    <3>2. \A j \in DOMAIN jobs : /\ jobs'[j].runAt = jobs[j].runAt
                                 /\ jobs'[j].created = jobs[j].created
      BY <2>2
    <3> QED
      BY <3>1, <3>2, OrderOfSameJobs
  <2>5. ASSUME NEW j \in DOMAIN jobs' PROVE jobs'[j].created \in Nat
    <3>1. jobs'[j] \in Job
      BY ONLY <2>2, <2>5
    <3> QED
      BY ONLY <3>1, ConstantsAssumption DEF Job, Times
  <2>6. InOrder(InsertAt(printQueue, k, id), jobs')
    BY ONLY <2>2, <2>3, <2>4, <2>5, InsertInOrder
  <2> QED
    BY <2>3, <2>6
<1>7. ASSUME NEW id \in Queued, CancelQueuedJob(id)
      PROVE  InOrder(printQueue', jobs')
  <2>1. PICK k \in 1 .. Len(printQueue) : printQueue' = RemoveAt(printQueue, k)
    BY <1>7, CancelProperties
  <2>2. /\ printQueue' \in Seq(DOMAIN jobs)
        /\ \A j \in DOMAIN jobs : /\ jobs'[j].runAt = jobs[j].runAt
                                  /\ jobs'[j].created = jobs[j].created
    BY <1>7, CancelProperties
  <2>3. InOrder(printQueue', jobs)
    BY <2>1, RemoveInOrder
  <2> QED
    BY <2>2, <2>3, OrderOfSameJobs
<1>8. CASE Tick \/ MqttConnects \/ MqttCloses \/ EnqueueThrows \/ UNCHANGED vars
  BY <1>2, <1>8 DEF Tick, MqttConnects, MqttCloses, EnqueueThrows, vars
<1> QED
  BY <1>3, <1>4, <1>5, <1>6, <1>7, <1>8 DEF Next

\* The queue is always in the order of the due times, and of the times of creation
\* among jobs due at the same time, whatever is added, cancelled or published.
THEOREM QueueInDueOrder == Spec => []DueOrder
<1>1. Init => InOrder(printQueue, jobs)
  BY DEF Init, InOrder
<1>2. TypeOK /\ TypeOK' /\ InOrder(printQueue, jobs) /\ [Next]_vars
         => InOrder(printQueue, jobs)'
  BY NextInOrder
<1>3. TypeOK /\ InOrder(printQueue, jobs) => DueOrder
  BY DueOrderIsInOrder
<1> QED
  BY <1>1, <1>2, <1>3, InitTypeOK, NextTypeOK, PTL DEF Spec

-----------------------------------------------------------------------------
(* The worker.                                                             *)

\* A step while the worker awaits records its job as published, or begins no attempt and
\* leaves the worker with its job unless that has failed.
LEMMA NextOneWorker ==
    TypeOK /\ NoLostWakeup /\ [Next]_vars => [OneWorkerStep]_vars
<1> SUFFICES ASSUME TypeOK, NoLostWakeup, [Next]_vars, inFlight # NoJob
             PROVE  \/ Settles
                    \/ /\ NothingBegins
                       /\ \/ inFlight' = inFlight
                          \/ inFlight' = NoJob /\ jobs'[inFlight].status = "retrying"
  BY DEF OneWorkerStep
<1>1. CASE PublishResolves
  <2> DEFINE entry == [id |-> inFlight, status |-> "published"]
  <2>1. finished' = Append(finished, entry)
    BY <1>1 DEF PublishResolves, addHistory
  <2>2. finished \in Seq(Outcome) /\ entry \in Outcome
    BY DEF TypeOK, Outcome
  <2> HIDE DEF entry
  <2>3. Len(finished') = Len(finished) + 1 /\ finished'[Len(finished')] = entry
    BY <2>1, <2>2
  <2>4. Len(finished') > Len(finished)
    BY <2>2, <2>3
  <2> QED
    BY <2>3, <2>4 DEF Settles, entry
<1>2. CASE PublishRejects
  <2>1. /\ inFlight \in DOMAIN jobs /\ jobs \in [DOMAIN jobs -> Job]
        /\ jobs' = [jobs EXCEPT ![inFlight].status = "retrying"]
    BY <1>2 DEF PublishRejects, TypeOK
  <2>2. jobs' = [jobs EXCEPT ![inFlight] = [jobs[inFlight] EXCEPT !.status = "retrying"]]
    BY <2>1
  <2>3. jobs'[inFlight].status = "retrying" /\ NothingBegins
    BY <2>1, <2>2 DEF Job, NothingBegins
  <2>4. inFlight' = NoJob
    BY <1>2 DEF PublishRejects, Stop
  <2> QED
    BY <2>3, <2>4
<1>3. CASE TimerFires
  BY <1>3 DEF TimerFires, NoLostWakeup, NothingBegins
<1>4. CASE Request
  BY <1>4 DEF Request, Enqueue, NothingBegins
<1>5. ASSUME NEW id \in Queued, CancelQueuedJob(id)
      PROVE  inFlight' = inFlight /\ NothingBegins
  <2>1. /\ id \in DOMAIN jobs /\ jobs \in [DOMAIN jobs -> Job]
        /\ jobs' = [jobs EXCEPT ![id].status = "cancelled"]
    BY <1>5 DEF CancelQueuedJob, TypeOK, Queued
  <2>2. jobs' = [jobs EXCEPT ![id] = [jobs[id] EXCEPT !.status = "cancelled"]]
    BY <2>1
  <2> QED
    BY <1>5, <2>1, <2>2 DEF Job, NothingBegins, CancelQueuedJob
<1>6. CASE Tick \/ MqttConnects \/ MqttCloses \/ EnqueueThrows \/ UNCHANGED vars
  BY <1>6 DEF Tick, MqttConnects, MqttCloses, EnqueueThrows, vars, NothingBegins
<1> QED
  BY <1>1, <1>2, <1>3, <1>4, <1>5, <1>6 DEF Next

\* While a publish awaits its result no attempt is begun, a second one of the same job
\* neither, and the worker is not forgotten; only a publish that has succeeded is followed by
\* the next attempt in the same step.
THEOREM OneWorkerAtATime == Spec => OneWorker
<1>1. Wakeups => NoLostWakeup
  BY DEF Wakeups
<1> QED
  BY <1>1, InitTypeOK, NextTypeOK, InitWakeups, NextWakeups, NextOneWorker, PTL
  DEF Spec, OneWorker

-----------------------------------------------------------------------------
(* The queue while the job in flight stays at its head (CalmSpec).         *)

\* The job in flight is one that is due.
InFlightDue == inFlight # NoJob => jobs[inFlight].runAt <= now

\* What is finished was a job.
FinishedExist == \A i \in DOMAIN finished : finished[i].id \in DOMAIN jobs

\* A job is in one place at most: once in the queue, or once among the finished ones.
Once == IsInjective(printQueue) /\ FinishedExist /\ FinishesOnce

\* The inductive invariant of CalmSpec, beside TypeOK, Wakeups, InOrder and JobsKept.
CalmInv == Calm /\ Once /\ InFlightDue /\ StatusIsTrue

\* The pending jobs as the set of the queue's elements.
LEMMA QueuedElements == Queued = ToSet(printQueue) /\ Queued' = ToSet(printQueue')
BY DEF Queued, ToSet

\* What Finished says of one job.
LEMMA FinishedElements ==
    ASSUME NEW id, NEW status
    PROVE  id \in Finished(status) <=>
               \E i \in DOMAIN finished : finished[i].status = status /\ finished[i].id = id
BY DEF Finished

\* A new entry of the history makes one more job finished.
LEMMA AddHistoryFinished ==
    ASSUME TypeOK, NEW id \in Nat, NEW status \in {"published", "cancelled"},
           addHistory(id, status)
    PROVE  /\ Len(finished) \in Nat /\ DOMAIN finished = 1 .. Len(finished)
           /\ DOMAIN finished' = 1 .. Len(finished) + 1
           /\ \A i \in 1 .. Len(finished) : finished'[i] = finished[i]
           /\ finished'[Len(finished) + 1] = [id |-> id, status |-> status]
           /\ \A any : Finished(any)' = Finished(any) \cup {j \in {id} : any = status}
<1> DEFINE entry == [id |-> id, status |-> status]
           length == Len(finished)
<1>1. finished \in Seq(Outcome) /\ finished' = Append(finished, entry)
  BY DEF TypeOK, addHistory
<1>2. entry \in Outcome /\ entry.id = id /\ entry.status = status
  BY DEF Outcome
<1> HIDE DEF entry
<1>3. /\ length \in Nat /\ DOMAIN finished = 1 .. length
      /\ DOMAIN finished' = 1 .. length + 1
      /\ \A i \in 1 .. length : finished'[i] = finished[i]
      /\ finished'[length + 1] = entry
  BY <1>1, <1>2
<1> HIDE DEF length
<1>4. ASSUME NEW any
      PROVE  Finished(any)' = Finished(any) \cup {j \in {id} : any = status}
  <2>1. ASSUME NEW j
        PROVE  j \in Finished(any)' <=>
                  j \in Finished(any) \/ (j = id /\ any = status)
    <3>1. j \in Finished(any)' <=>
             \E i \in 1 .. length + 1 : finished'[i].status = any /\ finished'[i].id = j
      BY <1>3 DEF Finished
    <3>2. j \in Finished(any) <=>
             \E i \in 1 .. length : finished[i].status = any /\ finished[i].id = j
      BY <1>3, FinishedElements
    <3>3. \A i : i \in 1 .. length + 1 <=> i \in 1 .. length \/ i = length + 1
      BY <1>3
    <3> QED
      BY <1>2, <1>3, <3>1, <3>2, <3>3
  <2> QED
    BY <2>1
<1> QED
  BY <1>3, <1>4 DEF entry, length

\* What a step that leaves the queue and the history alone does to the books: nothing.
LEMMA SameBooks ==
    ASSUME Once, DOMAIN jobs' = DOMAIN jobs, UNCHANGED <<printQueue, finished>>
    PROVE  Once' /\ (JobsKept => JobsKept')
BY DEF Once, FinishedExist, JobsKept, FinishesOnce, Queued, Finished, IsInjective

\* A pending job that is written into the history as it leaves the queue stays in the
\* books, once.
LEMMA BooksOfFinishing ==
    ASSUME TypeOK, Once, NEW id \in Queued, NEW status \in {"published", "cancelled"},
           addHistory(id, status), DOMAIN jobs' = DOMAIN jobs,
           IsInjective(printQueue'), Queued' = Queued \ {id}
    PROVE  Once' /\ (JobsKept => JobsKept')
<1>1. id \in DOMAIN jobs /\ id \in Nat
  BY DEF TypeOK, Queued
<1>2. /\ Len(finished) \in Nat /\ DOMAIN finished = 1 .. Len(finished)
      /\ DOMAIN finished' = 1 .. Len(finished) + 1
      /\ \A i \in 1 .. Len(finished) : finished'[i] = finished[i]
      /\ finished'[Len(finished) + 1] = [id |-> id, status |-> status]
      /\ \A any : Finished(any)' = Finished(any) \cup {j \in {id} : any = status}
  BY <1>1, AddHistoryFinished
<1>3. \A i \in 1 .. Len(finished) + 1 : i \in 1 .. Len(finished) \/ i = Len(finished) + 1
  BY <1>2
<1>4. FinishedExist'
  BY <1>1, <1>2, <1>3 DEF Once, FinishedExist
<1>5. JobsKept => JobsKept'
  <2> SUFFICES ASSUME JobsKept, NEW j \in DOMAIN jobs
               PROVE  j \in (Queued \cup Finished("published") \cup Finished("cancelled"))'
    BY DEF JobsKept
  <2>1. j \in Queued \cup Finished("published") \cup Finished("cancelled")
    BY DEF JobsKept
  <2> QED
    BY <1>2, <2>1
<1>6. FinishesOnce'
  <2>1. ASSUME NEW i \in 1 .. Len(finished) + 1, NEW j \in 1 .. Len(finished) + 1,
               finished'[i].id = finished'[j].id
        PROVE  i = j
    <3>1. \A k \in 1 .. Len(finished) : finished'[k].id # id
      BY <1>2 DEF Once, FinishesOnce
    <3> QED
      BY <1>2, <1>3, <2>1, <3>1, SMTT(30) DEF Once, FinishesOnce
  <2>2. ASSUME NEW i \in 1 .. Len(finished) + 1
        PROVE  finished'[i].id \notin Queued'
    BY <1>2, <1>3 DEF Once, FinishesOnce
  <2> QED
    BY <1>2, <2>1, <2>2 DEF FinishesOnce
<1> QED
  BY <1>4, <1>5, <1>6 DEF Once

\* Each action's effect on the set of the pending jobs.  A resolved publish takes out the
\* job it was for, which is where the job in flight has to be the head.
LEMMA QueuedAfterResolve ==
    ASSUME TypeOK, Calm, IsInjective(printQueue), PublishResolves
    PROVE  /\ inFlight \in Queued
           /\ IsInjective(printQueue')
           /\ Queued' = Queued \ {inFlight}
<1>1. printQueue # <<>> /\ Head(printQueue) = inFlight /\ printQueue' = Tail(printQueue)
  BY DEF Calm, PublishResolves
<1>2. printQueue \in Seq(DOMAIN jobs)
  BY DEF TypeOK
<1>3. /\ IsInjective(Tail(printQueue))
      /\ inFlight \in ToSet(printQueue)
      /\ ToSet(Tail(printQueue)) = ToSet(printQueue) \ {inFlight}
  BY <1>1, <1>2, TailOfInjective
<1> QED
  BY <1>1, <1>3, QueuedElements

LEMMA QueuedAfterCancel ==
    ASSUME TypeOK, IsInjective(printQueue), NEW id \in Queued, CancelQueuedJob(id)
    PROVE  /\ IsInjective(printQueue')
           /\ Queued' = Queued \ {id}
<1>1. PICK k \in DOMAIN printQueue : printQueue[k] = id /\ printQueue' = RemoveAt(printQueue, k)
  BY DEF CancelQueuedJob
<1>2. printQueue \in Seq(DOMAIN jobs) /\ k \in 1 .. Len(printQueue)
  BY <1>1 DEF TypeOK
<1>3. /\ IsInjective(RemoveAt(printQueue, k))
      /\ ToSet(RemoveAt(printQueue, k)) = ToSet(printQueue) \ {printQueue[k]}
  BY <1>2, RemoveFromInjective
<1> QED
  BY <1>1, <1>3, QueuedElements

LEMMA QueuedAfterEnqueue ==
    ASSUME TypeOK, IsInjective(printQueue), NEW requested \in Int, NEW queue \in BOOLEAN,
           Enqueue(requested, queue)
    PROVE  /\ IsInjective(printQueue')
           /\ Queued' = Queued \cup {queueSequence'}
<1> DEFINE id == queueSequence'
<1>1. /\ id \notin DOMAIN jobs /\ DOMAIN jobs' = DOMAIN jobs \cup {id}
      /\ printQueue \in Seq(DOMAIN jobs')
      /\ \E k \in 1 .. Len(printQueue) + 1 : printQueue' = InsertAt(printQueue, k, id)
  BY EnqueueProperties
<1> HIDE DEF id
<1>2. id \notin ToSet(printQueue)
  BY <1>1 DEF TypeOK, ToSet
<1>3. PICK k \in 1 .. Len(printQueue) + 1 : printQueue' = InsertAt(printQueue, k, id)
  BY <1>1
<1>4. /\ IsInjective(InsertAt(printQueue, k, id))
      /\ ToSet(InsertAt(printQueue, k, id)) = ToSet(printQueue) \cup {id}
  BY <1>1, <1>2, InsertIntoInjective
<1> QED
  BY <1>3, <1>4, QueuedElements DEF id

\* Every step keeps the books: it moves one job from the queue to the history, adds one to
\* the queue, or leaves both alone.
LEMMA NextBooks ==
    TypeOK /\ Calm /\ Once /\ [Next]_vars => Once' /\ (JobsKept => JobsKept')
<1> SUFFICES ASSUME TypeOK, Calm, Once, [Next]_vars PROVE Once' /\ (JobsKept => JobsKept')
  OBVIOUS
<1>1. CASE TimerFires
  <2>1. UNCHANGED <<printQueue, finished, mqttConnected>>
    BY <1>1 DEF TimerFires
  <2>2. DOMAIN jobs' = DOMAIN jobs
    <3>1. CASE queueProcessing
      BY <1>1, <3>1 DEF TimerFires
    <3>2. CASE ~queueProcessing
      <4>1. LoopTurn(NoTimer)
        BY <1>1, <3>2 DEF TimerFires
      <4> QED
        BY <2>1, <4>1, LoopTurnProperties DEF TypeOK
    <3> QED
      BY <3>1, <3>2
  <2> QED
    BY <2>1, <2>2, SameBooks
<1>2. CASE PublishResolves
  <2>1. /\ inFlight \in Queued /\ IsInjective(printQueue') /\ Queued' = Queued \ {inFlight}
    BY <1>2, QueuedAfterResolve DEF Once
  <2>2. addHistory(inFlight, "published") /\ LoopTurn(queueTimer) /\ mqttConnected' = mqttConnected
    BY <1>2 DEF PublishResolves
  <2>3. DOMAIN jobs' = DOMAIN jobs
    BY <1>2, <2>2, ResolveProperties, LoopTurnProperties DEF TypeOK
  <2> QED
    BY <2>1, <2>2, <2>3, BooksOfFinishing
<1>3. CASE PublishRejects
  <2>1. DOMAIN jobs' = DOMAIN jobs /\ UNCHANGED <<printQueue, finished>>
    BY <1>3, RejectProperties DEF PublishRejects
  <2> QED
    BY <2>1, SameBooks
<1>4. CASE Request
  <2>1. PICK requested \in Int, queue \in BOOLEAN : Enqueue(requested, queue)
    BY <1>4, RequestIsEnqueue
  <2> DEFINE id == queueSequence'
  <2>2. /\ id \notin DOMAIN jobs /\ DOMAIN jobs' = DOMAIN jobs \cup {id}
        /\ IsInjective(printQueue') /\ Queued' = Queued \cup {id}
    BY <2>1, EnqueueProperties, QueuedAfterEnqueue DEF Once
  <2>3. finished' = finished
    BY <2>1 DEF Enqueue
  <2> HIDE DEF id
  <2> QED
    BY <2>2, <2>3 DEF Once, FinishedExist, JobsKept, FinishesOnce, Finished
<1>5. ASSUME NEW id \in Queued, CancelQueuedJob(id)
      PROVE  Once' /\ (JobsKept => JobsKept')
  <2>1. /\ IsInjective(printQueue') /\ Queued' = Queued \ {id}
        /\ DOMAIN jobs' = DOMAIN jobs
    BY <1>5, QueuedAfterCancel, CancelProperties DEF Once
  <2>2. addHistory(id, "cancelled")
    BY <1>5 DEF CancelQueuedJob
  <2> QED
    BY <2>1, <2>2, BooksOfFinishing
<1>6. CASE Tick \/ MqttConnects \/ MqttCloses \/ EnqueueThrows \/ UNCHANGED vars
  BY <1>6, SameBooks DEF Tick, MqttConnects, MqttCloses, EnqueueThrows, vars
<1> QED
  BY <1>1, <1>2, <1>3, <1>4, <1>5, <1>6 DEF Next

\* A turn of the worker's loop that begins with no pending job shown as publishing ends
\* with the one shown that it publishes, if any, which is due.
LEMMA LoopTurnStatus ==
    ASSUME TypeOK, printQueue' \in Seq(DOMAIN jobs), mqttConnected' \in BOOLEAN, now' = now,
           NEW timer \in Times \cup {NoTimer}, LoopTurn(timer),
           \A id \in Queued' : jobs[id].status \notin {"publishing", "cancelled"}
    PROVE  StatusIsTrue' /\ InFlightDue'
<1>1. jobs \in [DOMAIN jobs -> Job] /\ NoJob \notin DOMAIN jobs
  BY DEF TypeOK, NoJob
<1>2. \A id \in Queued' : id \in DOMAIN jobs
  BY DEF Queued
<1>3. \A id \in DOMAIN jobs : jobs'[id].runAt = jobs[id].runAt
  BY LoopTurnProperties
<1> DEFINE head == Head(printQueue')
<1>4. CASE Publish(timer)
  <2>1. head \in DOMAIN jobs /\ jobs[head].runAt <= now
    BY <1>4, TailElements DEF Publish, HeadIsDue
  <2>2. /\ jobs' = [jobs EXCEPT ![head].status = "publishing", ![head].attempts = @ + 1]
        /\ inFlight' = head
    BY <1>4 DEF Publish
  <2> HIDE DEF head
  <2>3. \A id \in DOMAIN jobs :
           jobs'[id].status = IF id = head THEN "publishing" ELSE jobs[id].status
    BY <1>1, <2>1, <2>2 DEF Job
  <2>4. StatusIsTrue'
    BY <1>2, <2>2, <2>3 DEF StatusIsTrue
  <2>5. InFlightDue'
    BY <1>3, <2>1, <2>2 DEF InFlightDue
  <2> QED
    BY <2>4, <2>5
<1>5. CASE NothingDue
  BY <1>1, <1>2, <1>5 DEF NothingDue, Stop, StatusIsTrue, InFlightDue
<1>6. CASE NotConnected
  <2>1. head \in DOMAIN jobs
    BY <1>6, TailElements DEF NotConnected, HeadIsDue
  <2>2. jobs' = [jobs EXCEPT ![head].status = "waiting_for_mqtt"] /\ inFlight' = NoJob
    BY <1>6 DEF NotConnected, Stop
  <2> HIDE DEF head
  <2>3. \A id \in DOMAIN jobs :
           jobs'[id].status = IF id = head THEN "waiting_for_mqtt" ELSE jobs[id].status
    BY <1>1, <2>1, <2>2 DEF Job
  <2> QED
    BY <1>1, <1>2, <2>2, <2>3 DEF StatusIsTrue, InFlightDue
<1> QED
  BY <1>4, <1>5, <1>6 DEF LoopTurn

\* Every step of CalmSpec keeps what is shown true, and the job in flight due.
LEMMA NextStatus ==
    TypeOK /\ NoLostWakeup /\ CalmInv /\ [Next]_vars => StatusIsTrue' /\ InFlightDue'
<1> SUFFICES ASSUME TypeOK, NoLostWakeup, CalmInv, [Next]_vars
             PROVE  StatusIsTrue' /\ InFlightDue'
  OBVIOUS
<1>1. /\ jobs \in [DOMAIN jobs -> Job] /\ NoJob \notin DOMAIN jobs
      /\ inFlight \in DOMAIN jobs \cup {NoJob}
      /\ \A id \in Queued : id \in DOMAIN jobs
  BY DEF TypeOK, NoJob, Queued
<1>2. Calm /\ Once /\ InFlightDue /\ StatusIsTrue
  BY DEF CalmInv
<1>3. CASE Tick
  <2>1. now \in Int /\ now' = now + 1 /\ UNCHANGED <<jobs, printQueue, inFlight>>
    BY <1>3 DEF Tick, TypeOK, Times
  <2>2. inFlight # NoJob => jobs[inFlight].runAt \in Int
    <3>1. inFlight # NoJob => jobs[inFlight] \in Job
      BY <1>1
    <3> QED
      BY <3>1 DEF Job, Times
  <2> QED
    BY <1>2, <2>1, <2>2 DEF StatusIsTrue, InFlightDue, Queued
<1>4. CASE TimerFires
  <2>1. CASE queueProcessing
    BY <1>2, <1>4, <2>1 DEF TimerFires, StatusIsTrue, InFlightDue, Queued
  <2>2. CASE ~queueProcessing
    <3>1. /\ UNCHANGED <<now, mqttConnected, printQueue>>
          /\ LoopTurn(NoTimer) /\ NoTimer \in Times \cup {NoTimer}
      BY <1>4, <2>2 DEF TimerFires
    <3>2. inFlight = NoJob
      BY <2>2 DEF NoLostWakeup
    <3>3. \A id \in Queued' : jobs[id].status \notin {"publishing", "cancelled"}
      BY <1>1, <1>2, <3>1, <3>2 DEF StatusIsTrue, Queued
    <3>4. printQueue' \in Seq(DOMAIN jobs) /\ mqttConnected' \in BOOLEAN
      BY <3>1 DEF TypeOK
    <3> QED
      BY <3>1, <3>3, <3>4, LoopTurnStatus
  <2> QED
    BY <2>1, <2>2
<1>5. CASE PublishResolves
  <2>1. Queued' = Queued \ {inFlight}
    BY <1>2, <1>5, QueuedAfterResolve DEF Once
  <2>2. \A id \in Queued' : jobs[id].status \notin {"publishing", "cancelled"}
    BY <1>2, <2>1 DEF StatusIsTrue
  <2>3. UNCHANGED <<now, mqttConnected>> /\ LoopTurn(queueTimer)
    BY <1>5 DEF PublishResolves
  <2>4. /\ printQueue' \in Seq(DOMAIN jobs) /\ mqttConnected' \in BOOLEAN
        /\ queueTimer \in Times \cup {NoTimer}
    BY <1>5, <2>3, ResolveProperties DEF TypeOK
  <2> QED
    BY <2>2, <2>3, <2>4, LoopTurnStatus
<1>6. CASE PublishRejects
  <2>1. /\ inFlight \in DOMAIN jobs
        /\ jobs' = [jobs EXCEPT ![inFlight].status = "retrying"]
        /\ inFlight' = NoJob /\ printQueue' = printQueue
    BY <1>1, <1>6 DEF PublishRejects, Stop
  <2>2. \A id \in DOMAIN jobs :
           jobs'[id].status = IF id = inFlight THEN "retrying" ELSE jobs[id].status
    BY <1>1, <2>1 DEF Job
  <2> QED
    BY <1>1, <1>2, <2>1, <2>2 DEF StatusIsTrue, InFlightDue, Queued
<1>7. CASE Request
  <2>1. PICK requested \in Int, queue \in BOOLEAN : Enqueue(requested, queue)
    BY <1>7, RequestIsEnqueue
  <2> DEFINE id == queueSequence'
  <2>2. /\ id \notin DOMAIN jobs /\ id \in Nat \ {0}
        /\ \A j \in DOMAIN jobs : jobs'[j] = jobs[j]
        /\ Queued' = Queued \cup {id}
    BY <1>2, <2>1, EnqueueProperties, QueuedAfterEnqueue DEF Once
  <2>3. UNCHANGED <<now, inFlight>>
    BY <2>1 DEF Enqueue
  <2>4. jobs'[id].status = "queued"
    BY <2>1, <2>2 DEF Enqueue
  <2> HIDE DEF id
  <2> QED
    BY <1>1, <1>2, <2>2, <2>3, <2>4 DEF StatusIsTrue, InFlightDue, NoJob
<1>8. ASSUME NEW id \in Queued, CancelQueuedJob(id)
      PROVE  StatusIsTrue' /\ InFlightDue'
  <2>1. Queued' = Queued \ {id} /\ \A j \in DOMAIN jobs : jobs'[j].runAt = jobs[j].runAt
    BY <1>2, <1>8, QueuedAfterCancel, CancelProperties DEF Once
  <2>2. jobs' = [jobs EXCEPT ![id].status = "cancelled"] /\ UNCHANGED <<now, inFlight>>
    BY <1>8 DEF CancelQueuedJob
  <2>3. \A j \in DOMAIN jobs \ {id} : jobs'[j].status = jobs[j].status
    BY <1>1, <2>2
  <2> QED
    BY <1>1, <1>2, <2>1, <2>2, <2>3 DEF StatusIsTrue, InFlightDue
<1>9. CASE MqttConnects \/ MqttCloses \/ EnqueueThrows \/ UNCHANGED vars
  <2>1. UNCHANGED <<now, jobs, printQueue, inFlight>>
    BY <1>9 DEF MqttConnects, MqttCloses, EnqueueThrows, vars
  <2> QED
    BY <1>2, <2>1 DEF StatusIsTrue, InFlightDue, Queued
<1> QED
  BY <1>3, <1>4, <1>5, <1>6, <1>7, <1>8, <1>9 DEF Next

\* A turn of the worker's loop counts an attempt of the job that it publishes.
LEMMA LoopTurnAttempts ==
    ASSUME TypeOK, printQueue' \in Seq(DOMAIN jobs), NEW timer, LoopTurn(timer)
    PROVE  \A id \in DOMAIN jobs :
              /\ jobs[id].attempts \in Nat /\ jobs'[id].attempts >= jobs[id].attempts
              /\ inFlight' = id => jobs'[id].attempts > jobs[id].attempts
<1>1. jobs \in [DOMAIN jobs -> Job] /\ NoJob \notin DOMAIN jobs
  BY DEF TypeOK, NoJob
<1>2. \A id \in DOMAIN jobs : jobs[id].attempts \in Nat
  BY <1>1 DEF Job
<1> DEFINE head == Head(printQueue')
<1>3. CASE Publish(timer)
  <2>1. head \in DOMAIN jobs
    BY <1>3, TailElements DEF Publish, HeadIsDue
  <2>2. /\ jobs' = [jobs EXCEPT ![head].status = "publishing", ![head].attempts = @ + 1]
        /\ inFlight' = head
    BY <1>3 DEF Publish
  <2> HIDE DEF head
  <2>3. \A id \in DOMAIN jobs : jobs'[id].attempts =
                                   IF id = head THEN jobs[id].attempts + 1 ELSE jobs[id].attempts
    BY <1>1, <2>1, <2>2 DEF Job
  <2> QED
    BY <1>2, <2>2, <2>3
<1>4. CASE NothingDue
  BY <1>1, <1>2, <1>4 DEF NothingDue, Stop
<1>5. CASE NotConnected
  <2>1. head \in DOMAIN jobs
    BY <1>5, TailElements DEF NotConnected, HeadIsDue
  <2>2. jobs' = [jobs EXCEPT ![head].status = "waiting_for_mqtt"] /\ inFlight' = NoJob
    BY <1>5 DEF NotConnected, Stop
  <2> HIDE DEF head
  <2>3. \A id \in DOMAIN jobs : jobs'[id].attempts = jobs[id].attempts
    BY <1>1, <2>1, <2>2 DEF Job
  <2> QED
    BY <1>1, <1>2, <2>2, <2>3
<1> QED
  BY <1>3, <1>4, <1>5 DEF LoopTurn

\* Attempts are only added, and one is for a job that is newly in flight.
LEMMA NextAttempts ==
    ASSUME TypeOK, NoLostWakeup, [Next]_vars
    PROVE  \A id \in DOMAIN jobs :
              /\ jobs[id].attempts \in Nat /\ jobs'[id].attempts >= jobs[id].attempts
              /\ inFlight' = id => inFlight = id \/ jobs'[id].attempts > jobs[id].attempts
<1>1. jobs \in [DOMAIN jobs -> Job] /\ NoJob \notin DOMAIN jobs
  BY DEF TypeOK, NoJob
<1>2. \A id \in DOMAIN jobs : jobs[id].attempts \in Nat
  BY <1>1 DEF Job
<1>3. CASE TimerFires
  <2>1. CASE queueProcessing
    BY <1>2, <1>3, <2>1 DEF TimerFires
  <2>2. CASE ~queueProcessing
    <3>1. printQueue' = printQueue /\ LoopTurn(NoTimer)
      BY <1>3, <2>2 DEF TimerFires
    <3> QED
      BY <3>1, LoopTurnAttempts DEF TypeOK
  <2> QED
    BY <2>1, <2>2
<1>4. CASE PublishResolves
  <2>1. printQueue' \in Seq(DOMAIN jobs) /\ LoopTurn(queueTimer)
    BY <1>4, ResolveProperties DEF PublishResolves
  <2> QED
    BY <2>1, LoopTurnAttempts
<1>5. CASE PublishRejects
  <2>1. /\ inFlight \in DOMAIN jobs
        /\ jobs' = [jobs EXCEPT ![inFlight].status = "retrying"] /\ inFlight' = NoJob
    BY <1>1, <1>5 DEF PublishRejects, Stop, TypeOK
  <2>2. \A id \in DOMAIN jobs : jobs'[id].attempts = jobs[id].attempts
    BY <1>1, <2>1 DEF Job
  <2> QED
    BY <1>1, <1>2, <2>1, <2>2
<1>6. CASE Request
  <2>1. PICK requested \in Int, queue \in BOOLEAN : Enqueue(requested, queue)
    BY <1>6, RequestIsEnqueue
  <2>2. inFlight' = inFlight /\ \A id \in DOMAIN jobs : jobs'[id] = jobs[id]
    BY <2>1, EnqueueProperties DEF Enqueue
  <2> QED
    BY <1>2, <2>2
<1>7. ASSUME NEW id \in Queued, CancelQueuedJob(id)
      PROVE  \A j \in DOMAIN jobs : jobs'[j].attempts = jobs[j].attempts /\ inFlight' = inFlight
  <2>1. jobs' = [jobs EXCEPT ![id].status = "cancelled"] /\ inFlight' = inFlight
    BY <1>7 DEF CancelQueuedJob
  <2> QED
    BY <1>1, <2>1 DEF Job
<1>8. CASE Tick \/ MqttConnects \/ MqttCloses \/ EnqueueThrows \/ UNCHANGED vars
  BY <1>2, <1>8 DEF Tick, MqttConnects, MqttCloses, EnqueueThrows, vars
<1>9. CASE \E id \in Queued : CancelQueuedJob(id)
  BY <1>2, <1>7, <1>9
<1> QED
  BY <1>3, <1>4, <1>5, <1>6, <1>8, <1>9 DEF Next

\* Initially nothing is pending, finished or in flight.
LEMMA InitCalmInv == Init => CalmInv /\ JobsKept
BY DEF Init, CalmInv, Calm, Once, IsInjective, FinishedExist, JobsKept, FinishesOnce,
       InFlightDue, StatusIsTrue, Queued, NoJob

\* CalmInv is inductive for the steps of CalmSpec.
LEMMA NextCalmInv ==
    TypeOK /\ NoLostWakeup /\ CalmInv /\ [Next /\ Calm']_vars
        => CalmInv' /\ (JobsKept => JobsKept')
<1> SUFFICES ASSUME TypeOK, NoLostWakeup, CalmInv, [Next /\ Calm']_vars
             PROVE  CalmInv' /\ (JobsKept => JobsKept')
  OBVIOUS
<1>1. Calm'
  BY DEF vars, CalmInv, Calm
<1>2. [Next]_vars
  OBVIOUS
<1>3. Once' /\ (JobsKept => JobsKept')
  BY <1>2, NextBooks DEF CalmInv
<1>4. StatusIsTrue' /\ InFlightDue'
  BY <1>2, NextStatus
<1> QED
  BY <1>1, <1>3, <1>4 DEF CalmInv

\* CalmSpec has the invariants of Spec, and keeps the books.
LEMMA CalmInvariants ==
    CalmSpec => [](TypeOK /\ Wakeups /\ InOrder(printQueue, jobs) /\ CalmInv /\ JobsKept)
<1>1. Init => InOrder(printQueue, jobs)
  BY DEF Init, InOrder
<1>2. TypeOK /\ TypeOK' /\ InOrder(printQueue, jobs) /\ [Next]_vars
         => InOrder(printQueue, jobs)'
  BY NextInOrder
<1>3. [Next /\ Calm']_vars => [Next]_vars
  OBVIOUS
<1>4. Wakeups => NoLostWakeup
  BY DEF Wakeups
<1> QED
  BY <1>1, <1>2, <1>3, <1>4, InitTypeOK, NextTypeOK, InitWakeups, NextWakeups, InitCalmInv,
     NextCalmInv, PTL DEF CalmSpec

\* While the job in flight stays at the head, the queue drops no job: each is pending until
\* it is published or cancelled, whatever fails in between.
THEOREM AcceptedJobsKept == CalmSpec => []JobsKept
<1> QED
  BY CalmInvariants, PTL

\* Then no job finishes twice, or is pending when it has finished.
THEOREM JobsFinishOnce == CalmSpec => []FinishesOnce
<1>1. CalmInv => FinishesOnce
  BY DEF CalmInv, Once
<1> QED
  BY <1>1, CalmInvariants, PTL

\* Then GET /queue shows as publishing the job that is being published, and no other.
THEOREM ShownStatusIsTrue == CalmSpec => []StatusIsTrue
<1>1. CalmInv => StatusIsTrue
  BY DEF CalmInv
<1> QED
  BY <1>1, CalmInvariants, PTL

-----------------------------------------------------------------------------
(* The queue implements PrintLedger.                                       *)

\* The pending jobs with their times, as the ledger has them.
Pending == [id \in Queued |-> jobs[id].runAt]

\* The ledger counts as the queue does.
LEMMA LedgerCardinality == ASSUME NEW S PROVE Ledger!Cardinality(S) = Cardinality(S)
BY DEF Ledger!Cardinality, Cardinality

\* No step changes when a job is due.
LEMMA NextDueTimes ==
    TypeOK /\ [Next]_vars =>
        \A id \in DOMAIN jobs : id \in DOMAIN jobs' /\ jobs'[id].runAt = jobs[id].runAt
<1> SUFFICES ASSUME TypeOK, [Next]_vars
             PROVE  \A id \in DOMAIN jobs : /\ id \in DOMAIN jobs'
                                            /\ jobs'[id].runAt = jobs[id].runAt
  OBVIOUS
<1>1. CASE TimerFires
  <2>1. CASE queueProcessing
    BY <1>1, <2>1 DEF TimerFires
  <2>2. CASE ~queueProcessing
    <3>1. UNCHANGED <<mqttConnected, printQueue>> /\ LoopTurn(NoTimer)
      BY <1>1, <2>2 DEF TimerFires
    <3> QED
      BY <3>1, LoopTurnProperties DEF TypeOK
  <2> QED
    BY <2>1, <2>2
<1>2. CASE PublishResolves
  <2>1. mqttConnected' = mqttConnected /\ LoopTurn(queueTimer)
    BY <1>2 DEF PublishResolves
  <2> QED
    BY <1>2, <2>1, ResolveProperties, LoopTurnProperties DEF TypeOK
<1>3. CASE PublishRejects
  BY <1>3, RejectProperties
<1>4. CASE Request
  <2>1. PICK requested \in Int, queue \in BOOLEAN : Enqueue(requested, queue)
    BY <1>4, RequestIsEnqueue
  <2> QED
    BY <2>1, EnqueueProperties
<1>5. ASSUME NEW id \in Queued, CancelQueuedJob(id)
      PROVE  \A j \in DOMAIN jobs : j \in DOMAIN jobs' /\ jobs'[j].runAt = jobs[j].runAt
  BY <1>5, CancelProperties
<1>6. CASE Tick \/ MqttConnects \/ MqttCloses \/ EnqueueThrows \/ UNCHANGED vars
  BY <1>6 DEF Tick, MqttConnects, MqttCloses, EnqueueThrows, vars
<1> QED
  BY <1>1, <1>2, <1>3, <1>4, <1>5, <1>6 DEF Next

\* The head of the queue is due no later than any other pending job.
LEMMA HeadIsEarliest ==
    ASSUME TypeOK, InOrder(printQueue, jobs), printQueue # <<>>
    PROVE  \A id \in Queued : jobs[Head(printQueue)].runAt <= jobs[id].runAt
<1>1. /\ Len(printQueue) \in Nat \ {0} /\ DOMAIN printQueue = 1 .. Len(printQueue)
      /\ Head(printQueue) = printQueue[1]
      /\ \A i \in 1 .. Len(printQueue) : printQueue[i] \in DOMAIN jobs
  BY TailElements DEF TypeOK
<1>2. \A id \in DOMAIN jobs : jobs[id].runAt \in Int
  <2> SUFFICES ASSUME NEW id \in DOMAIN jobs PROVE jobs[id].runAt \in Int
    OBVIOUS
  <2>1. jobs[id] \in Job
    BY DEF TypeOK
  <2> QED
    BY <2>1, ConstantsAssumption DEF Job, Times
<1> SUFFICES ASSUME NEW i \in 1 .. Len(printQueue)
             PROVE  jobs[printQueue[1]].runAt <= jobs[printQueue[i]].runAt
  BY <1>1 DEF Queued
<1>3. CASE i = 1
  BY <1>1, <1>2, <1>3
<1>4. CASE i # 1
  <2>1. NotLater(jobs, printQueue[1], printQueue[i])
    BY <1>1, <1>4 DEF InOrder
  <2>2. /\ printQueue[1] \in DOMAIN jobs /\ printQueue[i] \in DOMAIN jobs
    BY <1>1
  <2> QED
    BY <1>2, <2>1, <2>2 DEF NotLater
<1> QED
  BY <1>3, <1>4

\* Printing and cancelling a pending job, in the ledger's terms.
LEMMA PendingWithout ==
    ASSUME NEW id \in Queued, Queued' = Queued \ {id},
           \A j \in Queued : jobs'[j].runAt = jobs[j].runAt
    PROVE  Pending' = [j \in DOMAIN Pending \ {id} |-> Pending[j]]
BY DEF Pending

\* Every step of CalmSpec is a step of the ledger, or leaves it as it is.
LEMMA NextLedger ==
    ASSUME TypeOK, InOrder(printQueue, jobs), CalmInv, [Next]_vars
    PROVE  [Ledger!Next]_<<now, Pending, Finished("published"), Finished("cancelled")>>
<1>1. /\ \A id \in DOMAIN jobs : jobs'[id].runAt = jobs[id].runAt
      /\ Queued \subseteq DOMAIN jobs
  BY NextDueTimes DEF TypeOK, Queued
<1>2. Calm /\ Once /\ InFlightDue
  BY DEF CalmInv
<1>3. ASSUME UNCHANGED <<printQueue, finished>>
      PROVE  /\ Pending' = Pending
             /\ UNCHANGED <<Finished("published"), Finished("cancelled")>>
  <2>1. Queued' = Queued
    BY <1>3 DEF Queued
  <2> QED
    BY <1>1, <1>3, <2>1 DEF Pending, Finished
<1>4. CASE Tick
  <2>1. now' > now /\ UNCHANGED <<printQueue, finished>>
    BY <1>4 DEF Tick, TypeOK, Times
  <2>2. Ledger!Elapse
    BY <1>3, <2>1 DEF Ledger!Elapse, Pending
  <2> QED
    BY <2>2 DEF Ledger!Next
<1>5. CASE Request
  <2>1. PICK requested \in Int, queue \in BOOLEAN : Enqueue(requested, queue)
    BY <1>5, RequestIsEnqueue
  <2> DEFINE id == queueSequence'
  <2>2. /\ id \notin DOMAIN jobs /\ jobs'[id] \in Job
        /\ Queued' = Queued \cup {id}
    BY <1>2, <2>1, EnqueueProperties, QueuedAfterEnqueue DEF Once
  <2>3. now' = now /\ finished' = finished /\ Len(printQueue) < MaxJobs
    BY <2>1 DEF Enqueue
  <2> HIDE DEF id
  <2>4. Cardinality(Queued) < MaxJobs
    <3>1. Cardinality(Queued) \in Nat /\ Cardinality(Queued) <= Len(printQueue)
      BY ElementsAtMostLength, QueuedElements DEF TypeOK
    <3> QED
      BY <2>3, <3>1, ConstantsAssumption DEF TypeOK
  <2>5. id \notin Finished("published") \cup Finished("cancelled")
    <3>1. \A any : id \notin Finished(any)
      BY <1>2, <2>2, FinishedElements DEF Once, FinishedExist
    <3> QED
      BY <3>1
  <2>6. /\ DOMAIN Pending = Queued /\ DOMAIN Pending' = Queued'
        /\ \A j \in Queued : Pending'[j] = Pending[j]
        /\ Pending'[id] \in Nat
    BY <1>1, <2>2, ConstantsAssumption DEF Pending, Job, Times
  <2>7. id \in DOMAIN Pending' \ (DOMAIN Pending \cup Finished("published") \cup Finished("cancelled"))
    BY <1>1, <2>2, <2>5, <2>6
  <2>8. /\ Finished("published")' = Finished("published")
        /\ Finished("cancelled")' = Finished("cancelled")
    BY <2>3 DEF Finished
  <2>9. Ledger!Cardinality(DOMAIN Pending) < MaxJobs
    BY <2>4, <2>6, LedgerCardinality
  <2>10. Ledger!Accept
    BY <2>2, <2>3, <2>6, <2>7, <2>8, <2>9 DEF Ledger!Accept, Ledger!Known, Pending
  <2> QED
    BY <2>10 DEF Ledger!Next
<1>6. CASE PublishResolves
  <2>1. /\ inFlight \in Queued /\ Queued' = Queued \ {inFlight}
        /\ printQueue # <<>> /\ Head(printQueue) = inFlight
    BY <1>2, <1>6, QueuedAfterResolve DEF Once, Calm, PublishResolves
  <2>2. now' = now /\ inFlight # NoJob /\ addHistory(inFlight, "published")
    BY <1>6 DEF PublishResolves
  <2>3. inFlight \in Nat
    BY <1>6, ResolveProperties
  <2>4. \A any : Finished(any)' = Finished(any) \cup {j \in {inFlight} : any = "published"}
    BY <2>2, <2>3, AddHistoryFinished
  <2>5. /\ Finished("published")' = Finished("published") \cup {inFlight}
        /\ Finished("cancelled")' = Finished("cancelled")
    BY <2>4
  <2>6. jobs[inFlight].runAt <= now
    BY <1>2, <2>2 DEF InFlightDue
  <2>7. \A j \in Queued : jobs[inFlight].runAt <= jobs[j].runAt
    BY <2>1, HeadIsEarliest
  <2>8. Pending' = [j \in DOMAIN Pending \ {inFlight} |-> Pending[j]]
    BY <1>1, <2>1, PendingWithout
  <2>9. PICK id \in Queued : id = inFlight
    BY <2>1
  <2>10. Ledger!PrintJob(id)
    BY <2>1, <2>2, <2>5, <2>6, <2>7, <2>8, <2>9
    DEF Ledger!PrintJob, Ledger!Without, Pending
  <2> QED
    BY <2>10 DEF Ledger!Next
<1>7. ASSUME NEW id \in Queued, CancelQueuedJob(id)
      PROVE  Ledger!Next
  <2>1. Queued' = Queued \ {id}
    BY <1>2, <1>7, QueuedAfterCancel DEF Once
  <2>0. id \in Nat
    BY <1>1 DEF TypeOK
  <2>2. now' = now /\ addHistory(id, "cancelled")
    BY <1>7 DEF CancelQueuedJob
  <2>3. \A any : Finished(any)' = Finished(any) \cup {j \in {id} : any = "cancelled"}
    BY <2>0, <2>2, AddHistoryFinished
  <2>4. /\ Finished("cancelled")' = Finished("cancelled") \cup {id}
        /\ Finished("published")' = Finished("published")
    BY <2>3
  <2>5. Pending' = [j \in DOMAIN Pending \ {id} |-> Pending[j]]
    BY <1>1, <2>1, PendingWithout
  <2>6. Ledger!Cancel(id)
    BY <2>2, <2>4, <2>5 DEF Ledger!Cancel, Ledger!Without, Pending
  <2> QED
    BY <2>6 DEF Ledger!Next
<1>8. CASE MqttConnects \/ MqttCloses \/ TimerFires \/ PublishRejects \/ EnqueueThrows
           \/ UNCHANGED vars
  <2>1. UNCHANGED <<now, printQueue, finished>>
    BY <1>8 DEF MqttConnects, MqttCloses, TimerFires, PublishRejects, EnqueueThrows, vars
  <2> QED
    BY <1>3, <2>1
<1> QED
  BY <1>4, <1>5, <1>6, <1>7, <1>8 DEF Next

\* While the job in flight stays at the head, the queue implements the ledger: what is
\* accepted is printed or cancelled, one of the two and once, and printed no sooner than
\* it is due and in the order of the due times, whatever the connection does.
THEOREM ImplementsLedger == CalmSpec => LedgerSpec
<1>1. Init => Ledger!Init
  <2> SUFFICES ASSUME Init PROVE Ledger!Init
    OBVIOUS
  <2>1. now \in Nat /\ Queued = {} /\ Finished("published") = {} /\ Finished("cancelled") = {}
    BY DEF Init, Queued, Finished
  <2> QED
    BY <2>1 DEF Ledger!Init
<1>2. TypeOK /\ InOrder(printQueue, jobs) /\ CalmInv /\ [Next]_vars
         => [Ledger!Next]_<<now, Pending, Finished("published"), Finished("cancelled")>>
  BY NextLedger
<1>3. [Next /\ Calm']_vars => [Next]_vars
  OBVIOUS
<1> QED
  BY <1>1, <1>2, <1>3, CalmInvariants, PTL
  DEF CalmSpec, LedgerSpec, Ledger!Spec, Ledger!ledger, Pending

-----------------------------------------------------------------------------
(* What an answer tells.                                                    *)

\* The operations that put something on the topic.
Prints == {"print", "publish"}

\* AnswerTellsEffect of one answer and the copies there are of its request's payload; and
\* what is answered as queued is to be printed.
AnswerTells(a, c) ==
    /\ a.status \in {202, 401, 403, 404, 405, 406, 503} => c = <<>> /\ a.outcome # "queued"
    /\ a.operation \notin Prints => c = <<>>
    /\ a.operation \in Prints /\ a.outcome = "ok" => c = <<"whole">>
    /\ a.outcome = "error" => Len(c) <= 1 /\ (c # <<>> => a.sound)
    /\ a.status = 400 /\ a.outcome \in {"ok", "queued"} => ~a.hasId
    /\ a.outcome = "queued" => a.operation \in Prints

\* A request has put nothing on the topic until its publish is settled, and only one that
\* prints awaits a publish.
Tells(q, c) ==
    /\ q.pc \in {"new", "composing", "publishing", "lost", "answered"}
    /\ q.pc \in {"new", "composing", "publishing"} => c = <<>>
    /\ q.pc \in {"composing", "publishing"} => q = [pc |-> q.pc, message |-> q.message]
    /\ q.pc = "composing" => Operation(q.message) \in {"print", "preview"}
    /\ q.pc = "publishing" => Operation(q.message) \in Prints /\ Sound(q.message)
    /\ q.pc = "answered" => AnswerTells(q, c)

AnswersTell == \A r \in Requests : Tells(request[r], copies[r])

Copies == Seq({"cut", "whole"})

ServerTypes == request = [r \in Requests |-> request[r]] /\ copies \in [Requests -> Copies]

\* What was done, or failed in the middle, is answered 200 or 400.
LEMMA StatusOfDone ==
    ASSUME NEW m, NEW outcome \in {"ok", "queued", "error"}
    PROVE  StatusOf(m, outcome) = 200 \/ StatusOf(m, outcome) = 400
<1>1. CASE m.route = "mcp"
  <2>1. StatusOf(m, outcome) = IF isJsonRpcRequest(m.body) THEN 200 ELSE 400
    BY <1>1 DEF StatusOf
  <2> QED
    BY <2>1
<1>2. CASE m.route # "mcp"
  <2>1. StatusOf(m, outcome) = IF outcome = "error" THEN 400 ELSE 200
    BY <1>2 DEF StatusOf
  <2> QED
    BY <2>1
<1> QED
  BY <1>1, <1>2

\* Over MCP only a message with a method is carried out.
LEMMA MethodNeeded ==
    ASSUME NEW m, m.route = "mcp",
           Operation(m) \in {"ok", "print", "preview", "publish", "cancel"}
    PROVE  HasMethod(m.body)
<1>1. Operation(m) = IF McpRefusal(m) # 0 THEN "refused" ELSE PostOperation(m.body)
  BY DEF Operation
<1>2. PostOperation(m.body) \in {"ok", "print", "preview", "publish", "cancel"}
  BY <1>1
<1>3. isJsonRpcRequest(m.body) \/ isJsonRpcNotification(m.body)
  BY <1>2 DEF PostOperation
<1> QED
  BY <1>3 DEF isJsonRpcRequest, isJsonRpcNotification

\* Something that was done is answered 400 only if the message has no id.
LEMMA DoneWithoutId ==
    ASSUME NEW m, NEW outcome \in {"ok", "queued"}, NEW job,
           Operation(m) \in {"ok", "print", "preview", "publish", "cancel"},
           StatusOf(m, outcome) = 400
    PROVE  ~AnswerTo(m, outcome, job).hasId
<1>1. m.route = "mcp" /\ ~isJsonRpcRequest(m.body)
  BY DEF StatusOf
<1>2. ~m.body.id
  BY <1>1, MethodNeeded DEF isJsonRpcRequest
<1> QED
  BY <1>1, <1>2 DEF AnswerTo

\* The answers that are given tell what was done.
LEMMA AnswerTold ==
    ASSUME NEW m, NEW outcome, NEW job, NEW c \in Copies,
           \/ outcome \in {"refused", "none", "error", "not_found", "unavailable"} /\ c = <<>>
           \/ outcome = "error" /\ Operation(m) \in Prints /\ Sound(m) /\ Len(c) <= 1
           \/ outcome = "ok" /\ Operation(m) \in {"ok", "preview", "cancel"} /\ c = <<>>
           \/ outcome = "ok" /\ Operation(m) \in Prints /\ c = <<"whole">>
           \/ outcome = "queued" /\ Operation(m) \in Prints /\ c = <<>>
    PROVE  Tells(AnswerTo(m, outcome, job), c)
<1> DEFINE a == AnswerTo(m, outcome, job)
<1>1. /\ a.pc = "answered" /\ a.outcome = outcome /\ a.operation = Operation(m)
      /\ a.status = StatusOf(m, outcome)
      /\ Sound(m) => a.sound
  BY DEF AnswerTo
<1>2. ASSUME outcome \in {"ok", "queued"}, StatusOf(m, outcome) = 400,
             Operation(m) \in {"ok", "print", "preview", "publish", "cancel"}
      PROVE  ~a.hasId
  BY <1>2, DoneWithoutId
<1> HIDE DEF a
<1>3. outcome \in {"ok", "queued", "error"} => a.status = 200 \/ a.status = 400
  BY <1>1, StatusOfDone
<1>4. c = <<>> => Len(c) = 0
  BY DEF Copies
<1>5. AnswerTells(a, c)
  BY <1>1, <1>2, <1>3, <1>4 DEF AnswerTells, Prints
<1>6. Tells(a, c)
  BY <1>1, <1>5 DEF Tells
<1> QED
  BY <1>6 DEF a

-----------------------------------------------------------------------------
(* Every step answers truly.                                                *)

\* A request's own step is judged by the request and its copies as it leaves them.
LEMMA OneAnswers ==
    ASSUME ServerTypes, AnswersTell, NEW r \in Requests, NEW q, NEW c \in Copies, Tells(q, c),
           request' = [request EXCEPT ![r] = q], copies' = [copies EXCEPT ![r] = c]
    PROVE  ServerTypes' /\ AnswersTell'
<1>1. /\ request' = [s \in Requests |-> IF s = r THEN q ELSE request[s]]
      /\ copies' = [s \in Requests |-> IF s = r THEN c ELSE copies[s]]
  BY DEF ServerTypes
<1>2. \A s \in Requests : copies[s] \in Copies
  BY DEF ServerTypes
<1>3. ServerTypes'
  BY <1>1, <1>2 DEF ServerTypes
<1>4. AnswersTell'
  BY <1>1 DEF AnswersTell
<1> QED
  BY <1>3, <1>4

\* A request that is handed on to the queue or to the publisher has put nothing on the
\* topic.
LEMMA PublishOrQueueTold ==
    ASSUME NEW r \in Requests, NEW m, PublishOrQueue(r, m), Operation(m) \in Prints,
           Operation(m) = "publish" \/ Work(m).renders
    PROVE  \E q : request' = [request EXCEPT ![r] = q] /\ Tells(q, <<>>)
<1>1. <<>> \in Copies
  BY DEF Copies
<1>2. ASSUME NEW outcome \in {"error", "unavailable", "queued"}, NEW job,
             Answer(r, m, outcome, job)
      PROVE  \E q : request' = [request EXCEPT ![r] = q] /\ Tells(q, <<>>)
  <2>1. Tells(AnswerTo(m, outcome, job), <<>>)
    BY <1>1, AnswerTold
  <2> QED
    BY <1>2, <2>1 DEF Answer
<1>3. ASSUME Waits(r, m, "publishing"), Work(m).when = "now"
      PROVE  \E q : request' = [request EXCEPT ![r] = q] /\ Tells(q, <<>>)
  <2>1. Sound(m)
    BY <1>3 DEF Sound
  <2>2. Tells([pc |-> "publishing", message |-> m], <<>>)
    BY <2>1 DEF Tells
  <2> QED
    BY <1>3, <2>2 DEF Waits
<1>4. \/ \E outcome \in {"error", "unavailable", "queued"} : \E job : Answer(r, m, outcome, job)
      \/ Waits(r, m, "publishing") /\ Work(m).when = "now"
  BY DEF PublishOrQueue
<1> QED
  BY <1>2, <1>3, <1>4

LEMMA RequestTold ==
    ASSUME ServerTypes, AnswersTell, NEW r \in Requests, RequestStep(r)
    PROVE  ServerTypes' /\ AnswersTell'
<1>1. /\ copies[r] \in Copies /\ Tells(request[r], copies[r])
      /\ copies' = copies => copies' = [copies EXCEPT ![r] = copies[r]]
  BY DEF ServerTypes, AnswersTell
<1>2. ASSUME NEW m, PublishOrQueue(r, m), Operation(m) \in Prints, copies[r] = <<>>,
             Operation(m) = "publish" \/ Work(m).renders, copies' = copies
      PROVE  ServerTypes' /\ AnswersTell'
  BY <1>1, <1>2, PublishOrQueueTold, OneAnswers
<1>3. ASSUME NEW m, NEW outcome, NEW job, Answer(r, m, outcome, job), NEW c \in Copies,
             copies' = [copies EXCEPT ![r] = c],
             \/ outcome \in {"refused", "none", "error", "not_found", "unavailable"} /\ c = <<>>
             \/ outcome = "error" /\ Operation(m) \in Prints /\ Sound(m) /\ Len(c) <= 1
             \/ outcome = "ok" /\ Operation(m) \in {"ok", "preview", "cancel"} /\ c = <<>>
             \/ outcome = "ok" /\ Operation(m) \in Prints /\ c = <<"whole">>
      PROVE  ServerTypes' /\ AnswersTell'
  <2>1. Tells(AnswerTo(m, outcome, job), c)
    BY <1>3, AnswerTold
  <2>2. request' = [request EXCEPT ![r] = AnswerTo(m, outcome, job)]
    BY <1>3 DEF Answer
  <2> QED
    BY <1>3, <2>1, <2>2, OneAnswers
<1>4. ASSUME NEW m, Receive(r, m)
      PROVE  ServerTypes' /\ AnswersTell'
  <2>1. copies[r] = <<>> /\ copies' = copies
    BY <1>1, <1>4 DEF Receive, Tells
  <2>2. CASE Operation(m) \in {"refused", "error", "none", "ok"}
             /\ Answer(r, m, Operation(m), NoJob)
    BY <1>1, <1>3, <2>1, <2>2
  <2>3. CASE Operation(m) \in {"print", "preview"} /\ Waits(r, m, "composing")
    <3>1. Tells([pc |-> "composing", message |-> m], <<>>)
      BY <2>3 DEF Tells
    <3> QED
      BY <1>1, <2>1, <2>3, <3>1, OneAnswers DEF Waits
  <2>4. CASE Operation(m) = "publish" /\ PublishOrQueue(r, m)
    BY <1>2, <2>1, <2>4 DEF Prints
  <2>5. CASE Answer(r, m, IF m.route = "mcp" THEN "error" ELSE "not_found", NoJob)
    <3>1. (IF m.route = "mcp" THEN "error" ELSE "not_found") \in {"error", "not_found"}
      OBVIOUS
    <3> QED
      BY <1>1, <1>3, <2>1, <2>5, <3>1
  <2>6. CASE Operation(m) = "cancel" /\ Answer(r, m, "ok", Work(m).target)
    BY <1>1, <1>3, <2>1, <2>6
  <2> QED
    BY <1>4, <2>2, <2>3, <2>4, <2>5, <2>6 DEF Receive
<1>m. PICK m : m = request[r].message
  OBVIOUS
<1>5. CASE Composed(r)
  <2>1. copies[r] = <<>> /\ copies' = copies /\ Operation(m) \in {"print", "preview"}
    BY <1>m, <1>1, <1>5 DEF Composed, Tells
  <2>2. \/ Answer(r, m, "error", NoJob)
        \/ Operation(m) = "preview" /\ Answer(r, m, "ok", NoJob)
        \/ Work(m).renders /\ Operation(m) = "print" /\ PublishOrQueue(r, m)
    BY <1>m, <1>5 DEF Composed
  <2> QED
    BY <1>1, <1>2, <1>3, <2>1, <2>2 DEF Prints
<1>6. CASE DirectResolves(r)
  <2>1. copies[r] = <<>> /\ Operation(m) \in Prints
    BY <1>m, <1>1, <1>6 DEF DirectResolves, Tells
  <2>2. /\ copies' = [copies EXCEPT ![r] = <<"whole">>] /\ Answer(r, m, "ok", NoJob)
        /\ <<"whole">> \in Copies
    BY <1>m, <1>6, <2>1 DEF DirectResolves, Copies
  <2>3. Tells(AnswerTo(m, "ok", NoJob), <<"whole">>)
    BY <2>1, <2>2, AnswerTold
  <2>4. PICK q : Tells(q, <<"whole">>) /\ request' = [request EXCEPT ![r] = q]
    BY <2>2, <2>3 DEF Answer
  <2> QED
    BY <2>2, <2>4, OneAnswers
<1>7. CASE DirectRejects(r)
  <2>1. copies[r] = <<>> /\ Operation(m) \in Prints /\ Sound(m)
    BY <1>m, <1>1, <1>7 DEF DirectRejects, Tells
  <2>2. PICK c \in Remains(copies[r]) : copies' = [copies EXCEPT ![r] = c]
    BY <1>7 DEF DirectRejects
  <2>3. c = <<>> \/ c = <<"cut">> \/ c = <<"whole">>
    BY <2>1 DEF Remains
  <2>4. c \in Copies /\ Len(c) <= 1
    <3>1. CASE c = <<>>
      BY <3>1 DEF Copies
    <3>2. CASE c = <<"cut">>
      BY <3>2 DEF Copies
    <3>3. CASE c = <<"whole">>
      BY <3>3 DEF Copies
    <3> QED
      BY <2>3, <3>1, <3>2, <3>3
  <2>5. Tells(AnswerTo(m, "error", NoJob), c)
    BY <2>1, <2>4, AnswerTold
  <2>6. PICK q : Tells(q, c) /\ request' = [request EXCEPT ![r] = q]
    BY <1>m, <1>7, <2>5 DEF DirectRejects, Answer
  <2> QED
    BY <2>2, <2>4, <2>6, OneAnswers
<1> QED
  BY <1>4, <1>5, <1>6, <1>7 DEF RequestStep

\* What is answered as queued may be on the topic any number of times.
LEMMA QueuedMayPrint ==
    ASSUME ServerTypes, AnswersTell, request' = request, copies' \in [Requests -> Copies],
           \A r \in Requests : r \notin Acknowledged => copies'[r] = copies[r]
    PROVE  ServerTypes' /\ AnswersTell'
<1>1. ASSUME NEW r \in Requests
      PROVE  Tells(request[r], copies'[r])
  BY DEF AnswersTell, Tells, AnswerTells, Acknowledged, Prints
<1> QED
  BY <1>1 DEF ServerTypes, AnswersTell

\* One more copy, or a part of one, or nothing.
LEMMA CopyAdded ==
    ASSUME NEW before \in Copies, NEW c \in Remains(before)
    PROVE  /\ c \in Copies /\ Len(before) <= Len(c) /\ Len(c) <= Len(before) + 1
           /\ Append(before, "whole") \in Remains(before)
BY DEF Remains, Copies

LEMMA WorkerTold ==
    ASSUME ServerTypes, AnswersTell, WorkerResolves \/ WorkerRejects
    PROVE  ServerTypes' /\ AnswersTell'
<1>1. request' = request
  BY DEF WorkerResolves, WorkerRejects
<1>2. \A r \in Requests : copies[r] \in Copies
  BY DEF ServerTypes
<1>3. CASE WorkerResolves
  <2>1. copies' = [r \in Requests |-> IF IsInFlight(r) THEN Append(copies[r], "whole")
                                      ELSE copies[r]]
    BY <1>3 DEF WorkerResolves
  <2>2. \A r \in Requests : Append(copies[r], "whole") \in Copies
    BY <1>2 DEF Copies
  <2>3. copies' \in [Requests -> Copies]
    BY <1>2, <2>1, <2>2
  <2>4. \A r \in Requests : r \notin Acknowledged => copies'[r] = copies[r]
    BY <2>1 DEF IsInFlight
  <2> QED
    BY <1>1, <2>3, <2>4, QueuedMayPrint
<1>4. CASE WorkerRejects
  <2>1. PICK r \in Requests : IsInFlight(r) /\ \E c \in Remains(copies[r]) :
                                                  copies' = [copies EXCEPT ![r] = c]
    BY <1>4 DEF WorkerRejects
  <2>2. PICK c \in Remains(copies[r]) : copies' = [copies EXCEPT ![r] = c]
    BY <2>1
  <2>3. c \in Copies
    BY <1>2, CopyAdded
  <2>4. copies' \in [Requests -> Copies]
    BY <2>2, <2>3 DEF ServerTypes
  <2>5. \A s \in Requests : s \notin Acknowledged => copies'[s] = copies[s]
    BY <2>1, <2>2 DEF IsInFlight, ServerTypes
  <2> QED
    BY <1>1, <2>4, <2>5, QueuedMayPrint
<1> QED
  BY <1>3, <1>4

\* What a restart leaves: the waiting requests are lost, the others as they were, and a
\* publish that was on its way has added a copy, or a part of one, or nothing.
LEMMA RestartLeaves ==
    ASSUME ServerTypes, Restart
    PROVE  /\ request' = [r \in Requests |->
                  IF request[r].pc \in {"composing", "publishing"}
                  THEN [request[r] EXCEPT !.pc = "lost"] ELSE request[r]]
           /\ copies' \in [Requests -> Copies]
           /\ \A r \in Requests :
                 \/ copies'[r] = copies[r]
                 \/ /\ copies'[r] \in Remains(copies[r])
                    /\ request[r].pc = "publishing" \/ (inFlight # NoJob /\ IsInFlight(r))
<1> DEFINE waiting == {r \in Requests : request[r].pc \in {"composing", "publishing"}}
           sending == {r \in waiting : request[r].pc = "publishing"}
                      \cup {r \in Requests : inFlight # NoJob /\ IsInFlight(r)}
<1>1. \A r \in sending : request[r].pc = "publishing" \/ (inFlight # NoJob /\ IsInFlight(r))
  OBVIOUS
<1>2. request' = [r \in Requests |->
          IF r \in waiting THEN [request[r] EXCEPT !.pc = "lost"] ELSE request[r]]
  BY DEF Restart
<1>3. PICK left \in [sending -> {<<>>, <<"cut">>, <<"whole">>}] :
         copies' = [r \in Requests |-> IF r \in sending THEN copies[r] \o left[r]
                                       ELSE copies[r]]
  BY DEF Restart
<1>4. request' = [r \in Requests |->
                     IF request[r].pc \in {"composing", "publishing"}
                     THEN [request[r] EXCEPT !.pc = "lost"] ELSE request[r]]
  BY <1>2
<1> HIDE DEF waiting, sending
<1>5. \A r \in Requests : copies[r] \in Copies
  BY DEF ServerTypes
<1>6. ASSUME NEW r \in Requests, r \in sending
      PROVE  copies'[r] \in Copies /\ copies'[r] \in Remains(copies[r])
  <2>1. PICK more : more = left[r]
    OBVIOUS
  <2>2. PICK before \in Copies : before = copies[r]
    BY <1>5
  <2>3. copies'[r] = before \o more /\ (more = <<>> \/ more = <<"cut">> \/ more = <<"whole">>)
    BY <1>3, <1>6, <2>1, <2>2
  <2>4. before \o more \in Remains(before)
    <3>1. CASE more = <<>>
      BY <3>1 DEF Copies, Remains
    <3>2. CASE more = <<"cut">>
      <4>1. before \o <<"cut">> = Append(before, "cut")
        BY DEF Copies
      <4> QED
        BY <3>2, <4>1 DEF Remains
    <3>3. CASE more = <<"whole">>
      <4>1. before \o <<"whole">> = Append(before, "whole")
        BY DEF Copies
      <4> QED
        BY <3>3, <4>1 DEF Remains
    <3> QED
      BY <2>3, <3>1, <3>2, <3>3
  <2> QED
    BY <2>2, <2>3, <2>4, CopyAdded
<1>7. \A r \in Requests : r \notin sending => copies'[r] = copies[r]
  BY <1>3
<1>8. copies' \in [Requests -> Copies]
  <2>1. \A r \in Requests : copies'[r] \in Copies
    BY <1>5, <1>6, <1>7
  <2>2. copies' = [r \in Requests |-> copies'[r]]
    BY <1>3
  <2> QED
    BY <2>1, <2>2
<1> QED
  BY <1>1, <1>4, <1>6, <1>7, <1>8

LEMMA RestartTold ==
    ASSUME ServerTypes, AnswersTell, Restart
    PROVE  ServerTypes' /\ AnswersTell'
<1>1. ASSUME NEW r \in Requests
      PROVE  Tells(request'[r], copies'[r])
  <2>1. Tells(request[r], copies[r])
    BY DEF AnswersTell
  <2>2. CASE request[r].pc \in {"composing", "publishing"}
    <3>1. request[r] = [pc |-> request[r].pc, message |-> request[r].message]
      BY <2>1, <2>2 DEF Tells
    <3>2. request'[r].pc = "lost"
      BY <2>2, <3>1, RestartLeaves
    <3> QED
      BY <3>2 DEF Tells
  <2>3. CASE request[r].pc \notin {"composing", "publishing"}
    <3>1. request'[r] = request[r]
      BY <2>3, RestartLeaves
    <3>2. copies'[r] = copies[r] \/ r \in Acknowledged
      BY <2>3, RestartLeaves DEF IsInFlight
    <3> QED
      BY <2>1, <3>1, <3>2 DEF Tells, AnswerTells, Acknowledged, Prints
  <2> QED
    BY <2>2, <2>3
<1>2. ServerTypes'
  BY RestartLeaves DEF ServerTypes
<1> QED
  BY <1>1, <1>2 DEF AnswersTell

\* Initially nothing is asked for.
LEMMA InitTold == ServerInit => ServerTypes /\ AnswersTell
BY DEF ServerInit, ServerTypes, AnswersTell, Tells, NoRequest, Copies

\* Every step, with whatever messages, keeps what is told true.
LEMMA NextTold ==
    ServerTypes /\ AnswersTell /\ [ServerNext]_allVars => ServerTypes' /\ AnswersTell'
<1> SUFFICES ASSUME ServerTypes, AnswersTell, [ServerNext]_allVars
             PROVE  ServerTypes' /\ AnswersTell'
  OBVIOUS
<1>1. CASE \E r \in Requests : RequestStep(r)
  BY <1>1, RequestTold
<1>2. CASE UNCHANGED serverVars
  BY <1>2 DEF serverVars, ServerTypes, AnswersTell
<1> QED
  BY <1>1, <1>2, WorkerTold, RestartTold DEF ServerNext, Unasked, allVars

\* Whatever the messages, and however rendering, publishes, the queue, the connection and
\* restarts run between each other, an answer tells its caller what was done.
THEOREM AnswersAreTrue == ServerSpec => []AnswerTellsEffect
<1>1. AnswersTell => AnswerTellsEffect
  <2> SUFFICES ASSUME AnswersTell PROVE AnswerTellsEffect
    OBVIOUS
  <2>1. ASSUME NEW r \in Requests, Answered(r)
        PROVE  AnswerTells(request[r], copies[r])
    BY <2>1 DEF AnswersTell, Tells, Answered
  <2> QED
    BY <2>1 DEF AnswerTells, AnswerTellsEffect, Prints
<1>2. [ServerNext /\ Calm']_allVars => [ServerNext]_allVars
  OBVIOUS
<1> QED
  BY <1>1, <1>2, InitTold, NextTold, PTL DEF ServerSpec

-----------------------------------------------------------------------------
(* The queue's part in the server.  But for restarts the server takes only  *)
(* steps of PrintQueue, so that what was proved of them is true of it.      *)

\* What a request's step does to the queue: nothing that is to be seen there, a new job,
\* which the request is told of, or the cancellation of one, which it is told of too.
Silent(q) == /\ UNCHANGED vars \/ EnqueueThrows
             /\ ~(q.pc = "answered" /\ q.outcome = "queued")
Queues(q) == /\ q.pc = "answered" /\ q.outcome = "queued" /\ q.job = queueSequence'
             /\ \E requested \in 0 .. MaxTime : Enqueue(requested, TRUE)
Cancels(q) == /\ q.pc = "answered" /\ q.outcome = "ok"
              /\ q.job \in Queued /\ CancelQueuedJob(q.job)

\* A job that a request queues is one that PrintQueue knows.
LEMMA PublishOrQueueDoes ==
    ASSUME TypeOK, NEW r \in Requests, NEW m, PublishOrQueue(r, m)
    PROVE  \E q :
              /\ request' = [request EXCEPT ![r] = q]
              /\ Silent(q) \/ Queues(q)
<1>1. ASSUME NEW outcome \in {"error", "unavailable"}, NEW job, Answer(r, m, outcome, job),
             UNCHANGED vars \/ EnqueueThrows
      PROVE  \E q : request' = [request EXCEPT ![r] = q] /\ Silent(q)
  <2>1. AnswerTo(m, outcome, job).outcome = outcome
    BY DEF AnswerTo
  <2> QED
    BY <1>1, <2>1 DEF Answer, Silent
<1>2. ASSUME Waits(r, m, "publishing"), UNCHANGED vars
      PROVE  \E q : request' = [request EXCEPT ![r] = q] /\ Silent(q)
  <2>1. [pc |-> "publishing", message |-> m].pc = "publishing"
    OBVIOUS
  <2> QED
    BY <1>2, <2>1 DEF Waits, Silent
<1>3. ASSUME Enqueue(IF IsLater(m) THEN Cap(now + ScheduleSlack + 1) ELSE now, TRUE),
             Answer(r, m, "queued", queueSequence')
      PROVE  \E q : request' = [request EXCEPT ![r] = q] /\ Queues(q)
  <2>1. now \in 0 .. MaxTime /\ Cap(now + ScheduleSlack + 1) \in 0 .. MaxTime
    BY ConstantsAssumption, SMTT(30) DEF TypeOK, Times, Cap, Smaller
  <2>2. \E requested \in 0 .. MaxTime : Enqueue(requested, TRUE)
    BY <1>3, <2>1
  <2>3. PICK job : job = queueSequence'
    OBVIOUS
  <2>4. /\ AnswerTo(m, "queued", job).pc = "answered"
        /\ AnswerTo(m, "queued", job).outcome = "queued"
        /\ AnswerTo(m, "queued", job).job = job
    BY DEF AnswerTo
  <2>5. request' = [request EXCEPT ![r] = AnswerTo(m, "queued", job)]
    BY <1>3, <2>3 DEF Answer
  <2> QED
    BY <2>2, <2>3, <2>4, <2>5 DEF Queues
<1>4. \/ \E outcome \in {"error", "unavailable"} : \E job :
            Answer(r, m, outcome, job) /\ (UNCHANGED vars \/ EnqueueThrows)
      \/ Waits(r, m, "publishing") /\ UNCHANGED vars
      \/ /\ Enqueue(IF IsLater(m) THEN Cap(now + ScheduleSlack + 1) ELSE now, TRUE)
         /\ Answer(r, m, "queued", queueSequence')
  BY DEF PublishOrQueue
<1>5. CASE Waits(r, m, "publishing") /\ UNCHANGED vars
  BY <1>2, <1>5
<1>6. CASE /\ Enqueue(IF IsLater(m) THEN Cap(now + ScheduleSlack + 1) ELSE now, TRUE)
           /\ Answer(r, m, "queued", queueSequence')
  BY <1>3, <1>6
<1>7. CASE \E outcome \in {"error", "unavailable"} : \E job :
             Answer(r, m, outcome, job) /\ (UNCHANGED vars \/ EnqueueThrows)
  BY <1>1, <1>7
<1> QED
  BY <1>4, <1>5, <1>6, <1>7

LEMMA RequestDoes ==
    ASSUME TypeOK, ServerTypes, NEW r \in Requests, RequestStep(r)
    PROVE  /\ request[r].pc \in {"new", "composing", "publishing"}
           /\ lost' = lost
           /\ \A s \in Requests \ {r} : copies'[s] = copies[s]
           /\ \E q : /\ request' = [request EXCEPT ![r] = q]
                     /\ \/ Silent(q)
                        \/ (Queues(q) \/ Cancels(q)) /\ copies' = copies
<1>1. ASSUME NEW m, NEW outcome, outcome # "queued", NEW job, Answer(r, m, outcome, job),
             UNCHANGED vars
      PROVE  \E q : request' = [request EXCEPT ![r] = q] /\ Silent(q)
  <2>1. AnswerTo(m, outcome, job).outcome = outcome
    BY DEF AnswerTo
  <2> QED
    BY <1>1, <2>1 DEF Answer, Silent
<1>2. ASSUME NEW m, Receive(r, m)
      PROVE  \E q : /\ request' = [request EXCEPT ![r] = q]
                    /\ Silent(q) \/ Queues(q) \/ Cancels(q)
  <2>1. CASE /\ Operation(m) \in {"refused", "error", "none", "ok"}
             /\ Answer(r, m, Operation(m), NoJob) /\ UNCHANGED vars
    BY <1>1, <2>1
  <2>2. CASE Waits(r, m, "composing") /\ UNCHANGED vars
    <3>1. [pc |-> "composing", message |-> m].pc = "composing"
      OBVIOUS
    <3> QED
      BY <2>2, <3>1 DEF Waits, Silent
  <2>3. CASE PublishOrQueue(r, m)
    BY <2>3, PublishOrQueueDoes
  <2>4. CASE /\ Answer(r, m, IF m.route = "mcp" THEN "error" ELSE "not_found", NoJob)
             /\ UNCHANGED vars
    <3>1. (IF m.route = "mcp" THEN "error" ELSE "not_found") # "queued"
      OBVIOUS
    <3> QED
      BY <1>1, <2>4, <3>1
  <2>5. CASE CancelQueuedJob(Work(m).target) /\ Answer(r, m, "ok", Work(m).target)
    <3>1. PICK q : q = AnswerTo(m, "ok", Work(m).target)
      OBVIOUS
    <3>2. q.pc = "answered" /\ q.outcome = "ok" /\ q.job = Work(m).target
      BY <3>1 DEF AnswerTo
    <3>3. q.job \in Queued
      BY <2>5, <3>2 DEF CancelQueuedJob, Queued
    <3>4. request' = [request EXCEPT ![r] = q]
      BY <2>5, <3>1 DEF Answer
    <3> QED
      BY <2>5, <3>2, <3>3, <3>4 DEF Cancels
  <2> QED
    BY <1>2, <2>1, <2>2, <2>3, <2>4, <2>5 DEF Receive
<1>m. PICK m : m = request[r].message
  OBVIOUS
<1>3. CASE Composed(r)
  <2>1. \/ Answer(r, m, "error", NoJob) /\ UNCHANGED vars
        \/ Answer(r, m, "ok", NoJob) /\ UNCHANGED vars
        \/ PublishOrQueue(r, m)
    BY <1>m, <1>3 DEF Composed
  <2>2. CASE PublishOrQueue(r, m)
    BY <1>3, <2>2, PublishOrQueueDoes DEF Composed
  <2>3. CASE Answer(r, m, "error", NoJob) /\ UNCHANGED vars
    BY <1>1, <1>3, <2>3 DEF Composed
  <2>4. CASE Answer(r, m, "ok", NoJob) /\ UNCHANGED vars
    BY <1>1, <1>3, <2>4 DEF Composed
  <2> QED
    BY <2>1, <2>2, <2>3, <2>4
<1>4. CASE DirectResolves(r)
  <2>1. /\ request[r].pc = "publishing" /\ lost' = lost /\ UNCHANGED vars
        /\ copies' = [copies EXCEPT ![r] = Append(@, "whole")]
        /\ Answer(r, m, "ok", NoJob)
    BY <1>m, <1>4 DEF DirectResolves
  <2>2. \A s \in Requests \ {r} : copies'[s] = copies[s]
    BY <2>1 DEF ServerTypes
  <2> QED
    BY <1>1, <2>1, <2>2
<1>5. CASE DirectRejects(r)
  <2>1. /\ request[r].pc = "publishing" /\ lost' = lost /\ UNCHANGED vars
        /\ \E c \in Remains(copies[r]) : copies' = [copies EXCEPT ![r] = c]
        /\ Answer(r, m, "error", NoJob)
    BY <1>m, <1>5 DEF DirectRejects
  <2>2. \A s \in Requests \ {r} : copies'[s] = copies[s]
    BY <2>1 DEF ServerTypes
  <2> QED
    BY <1>1, <2>1, <2>2
<1>6. CASE \E msg \in Messages[r] : Receive(r, msg)
  <2>1. request[r].pc = "new" /\ copies' = copies /\ lost' = lost
    BY <1>6 DEF Receive
  <2> QED
    BY <1>2, <1>6, <2>1
<1> QED
  BY <1>3, <1>4, <1>5, <1>6 DEF RequestStep

\* But for a restart, every step of the server is one of the queue.
LEMMA ServerSteps ==
    ASSUME TypeOK, ServerTypes, [ServerNext]_allVars
    PROVE  [Next]_vars \/ Restart
<1>1. ASSUME NEW r \in Requests, RequestStep(r)
      PROVE  [Next]_vars
  <2>1. PICK q : Silent(q) \/ Queues(q) \/ Cancels(q)
    BY <1>1, RequestDoes
  <2>2. CASE Silent(q)
    BY <2>2 DEF Silent, Next
  <2>3. CASE Queues(q)
    <3>1. PICK requested \in 0 .. MaxTime : Enqueue(requested, TRUE)
      BY <2>3 DEF Queues
    <3>2. RequestedTime(requested, NoOption) = requested
      BY ConstantsAssumption DEF RequestedTime, NoOption
    <3>3. Request
      BY <3>1, <3>2 DEF Request
    <3> QED
      BY <3>3 DEF Next
  <2>4. CASE Cancels(q)
    BY <2>4 DEF Cancels, Next
  <2> QED
    BY <2>1, <2>2, <2>3, <2>4
<1>2. WorkerResolves \/ WorkerRejects => Next
  BY DEF WorkerResolves, WorkerRejects, Next
<1>3. \/ Unasked(Tick) \/ Unasked(MqttConnects) \/ Unasked(MqttCloses) \/ Unasked(TimerFires)
         => Next
  BY DEF Unasked, Next
<1>4. UNCHANGED allVars => UNCHANGED vars
  BY DEF allVars
<1> QED
  BY <1>1, <1>2, <1>3, <1>4 DEF ServerNext

\* A restart leaves a queue that is empty, and what was finished before.
LEMMA RestartQueue ==
    ASSUME TypeOK, CalmInv, Restart
    PROVE  TypeOK' /\ Wakeups' /\ CalmInv' /\ Queued' = {}
<1>1. /\ printQueue' = <<>> /\ printQueueHistory' = <<>> /\ queueTimer' = NoTimer
      /\ queueProcessing' = FALSE /\ inFlight' = NoJob /\ mqttConnected' = FALSE
      /\ UNCHANGED <<now, jobs, queueSequence, finished>>
  BY DEF Restart
<1>2. MaxJobs >= 0 /\ HistoryLimit >= 0 /\ Len(<<>>) = 0
  BY ConstantsAssumption
<1>3. TypeOK'
  <2>1. <<>> \in Seq(DOMAIN jobs) /\ <<>> \in Seq(Outcome)
    OBVIOUS
  <2>2. /\ now' \in Times /\ mqttConnected' \in BOOLEAN /\ queueSequence' \in 0 .. MaxSequence
        /\ DOMAIN jobs' \subseteq 1 .. queueSequence' /\ jobs' \in [DOMAIN jobs' -> Job]
        /\ finished' \in Seq(Outcome)
    BY <1>1 DEF TypeOK
  <2>3. /\ printQueue' \in Seq(DOMAIN jobs') /\ Len(printQueue') <= MaxJobs
        /\ printQueueHistory' \in Seq(Outcome) /\ Len(printQueueHistory') <= HistoryLimit
    BY <1>1, <1>2, <2>1
  <2>4. /\ queueTimer' \in Times \cup {NoTimer} /\ queueProcessing' \in BOOLEAN
        /\ inFlight' \in DOMAIN jobs' \cup {NoJob}
    BY <1>1
  <2> QED
    BY <2>2, <2>3, <2>4 DEF TypeOK
<1>4. Queued' = {}
  BY <1>1 DEF Queued
<1>5. Wakeups'
  BY <1>1 DEF Wakeups, NoLostWakeup, PromptWakeup
<1>6. CalmInv'
  BY <1>1, <1>4
  DEF CalmInv, Calm, Once, FinishedExist, FinishesOnce, IsInjective, InFlightDue, StatusIsTrue
<1> QED
  BY <1>3, <1>4, <1>5, <1>6

\* What the server's queue keeps, restarts or not.
QueueInv == TypeOK /\ Wakeups /\ CalmInv

LEMMA NextQueueInv ==
    ServerTypes /\ QueueInv /\ [ServerNext /\ Calm']_allVars => QueueInv'
<1> SUFFICES ASSUME ServerTypes, QueueInv, [ServerNext /\ Calm']_allVars
             PROVE  QueueInv'
  OBVIOUS
<1>1. TypeOK /\ NoLostWakeup /\ CalmInv /\ Wakeups
  BY DEF QueueInv, Wakeups
<1>2. CASE Restart
  BY <1>1, <1>2, RestartQueue DEF QueueInv
<1>3. CASE [Next]_vars
  <2>1. Calm' \/ UNCHANGED vars
    BY DEF allVars
  <2>2. [Next /\ Calm']_vars
    BY <1>3, <2>1
  <2>3. TypeOK' /\ CalmInv'
    BY <1>1, <1>3, <2>2, NextTypeOK, NextCalmInv
  <2>4. Wakeups'
    BY <1>1, <1>3, <2>3, NextWakeups
  <2> QED
    BY <2>3, <2>4 DEF QueueInv
<1> QED
  BY <1>1, <1>2, <1>3, ServerSteps

-----------------------------------------------------------------------------
(* What becomes of a job that was answered as queued.                       *)

\* Where it is.
Stands(id) ==
    \/ id \in Queued \cup lost
    \/ id \in Finished("published")
    \/ id \in Finished("cancelled") /\ \E s \in Requests :
          Answered(s) /\ request[s].outcome = "ok" /\ request[s].job = id

\* What it has put on the topic: an attempt adds a copy at most, and the one in flight has
\* not added it yet.
InStep(c, id) ==
    /\ jobs[id].runAt > now => c = <<>>
    /\ Len(c) <= jobs[id].attempts
    /\ id = inFlight => Len(c) < jobs[id].attempts
    /\ id \in Finished("published") => c # <<>> /\ Last(c) = "whole"

JobsAreAcknowledged == DOMAIN jobs = {request[r].job : r \in Acknowledged}

\* The invariant, beside ServerTypes, AnswersTell and QueueInv.
Kept == /\ JobsAreAcknowledged
        /\ \A r \in Acknowledged :
              Stands(request[r].job) /\ InStep(copies[r], request[r].job)

\* A job stands where it stood unless it leaves the queue.
LEMMA StillStands ==
    ASSUME NEW id, Stands(id), lost \subseteq lost',
           \A s \in Requests : Answered(s) => request'[s] = request[s],
           \A any : Finished(any) \subseteq Finished(any)',
           id \in Queued => Stands(id)'
    PROVE  Stands(id)'
<1>1. CASE id \in Queued
  BY <1>1
<1>2. CASE id \in lost
  BY <1>2 DEF Stands
<1>3. CASE id \in Finished("published")
  BY <1>3 DEF Stands
<1>4. ASSUME id \in Finished("cancelled"), NEW s \in Requests,
             Answered(s), request[s].outcome = "ok", request[s].job = id
      PROVE  Stands(id)'
  <2>1. id \in Finished("cancelled")' /\ request'[s] = request[s]
    BY <1>4
  <2> QED
    BY <1>4, <2>1 DEF Stands, Answered
<1> QED
  BY <1>1, <1>2, <1>3, <1>4 DEF Stands

\* With no new copy a job is in step as long as it is not newly published.
LEMMA StillInStep ==
    ASSUME NEW id, NEW c \in Copies, InStep(c, id), now \in Nat, now' \in Nat, now' >= now,
           jobs[id].runAt \in Nat, jobs'[id].runAt = jobs[id].runAt,
           jobs[id].attempts \in Nat, jobs'[id].attempts \in Nat,
           jobs'[id].attempts >= jobs[id].attempts,
           inFlight' = id => inFlight = id \/ jobs'[id].attempts > jobs[id].attempts,
           id \in Finished("published")' => id \in Finished("published")
    PROVE  InStep(c, id)'
<1>1. Len(c) \in Nat
  BY DEF Copies
<1> QED
  BY <1>1 DEF InStep

\* A job that may be on the topic once more, and no longer is in flight.
LEMMA OneMoreInStep ==
    ASSUME NEW id, NEW c \in Copies, NEW d \in Remains(c), InStep(c, id), id = inFlight,
           now \in Nat, now' = now, jobs[id].runAt \in Nat, jobs[id].runAt <= now,
           jobs'[id].runAt = jobs[id].runAt,
           jobs[id].attempts \in Nat, jobs'[id].attempts \in Nat,
           jobs'[id].attempts >= jobs[id].attempts,
           inFlight' = id => jobs'[id].attempts > jobs[id].attempts,
           id \in Finished("published")' => d # <<>> /\ Last(d) = "whole"
    PROVE  InStep(d, id)'
<1>1. Len(c) \in Nat /\ Len(d) \in Nat /\ Len(d) <= Len(c) + 1
  BY CopyAdded DEF Copies
<1>2. Len(c) < jobs[id].attempts
  BY DEF InStep
<1> QED
  BY <1>1, <1>2 DEF InStep

\* What QueueInv and the steps of the queue say of each of the jobs.
LEMMA JobFacts ==
    ASSUME QueueInv, NEW id \in DOMAIN jobs
    PROVE  /\ id \in Nat /\ id # NoJob /\ now \in Nat
           /\ jobs[id].runAt \in Nat /\ jobs[id].attempts \in Nat
           /\ id = inFlight => /\ id \in Queued /\ jobs[id].runAt <= now
                               /\ id \notin Finished("published")
<1>1. TypeOK /\ Calm /\ FinishesOnce /\ InFlightDue
  BY DEF QueueInv, CalmInv, Once
<1>2. id \in Nat /\ id # NoJob /\ now \in Nat
  BY <1>1 DEF TypeOK, Times, NoJob
<1>3. jobs[id] \in Job
  BY <1>1 DEF TypeOK
<1>4. jobs[id].runAt \in Nat /\ jobs[id].attempts \in Nat
  BY <1>3 DEF Job, Times
<1>5. ASSUME id = inFlight
      PROVE  id \in Queued
  <2>1. printQueue # <<>> /\ Head(printQueue) = id /\ printQueue \in Seq(DOMAIN jobs)
    BY <1>1, <1>2, <1>5 DEF Calm, TypeOK
  <2> QED
    BY <2>1 DEF Queued
<1>6. id \in Queued => id \notin Finished("published")
  BY <1>1 DEF FinishesOnce, Finished
<1> QED
  BY <1>1, <1>2, <1>4, <1>5, <1>6 DEF InFlightDue

\* What a step does to a job: it stays due when it was, and its attempts are counted.
LEMMA JobSteps ==
    ASSUME QueueInv, QueueInv', ServerTypes, [ServerNext]_allVars, NEW id \in DOMAIN jobs
    PROVE  /\ id \in DOMAIN jobs' /\ now' \in Nat /\ now' >= now
           /\ jobs'[id].runAt = jobs[id].runAt
           /\ jobs'[id].attempts \in Nat /\ jobs'[id].attempts >= jobs[id].attempts
           /\ inFlight' = id => inFlight = id \/ jobs'[id].attempts > jobs[id].attempts
<1>1. TypeOK /\ NoLostWakeup
  BY DEF QueueInv, Wakeups
<1>2. id \in DOMAIN jobs' => jobs'[id].attempts \in Nat
  BY DEF QueueInv, TypeOK, Job
<1>3. CASE [Next]_vars
  <2>1. now \in Nat /\ (now' = now \/ now' = now + 1)
    BY <1>1, <1>3
    DEF TypeOK, Times, Next, vars, Tick, MqttConnects, MqttCloses, TimerFires, PublishResolves,
        PublishRejects, Request, Enqueue, EnqueueThrows, CancelQueuedJob
  <2> QED
    BY <1>1, <1>2, <1>3, <2>1, NextDueTimes, NextAttempts
<1>4. CASE Restart
  <2>1. UNCHANGED <<now, jobs>> /\ inFlight' = NoJob
    BY <1>4 DEF Restart
  <2> QED
    BY <2>1, JobFacts
<1> QED
  BY <1>1, <1>3, <1>4, ServerSteps

\* A step that puts nothing on the topic for a request and does not publish its job.
LEMMA SameCopies ==
    ASSUME QueueInv, QueueInv', ServerTypes, [ServerNext]_allVars, Kept,
           NEW r \in Acknowledged, copies'[r] = copies[r], request'[r] = request[r],
           request[r].job \in Finished("published")' => request[r].job \in Finished("published")
    PROVE  InStep(copies[r], request[r].job)'
<1>1. PICK id : id = request[r].job
  OBVIOUS
<1>2. PICK c : c = copies[r]
  OBVIOUS
<1>3. id \in DOMAIN jobs /\ c \in Copies /\ InStep(c, id)
  BY <1>1, <1>2 DEF Kept, JobsAreAcknowledged, Acknowledged, ServerTypes
<1>4. /\ now \in Nat /\ jobs[id].runAt \in Nat /\ jobs[id].attempts \in Nat
  BY <1>3, JobFacts
<1>5. /\ now' \in Nat /\ now' >= now /\ jobs'[id].runAt = jobs[id].runAt
      /\ jobs'[id].attempts \in Nat /\ jobs'[id].attempts >= jobs[id].attempts
      /\ inFlight' = id => inFlight = id \/ jobs'[id].attempts > jobs[id].attempts
  BY <1>3, JobSteps
<1>6. InStep(c, id)'
  BY <1>1, <1>3, <1>4, <1>5, StillInStep
<1>7. id = request'[r].job /\ c = copies'[r]
  BY <1>1, <1>2
<1> QED
  BY <1>6, <1>7

\* The same for a request with a new copy.
LEMMA NewCopy ==
    ASSUME QueueInv, QueueInv', ServerTypes, [ServerNext]_allVars, Kept, now' = now,
           NEW r \in Acknowledged, NEW c \in Remains(copies[r]), copies'[r] = c,
           request'[r] = request[r], request[r].job = inFlight,
           inFlight' = inFlight =>
               jobs'[inFlight].attempts > jobs[inFlight].attempts,
           inFlight \in Finished("published")' => c # <<>> /\ Last(c) = "whole"
    PROVE  InStep(copies[r], request[r].job)'
<1>1. PICK id : id = request[r].job
  OBVIOUS
<1>2. PICK b : b = copies[r]
  OBVIOUS
<1>3. id \in DOMAIN jobs /\ b \in Copies /\ InStep(b, id)
  BY <1>1, <1>2 DEF Kept, JobsAreAcknowledged, Acknowledged, ServerTypes
<1>4. /\ now \in Nat /\ jobs[id].runAt \in Nat /\ jobs[id].attempts \in Nat
      /\ jobs[id].runAt <= now
  BY <1>1, <1>3, JobFacts
<1>5. /\ jobs'[id].runAt = jobs[id].runAt
      /\ jobs'[id].attempts \in Nat /\ jobs'[id].attempts >= jobs[id].attempts
  BY <1>3, JobSteps
<1>6. InStep(c, id)'
  BY <1>1, <1>2, <1>3, <1>4, <1>5, OneMoreInStep
<1>7. id = request'[r].job /\ c = copies'[r]
  BY <1>1
<1> QED
  BY <1>6, <1>7

\* A step of a request leaves the answers that were given before.
LEMMA OneMoreAnswer ==
    ASSUME ServerTypes, NEW r \in Requests, NEW q,
           request[r].pc # "answered",
           request' = [request EXCEPT ![r] = q]
    PROVE  /\ request'[r] = q
           /\ \A s \in Requests : Answered(s) => s # r /\ request'[s] = request[s]
           /\ \A s \in Acknowledged : s # r /\ request'[s] = request[s]
           /\ \A s : s \in Acknowledged' <=>
                 s \in Acknowledged \/ (s = r /\ q.pc = "answered" /\ q.outcome = "queued")
<1>1. /\ request'[r] = q
      /\ \A s \in Requests : s # r => request'[s] = request[s]
  BY DEF ServerTypes
<1>2. r \notin Acknowledged
  BY DEF Acknowledged
<1>3. \A s \in Requests : Answered(s) => s # r /\ request'[s] = request[s]
  BY <1>1 DEF Answered
<1>4. \A s \in Acknowledged : s # r /\ request'[s] = request[s]
  BY <1>1, <1>2 DEF Acknowledged
<1>5. ASSUME NEW s
      PROVE  s \in Acknowledged' <=>
                s \in Acknowledged \/ (s = r /\ q.pc = "answered" /\ q.outcome = "queued")
  <2>1. CASE s = r
    BY <1>1, <1>2, <2>1 DEF Acknowledged
  <2>2. CASE s # r
    BY <1>1, <2>2 DEF Acknowledged
  <2> QED
    BY <2>1, <2>2
<1> QED
  BY <1>1, <1>3, <1>4, <1>5

\* A request that adds no job to the queue takes at most one off it, and is told.
LEMMA RequestKeeps ==
    ASSUME QueueInv, QueueInv', ServerTypes, AnswersTell, Kept, [ServerNext]_allVars,
           NEW r \in Requests, RequestStep(r)
    PROVE  Kept'
<1>1. TypeOK /\ IsInjective(printQueue)
  BY DEF QueueInv, CalmInv, Once
<1>2. PICK q :
         /\ request[r].pc \in {"new", "composing", "publishing"} /\ lost' = lost
         /\ \A s \in Requests \ {r} : copies'[s] = copies[s]
         /\ request' = [request EXCEPT ![r] = q]
         /\ \/ Silent(q)
            \/ (Queues(q) \/ Cancels(q)) /\ copies' = copies
  BY <1>1, RequestDoes
<1>3. /\ request'[r] = q
      /\ \A s \in Requests : Answered(s) => s # r /\ request'[s] = request[s]
      /\ \A s \in Acknowledged : s # r /\ request'[s] = request[s]
      /\ \A s : s \in Acknowledged' <=>
            s \in Acknowledged \/ (s = r /\ q.pc = "answered" /\ q.outcome = "queued")
  <2>1. request[r].pc # "answered" /\ request' = [request EXCEPT ![r] = q]
    BY <1>2
  <2> QED
    BY <2>1, OneMoreAnswer
<1>4. \A s \in Acknowledged : copies'[s] = copies[s] /\ s \in Requests
  BY <1>2, <1>3 DEF Acknowledged
\* With the jobs that are published as they were, what was acknowledged stays as it was.
<1>5. ASSUME Finished("published")' = Finished("published"),
             \A any : Finished(any) \subseteq Finished(any)',
             \A id \in Queued : Stands(id)'
      PROVE  \A s \in Acknowledged : (Stands(request[s].job) /\ InStep(copies[s], request[s].job))'
  <2> SUFFICES ASSUME NEW s \in Acknowledged
               PROVE  (Stands(request[s].job) /\ InStep(copies[s], request[s].job))'
    OBVIOUS
  <2>1. InStep(copies[s], request[s].job)'
    BY <1>3, <1>4, <1>5, SameCopies
  <2>2. PICK id : id = request[s].job /\ id = request'[s].job
    BY <1>3
  <2>3. Stands(id)
    BY <2>2 DEF Kept
  <2>4. Stands(id)'
    BY <1>2, <1>3, <1>5, <2>3, StillStands
  <2> QED
    BY <2>1, <2>2, <2>4
<1>6. CASE Silent(q)
  <2>1. UNCHANGED <<jobs, printQueue, finished>>
    BY <1>6 DEF Silent, EnqueueThrows, vars
  <2>2. Queued' = Queued /\ \A any : Finished(any)' = Finished(any)
    BY <2>1 DEF Queued, Finished
  <2>3. \A id \in Queued : Stands(id)'
    BY <2>2 DEF Stands
  <2>4. Acknowledged' = Acknowledged
    BY <1>3, <1>6 DEF Silent
  <2>5. JobsAreAcknowledged'
    BY <1>3, <2>1, <2>4 DEF Kept, JobsAreAcknowledged
  <2> QED
    BY <1>5, <2>2, <2>3, <2>4, <2>5 DEF Kept
<1>7. CASE Cancels(q) /\ copies' = copies
  <2>1. PICK id \in Queued : id = q.job /\ q.pc = "answered" /\ q.outcome = "ok"
                             /\ CancelQueuedJob(id)
    BY <1>7 DEF Cancels
  <2>2. id \in Nat /\ DOMAIN jobs' = DOMAIN jobs /\ Queued' = Queued \ {id}
    BY <1>1, <2>1, CancelProperties, QueuedAfterCancel DEF TypeOK
  <2>3. \A any : Finished(any)' = Finished(any) \cup {j \in {id} : any = "cancelled"}
    <3>1. addHistory(id, "cancelled")
      BY <2>1 DEF CancelQueuedJob
    <3> QED
      BY <1>1, <2>2, <3>1, AddHistoryFinished
  <2>4. ASSUME NEW j \in Queued
        PROVE  Stands(j)'
    <3>1. CASE j = id
      <4>1. request'[r].pc = "answered" /\ request'[r].outcome = "ok" /\ request'[r].job = j
        BY <1>3, <2>1, <3>1
      <4>2. j \in Finished("cancelled")'
        BY <2>3, <3>1
      <4> QED
        BY <4>1, <4>2 DEF Stands, Answered
    <3>2. CASE j # id
      BY <2>2, <3>2 DEF Stands
    <3> QED
      BY <3>1, <3>2
  <2>5. Acknowledged' = Acknowledged
    BY <1>3, <2>1
  <2>6. JobsAreAcknowledged'
    BY <1>3, <2>2, <2>5 DEF Kept, JobsAreAcknowledged
  <2>7. Finished("published")' = Finished("published")
    BY <2>3
  <2> QED
    BY <1>5, <2>3, <2>4, <2>5, <2>6, <2>7 DEF Kept
<1>8. CASE Queues(q) /\ copies' = copies
  <2>1. PICK requested \in 0 .. MaxTime :
           /\ q.pc = "answered" /\ q.outcome = "queued" /\ q.job = queueSequence'
           /\ Enqueue(requested, TRUE)
    BY <1>8 DEF Queues
  <2>2. PICK id : id = queueSequence'
    OBVIOUS
  <2>3. /\ id \notin DOMAIN jobs /\ DOMAIN jobs' = DOMAIN jobs \cup {id}
        /\ Queued' = Queued \cup {id}
    <3>1. requested \in Int /\ TRUE \in BOOLEAN
      BY <2>1
    <3>2. queueSequence' \notin DOMAIN jobs /\ DOMAIN jobs' = DOMAIN jobs \cup {queueSequence'}
      BY <1>1, <2>1, <3>1, EnqueueProperties
    <3>3. Queued' = Queued \cup {queueSequence'}
      BY <1>1, <2>1, <3>1, QueuedAfterEnqueue
    <3> QED
      BY <2>2, <3>2, <3>3
  <2>4. /\ UNCHANGED <<now, inFlight, finished>>
        /\ jobs'[id].attempts = 0
    <3>1. jobs' = [i \in DOMAIN jobs \cup {id} |->
                      IF i \in DOMAIN jobs THEN jobs[i]
                      ELSE [runAt |-> RunAt(requested), created |-> now,
                            status |-> "queued", attempts |-> 0]]
      BY <2>1, <2>2 DEF Enqueue
    <3> QED
      BY <2>1, <2>3, <3>1 DEF Enqueue
  <2>5. \A any : Finished(any)' = Finished(any)
    BY <2>4 DEF Finished
  <2>6. \A j \in Queued' : Stands(j)'
    BY DEF Stands
  <2>7. Acknowledged' = Acknowledged \cup {r} /\ request'[r].job = id
    BY <1>3, <2>1, <2>2
  <2>8. JobsAreAcknowledged'
    BY <1>3, <2>3, <2>7 DEF Kept, JobsAreAcknowledged
  <2>9. InStep(copies[r], request[r].job)'
    <3>1. copies'[r] = <<>>
      BY <1>2, <1>8 DEF AnswersTell, Tells
    <3>2. inFlight # id
      BY <1>1, <2>2, <2>3, <2>1 DEF TypeOK, Enqueue, NoJob
    <3>3. id \notin Finished("published")
      BY <2>3, <2>5, FinishedElements DEF QueueInv, CalmInv, Once, FinishedExist
    <3> QED
      BY <2>4, <2>5, <2>7, <3>1, <3>2, <3>3 DEF InStep
  <2> QED
    BY <1>5, <2>3, <2>5, <2>6, <2>7, <2>8, <2>9 DEF Kept
<1> QED
  BY <1>2, <1>6, <1>7, <1>8

\* The worker's publish is settled, and has put on the topic what it was counted for.
LEMMA WorkerKeeps ==
    ASSUME QueueInv, QueueInv', ServerTypes, Kept, [ServerNext]_allVars,
           WorkerResolves \/ WorkerRejects
    PROVE  Kept'
<1>1. TypeOK /\ Calm /\ IsInjective(printQueue)
  BY DEF QueueInv, CalmInv, Once
<1>2. request' = request /\ lost' = lost /\ Acknowledged' = Acknowledged /\ now' = now
  BY DEF WorkerResolves, WorkerRejects, PublishResolves, PublishRejects, Acknowledged
<1>3. /\ inFlight \in DOMAIN jobs /\ inFlight # NoJob /\ inFlight \in Queued
      /\ inFlight \notin Finished("published")
  <2>1. inFlight # NoJob
    BY DEF WorkerResolves, WorkerRejects, PublishResolves, PublishRejects
  <2>2. inFlight \in DOMAIN jobs
    BY <1>1, <2>1 DEF TypeOK
  <2> QED
    BY <2>1, <2>2, JobFacts
<1>4. \A s \in Acknowledged : s \in Requests /\ copies[s] \in Copies
  BY DEF Acknowledged, ServerTypes
<1>5. ASSUME \A any : Finished(any) \subseteq Finished(any)',
             \A id \in Queued : Stands(id)', NEW s \in Acknowledged
      PROVE  Stands(request[s].job)'
  <2>1. PICK id : id = request[s].job /\ id = request'[s].job
    BY <1>2
  <2>2. Stands(id)
    BY <2>1 DEF Kept
  <2>3. Stands(id)'
    BY <1>2, <1>5, <2>2, StillStands
  <2> QED
    BY <2>1, <2>3
<1>6. CASE WorkerResolves
  <2>1. /\ PublishResolves /\ addHistory(inFlight, "published") /\ LoopTurn(queueTimer)
        /\ copies' = [s \in Requests |-> IF IsInFlight(s) THEN Append(copies[s], "whole")
                                         ELSE copies[s]]
    BY <1>6 DEF WorkerResolves, PublishResolves
  <2>2. Queued' = Queued \ {inFlight}
    BY <1>1, <2>1, QueuedAfterResolve
  <2>3. \A any : Finished(any)' = Finished(any) \cup {j \in {inFlight} : any = "published"}
    BY <1>1, <1>3, <2>1, ResolveProperties, AddHistoryFinished
  <2>4. printQueue' \in Seq(DOMAIN jobs)
    BY <1>1, <2>1, ResolveProperties
  <2>5. DOMAIN jobs' = DOMAIN jobs
    <3>1. mqttConnected' \in BOOLEAN /\ queueTimer \in Times \cup {NoTimer}
      BY <1>1, <2>1 DEF TypeOK, PublishResolves
    <3> QED
      BY <1>1, <2>1, <2>4, <3>1, LoopTurnProperties
  <2>6. inFlight' = inFlight => jobs'[inFlight].attempts > jobs[inFlight].attempts
    BY <1>1, <1>3, <2>1, <2>4, LoopTurnAttempts
  <2>7. \A id \in Queued : Stands(id)'
    BY <2>2, <2>3 DEF Stands
  <2>8. ASSUME NEW s \in Acknowledged
        PROVE  InStep(copies[s], request[s].job)'
    <3>1. CASE request[s].job = inFlight
      <4>1. copies'[s] = Append(copies[s], "whole")
        BY <1>4, <2>1, <2>8, <3>1 DEF IsInFlight
      <4>2. PICK b \in Copies : b = copies[s]
        BY <1>4, <2>8
      <4>3. /\ Append(b, "whole") \in Remains(b)
            /\ Append(b, "whole") # <<>> /\ Last(Append(b, "whole")) = "whole"
        BY DEF Remains, Copies, Last
      <4>4. PICK d : d = Append(b, "whole")
        OBVIOUS
      <4>5. d \in Remains(copies[s]) /\ copies'[s] = d /\ d # <<>> /\ Last(d) = "whole"
        BY <4>1, <4>2, <4>3, <4>4
      <4> QED
        BY <1>2, <2>6, <2>8, <3>1, <4>5, NewCopy
    <3>2. CASE request[s].job # inFlight
      <4>1. copies'[s] = copies[s]
        BY <1>4, <2>1, <2>8, <3>2 DEF IsInFlight
      <4>2. request[s].job \in Finished("published")'
               => request[s].job \in Finished("published")
        BY <2>3, <3>2
      <4> QED
        BY <1>2, <2>8, <4>1, <4>2, SameCopies
    <3> QED
      BY <3>1, <3>2
  <2>9. JobsAreAcknowledged'
    BY <1>2, <2>5 DEF Kept, JobsAreAcknowledged
  <2> QED
    BY <1>2, <1>5, <2>3, <2>7, <2>8, <2>9 DEF Kept
<1>7. CASE WorkerRejects
  <2>1. PublishRejects /\ UNCHANGED <<printQueue, finished>> /\ inFlight' = NoJob
    BY <1>7 DEF WorkerRejects, PublishRejects, Stop
  <2>2. PICK r \in Requests : IsInFlight(r) /\ \E c \in Remains(copies[r]) :
                                                  copies' = [copies EXCEPT ![r] = c]
    BY <1>7 DEF WorkerRejects
  <2>3. PICK c \in Remains(copies[r]) : copies' = [copies EXCEPT ![r] = c]
    BY <2>2
  <2>4. Queued' = Queued /\ \A any : Finished(any)' = Finished(any)
    BY <2>1 DEF Queued, Finished
  <2>5. DOMAIN jobs' = DOMAIN jobs
    BY <1>1, <2>1, RejectProperties
  <2>6. \A id \in Queued : Stands(id)'
    BY <2>4 DEF Stands
  <2>7. ASSUME NEW s \in Acknowledged
        PROVE  InStep(copies[s], request[s].job)'
    <3>1. CASE s = r
      <4>1. copies'[r] = c /\ request[r].job = inFlight /\ r \in Acknowledged
        BY <2>2, <2>3 DEF IsInFlight, ServerTypes
      <4>2. inFlight' # inFlight
        BY <1>3, <2>1
      <4>3. InStep(copies[r], request[r].job)'
        BY <1>2, <1>3, <2>3, <2>4, <4>1, <4>2, NewCopy
      <4> QED
        BY <3>1, <4>3
    <3>2. CASE s # r
      <4>1. copies'[s] = copies[s]
        BY <1>4, <2>3, <2>7, <3>2 DEF ServerTypes
      <4> QED
        BY <1>2, <2>4, <2>7, <4>1, SameCopies
    <3> QED
      BY <3>1, <3>2
  <2>8. JobsAreAcknowledged'
    BY <1>2, <2>5 DEF Kept, JobsAreAcknowledged
  <2> QED
    BY <1>2, <1>5, <2>4, <2>6, <2>7, <2>8 DEF Kept
<1> QED
  BY <1>6, <1>7

\* A restart costs the pending jobs, and leaves the answers.
LEMMA RestartKeeps ==
    ASSUME QueueInv, QueueInv', ServerTypes, Kept, [ServerNext]_allVars, Restart
    PROVE  Kept'
<1>1. UNCHANGED <<now, jobs, finished>> /\ inFlight' = NoJob /\ lost' = lost \cup Queued
  BY DEF Restart
<1>2. /\ request' = [r \in Requests |->
             IF request[r].pc \in {"composing", "publishing"}
             THEN [request[r] EXCEPT !.pc = "lost"] ELSE request[r]]
      /\ \A r \in Requests :
            \/ copies'[r] = copies[r]
            \/ /\ copies'[r] \in Remains(copies[r])
               /\ request[r].pc = "publishing" \/ (inFlight # NoJob /\ IsInFlight(r))
  BY RestartLeaves
<1>3. \A s \in Requests : Answered(s) => request'[s] = request[s]
  BY <1>2 DEF Answered
<1>4. ASSUME NEW s \in Requests, ~Answered(s)
      PROVE  request'[s].pc # "answered"
  <2>1. CASE request[s].pc \in {"composing", "publishing"}
    <3>1. request'[s] = [request[s] EXCEPT !.pc = "lost"]
      BY <1>2, <2>1
    <3>2. request'[s].pc = "lost" \/ request'[s] = request[s]
      BY <3>1
    <3> QED
      BY <1>4, <3>2 DEF Answered
  <2>2. CASE request[s].pc \notin {"composing", "publishing"}
    BY <1>2, <1>4, <2>2 DEF Answered
  <2> QED
    BY <2>1, <2>2
<1>5. Acknowledged' = Acknowledged
  BY <1>3, <1>4 DEF Acknowledged, Answered
<1>6. \A any : Finished(any)' = Finished(any)
  BY <1>1 DEF Finished
<1>7. \A id \in Queued : Stands(id)'
  BY <1>1 DEF Stands
<1>8. ASSUME NEW s \in Acknowledged
      PROVE  (Stands(request[s].job) /\ InStep(copies[s], request[s].job))'
  <2>1. s \in Requests /\ request'[s] = request[s] /\ request[s].pc = "answered"
    BY <1>3 DEF Acknowledged, Answered
  <2>2. PICK id : id = request[s].job /\ id = request'[s].job
    BY <2>1
  <2>3. Stands(id) /\ id \in DOMAIN jobs
    BY <2>2 DEF Kept, JobsAreAcknowledged
  <2>4. Stands(id)'
    BY <1>1, <1>3, <1>6, <1>7, <2>3, StillStands
  <2>5. CASE copies'[s] = copies[s]
    <3>1. InStep(copies[s], request[s].job)'
      BY <1>6, <2>1, <2>5, SameCopies
    <3> QED
      BY <2>2, <2>4, <3>1
  <2>6. CASE copies'[s] \in Remains(copies[s]) /\ inFlight # NoJob /\ IsInFlight(s)
    <3>1. PICK c \in Remains(copies[s]) : copies'[s] = c
      BY <2>6
    <3>2. request[s].job = inFlight /\ inFlight' # inFlight
      BY <1>1, <2>6 DEF IsInFlight
    <3>3. inFlight \notin Finished("published")'
      BY <1>6, <2>2, <2>3, <3>2, JobFacts
    <3>4. InStep(copies[s], request[s].job)'
      BY <1>1, <2>1, <3>1, <3>2, <3>3, NewCopy
    <3> QED
      BY <2>2, <2>4, <3>4
  <2> QED
    BY <1>2, <2>1, <2>5, <2>6
<1>9. JobsAreAcknowledged'
  BY <1>1, <1>3, <1>5 DEF Kept, JobsAreAcknowledged, Acknowledged, Answered
<1> QED
  BY <1>5, <1>8, <1>9 DEF Kept

\* The clock, the connection and the timer neither finish a job nor take it off the queue.
LEMMA UnaskedKeeps ==
    ASSUME QueueInv, QueueInv', ServerTypes, Kept, [ServerNext]_allVars, UNCHANGED serverVars,
           Tick \/ MqttConnects \/ MqttCloses \/ TimerFires \/ UNCHANGED vars
    PROVE  Kept'
<1>1. UNCHANGED <<printQueue, finished, request, copies, lost>>
  BY DEF serverVars, vars, Tick, MqttConnects, MqttCloses, TimerFires
<1>2. DOMAIN jobs' = DOMAIN jobs
  <2>1. CASE TimerFires /\ ~queueProcessing
    <3>1. LoopTurn(NoTimer) /\ UNCHANGED <<mqttConnected, printQueue>>
      BY <2>1 DEF TimerFires
    <3>2. TypeOK
      BY DEF QueueInv
    <3>3. printQueue' \in Seq(DOMAIN jobs) /\ mqttConnected' \in BOOLEAN
      BY <3>1, <3>2 DEF TypeOK
    <3> QED
      BY <3>1, <3>2, <3>3, LoopTurnProperties
  <2> QED
    BY <2>1 DEF vars, Tick, MqttConnects, MqttCloses, TimerFires
<1>3. Queued' = Queued /\ \A any : Finished(any)' = Finished(any)
  BY <1>1 DEF Queued, Finished
<1>4. Acknowledged' = Acknowledged
  BY <1>1 DEF Acknowledged
<1>5. \A id : Stands(id)' <=> Stands(id)
  BY <1>1, <1>3 DEF Stands, Answered
<1>6. ASSUME NEW s \in Acknowledged
      PROVE  (Stands(request[s].job) /\ InStep(copies[s], request[s].job))'
  <2>1. InStep(copies[s], request[s].job)'
    BY <1>1, <1>3, SameCopies
  <2>2. PICK id : id = request[s].job /\ id = request'[s].job
    BY <1>1
  <2>3. Stands(id)'
    BY <1>5, <2>2 DEF Kept
  <2> QED
    BY <2>1, <2>2, <2>3
<1>7. JobsAreAcknowledged'
  BY <1>1, <1>2, <1>4 DEF Kept, JobsAreAcknowledged
<1> QED
  BY <1>4, <1>6, <1>7 DEF Kept

LEMMA NextKept ==
    /\ QueueInv /\ QueueInv' /\ ServerTypes /\ AnswersTell /\ Kept /\ [ServerNext]_allVars
    => Kept'
<1> SUFFICES ASSUME QueueInv, QueueInv', ServerTypes, AnswersTell, Kept, [ServerNext]_allVars
             PROVE  Kept'
  OBVIOUS
<1>1. CASE \E r \in Requests : RequestStep(r)
  BY <1>1, RequestKeeps
<1>2. CASE WorkerResolves \/ WorkerRejects
  BY <1>2, WorkerKeeps
<1>3. CASE Restart
  BY <1>3, RestartKeeps
<1>4. CASE \/ Unasked(Tick) \/ Unasked(MqttConnects) \/ Unasked(MqttCloses) \/ Unasked(TimerFires)
           \/ UNCHANGED allVars
  BY <1>4, UnaskedKeeps DEF Unasked, allVars
<1> QED
  BY <1>1, <1>2, <1>3, <1>4 DEF ServerNext

\* Initially no job was made, and none acknowledged.
LEMMA InitKept == ServerInit => QueueInv /\ Kept
<1> SUFFICES ASSUME ServerInit PROVE QueueInv /\ Kept
  OBVIOUS
<1>1. Init /\ request = [r \in Requests |-> NoRequest] /\ jobs = [i \in {} |-> 0]
  BY DEF ServerInit, Init
<1>2. Acknowledged = {}
  BY <1>1 DEF Acknowledged, NoRequest
<1>3. QueueInv
  BY <1>1, InitTypeOK, InitWakeups, InitCalmInv DEF QueueInv
<1> QED
  BY <1>1, <1>2, <1>3 DEF Kept, JobsAreAcknowledged

\* What the server keeps, whatever comes.
ServerInv == ServerTypes /\ AnswersTell /\ QueueInv /\ Kept

LEMMA ServerInvariants == ServerSpec => []ServerInv
<1>1. ServerInit => ServerInv
  BY InitTold, InitKept DEF ServerInv
<1>2. ServerInv /\ [ServerNext /\ Calm']_allVars => ServerInv'
  <2> SUFFICES ASSUME ServerInv, [ServerNext /\ Calm']_allVars PROVE ServerInv'
    OBVIOUS
  <2>1. [ServerNext]_allVars
    OBVIOUS
  <2>2. ServerTypes' /\ AnswersTell'
    BY <2>1, NextTold DEF ServerInv
  <2>3. QueueInv'
    BY NextQueueInv DEF ServerInv
  <2>4. Kept'
    BY <2>1, <2>3, NextKept DEF ServerInv
  <2> QED
    BY <2>2, <2>3, <2>4 DEF ServerInv
<1> QED
  BY <1>1, <1>2, PTL DEF ServerSpec

\* A job whose caller was told that it is queued is pending, or was published whole, or was
\* cancelled by a caller who was told so, or was lost in a restart; and no other job exists.
THEOREM NoJobForgotten == ServerSpec => []AcknowledgedJobsKept
<1>1. ServerInv => AcknowledgedJobsKept
  <2> SUFFICES ASSUME ServerInv, NEW r \in Acknowledged
               PROVE  \/ request[r].job \in Queued \cup lost
                      \/ /\ request[r].job \in Finished("published")
                         /\ "whole" \in ToSet(copies[r])
                      \/ /\ request[r].job \in Finished("cancelled")
                         /\ \E s \in Requests : Answered(s) /\ request[s].outcome = "ok"
                                                /\ request[s].job = request[r].job
    BY DEF ServerInv, Kept, JobsAreAcknowledged, AcknowledgedJobsKept
  <2>1. Stands(request[r].job) /\ InStep(copies[r], request[r].job)
    BY DEF ServerInv, Kept
  <2>2. copies[r] \in Copies
    BY DEF ServerInv, ServerTypes, Acknowledged
  <2>3. copies[r] # <<>> => Last(copies[r]) \in ToSet(copies[r])
    BY <2>2 DEF Copies, Last, ToSet
  <2> QED
    BY <2>1, <2>3 DEF Stands, InStep
<1> QED
  BY <1>1, ServerInvariants, PTL

\* A queued job puts nothing on the topic before it is due, no more copies than it had
\* attempts, and in the end a whole one if it is recorded as published.
THEOREM CopiesAreCounted == ServerSpec => []CopiesMatchAttempts
<1>1. ServerInv => CopiesMatchAttempts
  <2> SUFFICES ASSUME ServerInv, NEW r \in Acknowledged
               PROVE  /\ jobs[request[r].job].runAt > now => copies[r] = <<>>
                      /\ Len(copies[r]) <= jobs[request[r].job].attempts
                      /\ jobs[request[r].job].attempts = 0 => copies[r] = <<>>
                      /\ request[r].job \in Finished("published") =>
                            copies[r] # <<>> /\ Last(copies[r]) = "whole"
    BY DEF CopiesMatchAttempts
  <2>1. InStep(copies[r], request[r].job)
    BY DEF ServerInv, Kept
  <2>2. copies[r] \in Copies
    BY DEF ServerInv, ServerTypes, Acknowledged
  <2>3. Len(copies[r]) <= 0 => copies[r] = <<>>
    BY <2>2 DEF Copies
  <2> QED
    BY <2>1, <2>3 DEF InStep
<1> QED
  BY <1>1, ServerInvariants, PTL
=============================================================================
