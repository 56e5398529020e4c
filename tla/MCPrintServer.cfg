SPECIFICATION ServerSpec
CONSTANTS
    r1 = r1
    r2 = r2
    r3 = r3
    Requests <- MCRequests
    Messages <- MCMessages
    AllowTopicOverride = FALSE
    MaxRestarts = 1
    MaxJobs = 1
    HistoryLimit = 1
    RetryMs = 1
    MaxTimeout = 1
    ScheduleSlack = 1
    Base = 3
    MaxTime = 3
    MaxSequence = 2
    MaxAttempts = 2
INVARIANTS AnswerTellsEffect AcknowledgedJobsKept CopiesMatchAttempts
PROPERTY EveryRequestAnswered
