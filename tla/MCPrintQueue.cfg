SPECIFICATION FairSpec
CONSTANTS
    MaxJobs = 2
    HistoryLimit = 1
    RetryMs = 2
    MaxTimeout = 2
    ScheduleSlack = 1
    Base = 3
    MaxTime = 4
    MaxSequence = 2
    MaxAttempts = 2
INVARIANTS TypeOK DueOrder NoLostWakeup PromptWakeup
PROPERTIES OneWorker EveryJobLeaves
