SPECIFICATION FairSpec
CONSTANTS
    Size = 4
    MaxBytes = 9
    FixedChannel = 0
    MaxFragment = 5
    MaxMtu = 3
INVARIANTS TypeOK RingConsistent SendIsAsked
PROPERTIES QueueSpec EveryByteSent
