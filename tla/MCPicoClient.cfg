SPECIFICATION ClientSpec
CONSTANTS
    Size = 3
    MaxBytes = 7
    SizeT = 16
    MaxFragment = 4
    Delay = 2
    Poll = 1
INVARIANT TriedInTime
PROPERTIES QueueSpec ConnectionComesBack BytesAreFlushed
