SPECIFICATION FairSpec
CONSTANTS
    Period = 5
    RECONNECT_INTERVAL = 2
    PRINTER_WRITE_CHUNK_SIZE = 2
    MaxBlock = 1
    MaxPayload = 3
    MaxBytes = 4
INVARIANTS TypeOK TriedInTime
PROPERTIES CutForAReason BridgeSpec AllComesBack
