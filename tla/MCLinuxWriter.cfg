SPECIFICATION Spec
CONSTANTS
    write_chunk_size = 2
    MaxPayload = 5
    MaxBytes = 7
INVARIANT NoStaleHandle
PROPERTY BridgeSpec
