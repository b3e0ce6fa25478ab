\* Every part with the bounds of its own.
SPECIFICATION Spec

CONSTANTS
    Limits = {0, 3, 4}
    HighWater = 4
    LowWater = 1
    MaxFrame = 2
    MaxChunk = 2
    MaxBuffer = 9
    MaxTimers = 4
    MaxWindows = 4
    UploadHighWater = 2
    MaxUpload = 4
    SameTick = FALSE
    MaxBody = 2
    Styles = {"buffered", "stream", "asgi"}
    Readers = {1, 2}
    MaxOut = 3
    EarlyLimit = 4

\* A request is over when its channel is gone, and a closed channel relays
\* nothing more.
CHECK_DEADLOCK FALSE

INVARIANTS
    RelayInv
    BridgeInv
    ServeInv

PROPERTIES
    StatusFinal
    TransfersEnd
