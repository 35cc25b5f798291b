CONSTANTS
    RX_BUFFER_SIZE = 4
    SEND_COUNT = 1
    PUBLISH_LIMIT = 2
    COUNT_MOD = 3
    WifiNotices = TRUE
    MaxLines = 2
    Booted = TRUE
SPECIFICATION Spec
INVARIANT StoresInBounds
