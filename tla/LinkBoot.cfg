CONSTANTS
    RX_BUFFER_SIZE = 4
    SEND_COUNT = 2
    PUBLISH_LIMIT = 2
    COUNT_MOD = 3
    WifiNotices = TRUE
    MaxLines = 2
    Booted = FALSE
SPECIFICATION FairSpec
INVARIANTS TypeOK NoReplay
PROPERTIES PublishMonitored BootBounded OutageDetected
