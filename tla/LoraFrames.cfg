CONSTANTS
    Texts <- TwoTexts
    MAX_TEXT = 2
    STR_SIZE = 3
    INDEX_MOD = 4
    MAX_BROKEN = 1
SPECIFICATION LoraSpec
INVARIANTS LoraTypeOK FrameLands Resynced OverrunNeedsLosses
