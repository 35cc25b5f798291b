CONSTANTS
    RT_SEM_VALUE_MAX = 3
    SemOrder <- DetectorSems
    Interval <- DetectorInterval
    PrepTimes <- DetectorPrep
    MAX_AGE = 3
SPECIFICATION FairDetectorSpec
INVARIANTS DetectorTypeOK SnapshotSpansTwoRounds TokensWorkedOff AssertHolds
PROPERTY WholeAgain
