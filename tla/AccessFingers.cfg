CONSTANTS
    RT_SEM_VALUE_MAX = 2
    PACKET = 4
    CODE = 1
    MaxTouches = 2
SPECIFICATION FairAccessSpec
INVARIANTS AccessTypeOK GrantIsReal InTimeIsUsed AnswersResync NoMissedVerdict
PROPERTY VerdictSent
