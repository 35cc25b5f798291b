CONSTANTS
    RT_SEM_VALUE_MAX = 3
    ALARM_COUNT = 3
    PASS_COUNT = 2
    SEND_TIME = 2
    MOTOR_TIME = 8
    Uploads <- AnyUploads
    Hearable <- HearShut
    ALARM_DEADLINE = 23
SPECIFICATION FairSchedSpec
INVARIANTS SchedTypeOK NoLostWakeup UserKeepsUp AlarmInTime BuzzerFollows
PROPERTY SensorFollows
