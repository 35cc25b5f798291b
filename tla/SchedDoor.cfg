CONSTANTS
    RT_SEM_VALUE_MAX = 2
    ALARM_COUNT = 2
    PASS_COUNT = 2
    SEND_TIME = 2
    MOTOR_TIME = 8
    Uploads <- NoUploads
    Hearable <- HearPass
    ALARM_DEADLINE = 1
SPECIFICATION FairSchedSpec
PROPERTY SensorFollows
