CONSTANTS
    RT_SEM_VALUE_MAX = 1
    SemOrder <- GatewaySems
    Interval <- GatewayInterval
    PrepTimes <- GatewayPrep
SPECIFICATION BootSpec
INVARIANT AssertHolds
