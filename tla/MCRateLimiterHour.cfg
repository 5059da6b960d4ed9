CONSTANTS
    Thread = {t1}
    Bucket = {b1, b2}
    Burst = 5
    Cost = 2
    Idle = 5
    MaxTime = 9
    NoBucket = NoBucket
SPECIFICATION Spec
INVARIANT HourlyLimit
