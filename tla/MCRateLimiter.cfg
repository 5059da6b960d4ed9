CONSTANTS
    Thread = {t1, t2}
    Bucket = {b1, b2, b3}
    Burst = 2
    Cost = 2
    Idle = 2
    MaxTime = 7
    NoBucket = NoBucket
SPECIFICATION Spec
SYMMETRY Symmetry
INVARIANTS
    TypeOK
    BucketBudget
    GenerationsApart
PROPERTIES
    BucketsAreSteady
