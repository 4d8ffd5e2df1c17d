CONSTANTS
    b1 = b1
    b2 = b2
    BucketNames <- MCBucketNames
    NoBucket = NoBucket
    MaxEntries = 2
    MaxBuckets = 2
SPECIFICATION Spec
INVARIANT TypeOK
PROPERTY ContractSpec
CHECK_DEADLOCK FALSE
