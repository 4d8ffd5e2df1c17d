CONSTANTS
    ConfigSet <- MCConfigSet
    AmazonHostName <- MCAmazonHostName
    GoogleHostName <- MCGoogleHostName
    MaxNew = 3
SPECIFICATION Spec
INVARIANT TypeOK
INVARIANT NoDuplicateClient
CHECK_DEADLOCK FALSE
