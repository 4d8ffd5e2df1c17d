CONSTANTS
    ConfigSet <- MCConfigSet
    AmazonHostName <- MCAmazonHostName
    GoogleHostName <- MCGoogleHostName
    MaxNew = 3
SPECIFICATION Spec
INVARIANT ClientForCredentials
CHECK_DEADLOCK FALSE
