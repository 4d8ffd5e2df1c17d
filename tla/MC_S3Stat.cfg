CONSTANTS
    MaxListing = 4
    SDKBuffer = 2
SPECIFICATION Spec
INVARIANT TypeOK
INVARIANT StatAnswersListing
CHECK_DEADLOCK FALSE
