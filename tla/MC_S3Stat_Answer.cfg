CONSTANTS
    MaxListing = 3
    SDKBuffer = 1
SPECIFICATION Spec
INVARIANT StatAnswersSpec
CHECK_DEADLOCK FALSE
