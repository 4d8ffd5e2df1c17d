CONSTANTS
    MaxListing = 3
    SDKBuffer = 1
SPECIFICATION Spec
PROPERTY ListingEnds
CHECK_DEADLOCK FALSE
