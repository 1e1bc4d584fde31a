SPECIFICATION FairRunSpec
CONSTANTS
    Cap = 3
    MaxTotal = 5
PROPERTY DeadlineEndsCall
