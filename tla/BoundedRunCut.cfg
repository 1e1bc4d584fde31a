SPECIFICATION RunSpec
CONSTANTS
    Cap = 3
    MaxTotal = 5
INVARIANT NoCutReport
