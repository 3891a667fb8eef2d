SPECIFICATION Spec
CONSTANTS
    Nothing = Nothing
    MaxWrites = 2
    MaxFaults = 1
    MaxVisits = 1
    MaxReviews = 1
CHECK_DEADLOCK FALSE
INVARIANT SettledShowsWhatItHeard
PROPERTY KeepsUp
