SPECIFICATION Spec
CONSTANTS
    Queries <- MCQueries
    Mutations <- MCMutations
    SignOuts <- MCSignOuts
    Second = 2
    AccessTtl = 1
    RefreshTtl = 3
    Skew = 1
    Horizon = 2
    MaxTokens = 6
    MaxFaults = 1
CHECK_DEADLOCK FALSE
INVARIANT NoReplay
INVARIANT LogoutEndsSession
INVARIANT LoneCallsSurvive
