SPECIFICATION Spec
CONSTANTS
    Requests = {q1, q2, q3}
    Replicas = {p1, p2}
    Limit = 1
    Window = 4
    Delay = 1
    Skew = 1
    Horizon = 5
SYMMETRY Symmetry
CHECK_DEADLOCK FALSE
INVARIANT AtMostLimitAdmitted
PROPERTY RetryAfterSuffices
