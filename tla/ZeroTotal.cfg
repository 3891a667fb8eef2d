SPECIFICATION Spec
CONSTANTS
    Amounts = {0, 1, 12}
    Confidences = {60, 80, 96}
    Histories <- MCHistories
    Nothing = Nothing
    EscalationBar = 85
    FieldBar = 75
    ApprovalBar = 92
    MinHistory = 3
    MaxAttempts = 2
INVARIANT PassedHasItsTotal
