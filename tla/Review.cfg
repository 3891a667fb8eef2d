SPECIFICATION FairSpec
CONSTANTS
    Invoices = {i1}
    Workers = {w1, w2}
    Operators = {o1}
    Reviewers = {r1, r2}
    Admins = {}
    NoOne = NoOne
    NoInvoice = NoInvoice
    MaxAttempts = 2
    MaxRequeues = 1
    MaxOverrides = 0
    MaxFaults = 0
INVARIANT AutoApprovedNotFlagged
INVARIANT ReviewerHoldsCurrentRow
INVARIANT DecisionMatchesPage
INVARIANT TrailsTellTheInvoice
PROPERTY RejectionIsFinal
PROPERTY JobsSettle
