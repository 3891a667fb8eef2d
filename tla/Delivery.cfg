SPECIFICATION Spec
CONSTANTS
    Invoices = {i1, i2}
    Workers = {w1, w2}
    Operators = {o1}
    Reviewers = {}
    Admins = {}
    NoOne = NoOne
    NoInvoice = NoInvoice
    MaxAttempts = 3
    MaxRequeues = 1
    MaxOverrides = 0
    MaxFaults = 0
SYMMETRY Symmetry
INVARIANT AtMostOneDelivery
INVARIANT QueuedIffDelivered
INVARIANT AttemptsCapped
INVARIANT JobTrailMatchesRow
PROPERTY ImplementsJobLifecycle
