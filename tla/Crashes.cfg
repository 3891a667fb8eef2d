SPECIFICATION Spec
CONSTANTS
    Invoices = {i1}
    Workers = {w1, w2}
    Operators = {o1, o2}
    Reviewers = {}
    Admins = {a1}
    NoOne = NoOne
    NoInvoice = NoInvoice
    MaxAttempts = 3
    MaxRequeues = 2
    MaxOverrides = 1
    MaxFaults = 1
SYMMETRY Symmetry
INVARIANT TypeOK
INVARIANT LockDiscipline
INVARIANT DeliveredJobsExist
INVARIANT ExtractionsPaidFor
