SPECIFICATION Spec
CONSTANTS
    Invoices = {i1}
    Workers = {w1}
    Operators = {}
    Reviewers = {r1}
    Admins = {}
    NoOne = NoOne
    NoInvoice = NoInvoice
    MaxAttempts = 2
    MaxRequeues = 0
    MaxOverrides = 0
    MaxFaults = 0
PROPERTY ApprovalIsFinal
