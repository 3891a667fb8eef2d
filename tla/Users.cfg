SPECIFICATION Spec
CONSTANTS
    a1 = a1
    a2 = a2
    b1 = b1
    o1 = o1
    o2 = o2
    e1 = e1
    e2 = e2
    e3 = e3
    Members = {a1, a2, b1}
    Newcomers = {n1}
    Orgs = {o1, o2}
    OrgOf <- MCOrgOf
    Emails = {e1, e2, e3, e4}
    EmailOf <- MCEmailOf
    Requests = {r1, r2}
    Passwords = {w1, w2}
    FirstPassword = w1
    NoOne = NoOne
SYMMETRY Symmetry
INVARIANT AdminRemains
INVARIANT EmailsUnique
INVARIANT TrailMatchesRows
INVARIANT ReadTrailMatchesRows
PROPERTY OwnPasswordProven
