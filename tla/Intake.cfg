SPECIFICATION Spec
CONSTANTS
    Uploads = {u1, u2}
    Metadata = {m1}
    Replicas = {p1, p2}
    Suppliers = {s1}
    NoSupplier = NoSupplier
    Numbers = {n1, n2}
    Contents = {c1, c2}
    NoContent = NoContent
    NoOne = NoOne
    MaxRenumbers = 1
    MaxFaults = 2
SYMMETRY Symmetry
CHECK_DEADLOCK FALSE
INVARIANT RowsHaveFiles
INVARIANT NoOrphanFiles
INVARIANT ReuploadsMetByTheirReplica
INVARIANT NumbersReusedOnlyInRaces
