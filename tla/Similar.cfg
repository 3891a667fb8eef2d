SPECIFICATION Spec
CONSTANTS
    Invoices = {i1, i2}
    t1 = t1
    t2 = t2
    t3 = t3
    Texts = {t1, t2, t3}
    Near <- NearTexts
    Models = {m1, m2}
    None = None
    MaxSwitches = 2
SYMMETRY Symmetry
CHECK_DEADLOCK FALSE
INVARIANT NoTwinsTouchless
INVARIANT VectorsAreOfTheirText
INVARIANT SpendCountedOnce
