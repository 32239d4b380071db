SPECIFICATION Spec
CONSTANTS
    Clients = {c1, c2}
    Names = {n1}
    ct1 = ct1
    ct2 = ct2
    ct3 = ct3
    fields1 = fields1
    fields2 = fields2
    Contents = {ct1, ct2, ct3}
    QuickFields <- MCQuickFields
    Bases = {0, 1, 2}
    NoRow = NoRow
    NoQuickRow = NoQuickRow
    NoVersion = NoVersion
    MaxOps = 3
    MaxFaults = 2
SYMMETRY Symmetry
INVARIANTS TypeOK QuickIndexesStore
PROPERTIES FailedCreateUndone VersionsAdvanceProperty
CHECK_DEADLOCK FALSE
