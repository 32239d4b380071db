SPECIFICATION Spec
CONSTANTS
    Clients = {c1, c2}
    Names = {n1}
    ct1 = ct1
    ct2 = ct2
    ct3 = ct3
    fields1 = fields1
    fields2 = fields2
    Contents = {ct1, ct2, ct3}
    QuickFields <- MCQuickFields
    Bases = {1}
    NoRow = NoRow
    NoQuickRow = NoQuickRow
    NoVersion = NoVersion
    MaxOps = 2
    MaxFaults = 0
INVARIANTS SuccessMeansStored
CHECK_DEADLOCK FALSE
