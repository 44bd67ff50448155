SPECIFICATION Spec
CONSTANTS
    k1 = k1 k2 = k2 d1 = d1 d2 = d2 d3 = d3 c1 = c1 c2 = c2 p1 = p1 p2 = p2
    KBs = {k1, k2}
    Docs <- TwoDocs
    Contents = {c1, c2}
    Checksum <- Distinct
    Procs = {p1, p2}
    First = k1
    Indexed = {d1}
    Modes = {"overlap", "faultySaves"}
    MaxFence = 4
    MaxSaveFaults = 2
    MaxFaults = 2
SYMMETRY ProcSymmetry
INVARIANTS TypeOK VisibleComplete AckedKept FailedNotVisible Accounted
PROPERTY CatalogSpec
