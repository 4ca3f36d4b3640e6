SPECIFICATION FairSpec
CONSTANTS
    Pids = {p1, p2}
    MaxStart = 2
    MaxBoot = 1
    UnlinkFaults = FALSE
INVARIANT NoLeakedLease
PROPERTY StockResumes
