SPECIFICATION Spec
CONSTANTS
    Pids = {p1, p2}
    MaxStart = 4
    MaxBoot = 1
    UnlinkFaults = TRUE
INVARIANTS
    TypeOK
    LeaseIsMine
    OwnedExcludesStock
PROPERTIES
    OnlyOwnerReleases
    ImplementsDisplayOwner
