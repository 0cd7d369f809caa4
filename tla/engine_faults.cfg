\* Every fault: timeouts, hardware errors, late BUSY, offline and online, dead
\* registers.  Two requests on a ring that wraps in the middle of a request.
SPECIFICATION FairSpec
CONSTANTS
    Requests = {r1, r2}
    Sizes = {1, 3}
    DescMax = 2
    Faults = {"timeout", "error", "late_busy", "offline", "dead"}
    NoReq = NoReq
    NoDesc = NoDesc
INVARIANTS
    NoDangling
    FetchesOwnChain
    DoneIsMoved
    InFlightMapped
    DescUsedExact
PROPERTIES
    OutcomeIsFinal
    Returns
    ImplementsDma
\* The model ends where a freed transfer stays on the list (dead registers).
CHECK_DEADLOCK FALSE
