\* Two operations of up to two segments on a ring that wraps and can be overrun.
SPECIFICATION FairSpec
CONSTANTS
    Iocbs = {a1, a2}
    a1 = a1
    a2 = a2
    Iov <- IovShort
    DescMax = 3
    Faults = {"align", "map", "error", "late_busy", "offline"}
    NoDesc = NoDesc
\* The model ends where freed memory is listed, and a stopped engine with work
\* on its list waits for the next submission.
CHECK_DEADLOCK FALSE
INVARIANTS
    CompletesOnce
    DanglesOnlyIfCut
    ReportedIsMoved
PROPERTIES
    AioCompletes
