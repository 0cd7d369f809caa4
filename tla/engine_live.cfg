\* Healthy hardware and no timer: interrupts alone must carry every call to
\* its return.
SPECIFICATION FairSpec
CONSTANTS
    Requests = {r1, r2, r3}
    Sizes = {1, 4}
    DescMax = 3
    Faults = {"late_busy"}
    NoReq = NoReq
    NoDesc = NoDesc
PROPERTIES
    Returns
