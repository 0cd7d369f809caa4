\* Two engines that share one of two threads or have one each, with hardware errors.
SPECIFICATION FairSpec
CONSTANTS
    Engines = {e1, e2}
    NumThreads = 2
    Sizes = {2}
    MaxCalls = 2
    Faults = {"error"}
    NoThread = NoThread
\* Removed engines and stopped threads end the system.
CHECK_DEADLOCK FALSE
INVARIANTS
    WorkIsExact
    NoLostWakeup
    PolledIsMoved
PROPERTIES
    PollServes
