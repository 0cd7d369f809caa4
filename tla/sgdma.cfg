\* Two processes with up to three calls each, the open included.
SPECIFICATION Spec
CONSTANTS
    Users = {u1, u2}
    MaxCalls = 3
    Faults = {"nomem", "copy", "error", "offline", "timeout"}
    Nobody = Nobody
SYMMETRY Symmetry
INVARIANTS
    OpenExclusive
    PerfWhole
    DamageExplained
    ModeAgrees
\* The calls are bounded.
CHECK_DEADLOCK FALSE
