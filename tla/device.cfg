SPECIFICATION Spec
CONSTANTS
    d1 = d1
    d2 = d2
    Devices = {d1, d2}
    Layouts <- MCLayouts
    Channels = 1
    UserIrqs = 1
    Majors = {m1, m2}
    MaxFails = 2
    MaxProbes = 3
    NoDevice = NoDevice
SYMMETRY MajorSymmetry
CHECK_DEADLOCK FALSE
INVARIANTS
    UnwindExact
    HandlersHaveEngine
    NodesHaveDevice
