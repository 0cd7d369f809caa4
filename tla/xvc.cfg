\* Two processes shift none, a part, one, and two words and a part.
SPECIFICATION Spec
CONSTANTS
    Users = {u1, u2}
    Word = 2
    Lengths = {0, 1, 2, 5}
    LoopMax = 2
    MaxCalls = 2
    Nobody = Nobody
CHECK_DEADLOCK FALSE
INVARIANTS
    ShiftsInOrder
