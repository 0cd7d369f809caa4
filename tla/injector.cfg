\* Two neighbouring channels, one of which wraps round its slots; everything
\* may fail, but `count` does not happen to be 3.
SPECIFICATION FairSpec
CONSTANTS
    Channels = {0, 1}
    Frames <- FourAndOne
    Faults = {"open", "write", "underflow", "register"}
    CountValues = {0}
INVARIANTS
    WritesFreeSlot
    ShownInOrder
    ShownIsWritten
PROPERTIES
    SentIsShown
    ProcessEnds
