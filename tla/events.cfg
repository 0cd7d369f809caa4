\* Two lines, two threads that read or poll; each line raises up to two events.
SPECIFICATION EventsFairSpec
CONSTANTS
    Lines = {0, 1}
    Readers = {a, b}
    MaxRaised = 2
    MaxReads = 2
\* The bounded card and threads run out of events and calls.
CHECK_DEADLOCK FALSE
INVARIANTS
    NoLostEvent
    NoMissedWakeup
PROPERTIES
    EventIsRead
