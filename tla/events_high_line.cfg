\* A line above the eight that xdma_isr() looks at.
SPECIFICATION EventsFairSpec
CONSTANTS
    Lines = {1, 9}
    Readers = {a}
    MaxRaised = 1
    MaxReads = 1
PROPERTIES
    EventIsRead
CHECK_DEADLOCK FALSE
