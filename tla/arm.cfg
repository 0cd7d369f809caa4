\* The margin test with one slow poll or fault, or two other programs with three.
SPECIFICATION FairSpec
CONSTANTS
    e1 = e1
    e2 = e2
    Plans <- MCPlans
    CmdPolls = 1
    FilePolls = 2
    BufLen = 8
    WordLen = 4
    Lens = {0, 7, 8, 17}
    DataLen = 2
    Sizes = {0, 3, 4}
    Elements = {e1, e2}
    Tables <- MCTables
    Tries = 2
    Rates = {1, 3}
    AmpMask = 4
    AmpOrg = 3
    AmpMin = 1
CHECK_DEADLOCK FALSE
INVARIANTS
    AnswerIsOwn
    DeliveredInOrder
    MarginSafe
PROPERTIES
    ToolEnds
