SPECIFICATION ListSpec
CONSTANTS
    ListVals = {0, 1}
    MaxNodes = 4
    SizeT = 256
INVARIANT NextNReaches
CHECK_DEADLOCK FALSE
