SPECIFICATION FairSpec
CONSTANTS
    Sessions = {s1}
    States = {o1}
    NoState = NoState
    NoSession = NoSession
    RowKinds = {"user", "text"}
    MaxRows = 2
PROPERTY RowsReachCallback
PROPERTY TypingEnds
PROPERTY StopReturns
CHECK_DEADLOCK FALSE
