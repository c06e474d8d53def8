SPECIFICATION Spec
CONSTANTS
    Sessions = {s1}
    States = {o1}
    NoState = NoState
    NoSession = NoSession
    RowKinds = {"user", "text"}
    MaxRows = 2
PROPERTY NoEventAfterForget
CHECK_DEADLOCK FALSE
