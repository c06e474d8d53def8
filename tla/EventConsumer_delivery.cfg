SPECIFICATION Spec
CONSTANTS
    Sessions = {s1}
    States = {o1}
    NoState = NoState
    NoSession = NoSession
    RowKinds = {"user", "text", "empty"}
    MaxRows = 3
INVARIANT TypeOK
INVARIANT ExactlyOnce
PROPERTY CursorAdvancesByOne
PROPERTY NoCallbackAfterStop
PROPERTY ImplementsRowDelivery
CHECK_DEADLOCK FALSE
