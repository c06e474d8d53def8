SPECIFICATION Spec
CONSTANTS
    Sessions = {s1}
    States = {o1, o2}
    NoState = NoState
    NoSession = NoSession
    RowKinds = {"user"}
    MaxRows = 1
SYMMETRY ObjectSymmetry
INVARIANT NoDoubleClose
INVARIANT TypingBalanced
CHECK_DEADLOCK FALSE
