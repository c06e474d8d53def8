SPECIFICATION Spec
CONSTANTS
    Sessions = {s1, s2}
    Restored = {s1}
    Procs = {q1, q2}
    NoProc = NoProc
    NoSession = NoSession
    Calls = {c1, c2}
    Requests = {k1, k2}
    NoRequest = NoRequest
    MaxSessions = 1
    MaxFailures = 1
SYMMETRY Symmetry
INVARIANT TypeOK
INVARIANT OneProcess
INVARIANT StateTellsTruth
INVARIANT NoOrphans
INVARIANT RowsAgree
INVARIANT OnlyCancelledLeak
CHECK_DEADLOCK FALSE
