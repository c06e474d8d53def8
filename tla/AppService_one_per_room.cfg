SPECIFICATION Spec
CONSTANTS
    Sessions = {s1, s2, s3}
    Rooms = {r1, r2}
    OldRooms = {r1}
    Handlers = {h1, h2}
    NoSession = NoSession
    NoRoom = NoRoom
    Faults = {}
    MaxFailures = 0
    MaxCrashes = 0
SYMMETRY IdSymmetry
INVARIANT OneSessionPerRoom
CHECK_DEADLOCK FALSE
