SPECIFICATION Spec
CONSTANTS
    Sessions = {s1, s2, s3}
    Rooms = {r1, r2}
    OldRooms = {r1}
    Handlers = {h1, h2}
    NoSession = NoSession
    NoRoom = NoRoom
    Faults = {"reply lost", "delete refused", "store"}
    MaxFailures = 2
    MaxCrashes = 1
SYMMETRY IdSymmetry
INVARIANT BoundIsTracked
INVARIANT LiveIffBound
INVARIANT BindingIsSaved
INVARIANT OneSessionUndisturbed
INVARIANT PortalsAgree
PROPERTY LostOnlyForReplacement
PROPERTY KeptUntilReplaced
CHECK_DEADLOCK FALSE
