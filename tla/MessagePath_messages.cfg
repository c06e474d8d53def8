SPECIFICATION PathSpec
CONSTANTS
    Sessions = {s1, s2, s3}
    Rooms = {r1, r2}
    OldRooms = {r1}
    Handlers = {h1}
    NoSession = NoSession
    NoRoom = NoRoom
    Faults = {"reply lost", "delete refused"}
    MaxFailures = 1
    MaxCrashes = 1
    Messages = {x1, x2}
SYMMETRY Symmetry
INVARIANT RightRoom
INVARIANT PassedOverOnlyEarly
PROPERTY OneConversation
PROPERTY ImplementsConversation
CHECK_DEADLOCK FALSE
