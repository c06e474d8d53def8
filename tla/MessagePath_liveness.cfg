SPECIFICATION FairPathSpec
CONSTANTS
    Sessions = {s1, s2}
    Rooms = {r1}
    OldRooms = {r1}
    Handlers = {h1, h2}
    NoSession = NoSession
    NoRoom = NoRoom
    Faults = {"delete refused"}
    MaxFailures = 1
    MaxCrashes = 0
    Messages = {x1}
PROPERTY AnswerArrives
PROPERTY ResetRoomServedAgain
PROPERTY StopTakesDown
CHECK_DEADLOCK FALSE
