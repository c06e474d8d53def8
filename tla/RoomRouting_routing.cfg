SPECIFICATION Spec
CONSTANTS
    Users = {u, v}
    Bot = Bot
    Rooms = {r1, r2}
    NoUser = NoUser
    NoRoom = NoRoom
    Handlers = {h1}
    EventCap = 1
    MaxFailures = 1
SYMMETRY Symmetry
INVARIANT SessionRoomsStayRooms
INVARIANT SeedFindsDMs
INVARIANT DMsStayListed
CHECK_DEADLOCK FALSE
