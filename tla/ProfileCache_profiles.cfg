SPECIFICATION Spec
CONSTANTS
    Users = {u, v}
    Sources = {"~/a.b", "/srv/a-b", "https://host/r.git"}
    Paths = {"~/a.b", "/srv/a-b"}
    Places = {"/srv/a.b", "/srv/a-b", "https://host/r.git"}
    Place <- Resolved
    Clean <- Sanitized
    Ids = {i1, i2}
    NoId = NoId
    Handlers = {h1, h2}
    PageSize = 1
    MaxFailures = 1
SYMMETRY IdSymmetry
INVARIANT RightPlace
INVARIANT UsersShareProfile
INVARIANT NeverRefused
CHECK_DEADLOCK FALSE
