SPECIFICATION Spec
CONSTANTS
    Subjects = {"admin"}
    Users = {u1, u2}
    Names = {n1}
    Polls = {p1}
    MaxLogins = 3
    Items = {i1}
    Requests = {r1, r2}
    Devices = {d1, d2}
    PageSize = 1
    MaxRows = 2
    MaxMoves = 3
    None = None
INVARIANTS
    DeletedIsGone
