SPECIFICATION FairSpec
CONSTANTS
    Window = {w1}
    Operation = {o1, o2}
    Kind = {"run", "bounded", "alternatives"}
    g1 = g1
    g2 = g2
    s1 = s1
    Group <- Groups
    MaxReservations = 2
    MaxSettled = 1
    Permits = 1
    TTL = 1
    Budget = 1
    MaxTime = 1
    None = None
INVARIANTS StillCharged GroupsKept OneOwner CommitAnswered
CHECK_DEADLOCK FALSE
PROPERTIES WaiterLeaves BoundedAnswered
