CONSTANTS
    Parts = {"round", "renewal", "dial"}
    None = None
    Nobody = Nobody
    a = a
    b = b
    c = c
    p1 = p1
    p2 = p2
    Peers = {p1, p2}
    LastDay = 2
    MaxList = 3
    MaxFault = 1
    k1 = k1
    t1 = t1
    Key <- Devices
    Id <- NoIds
    Holder <- Nothing
    Ends <- Nothing
    Signed <- Cuts
    Order <- Drawn
SPECIFICATION MCSpec
INVARIANTS RoundTrue 
PROPERTIES RoundsEnd PicksUp DialEnds
CHECK_DEADLOCK FALSE
