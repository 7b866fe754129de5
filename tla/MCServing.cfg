CONSTANTS
    Parts = {"serve", "gate", "control"}
    None = None
    s1 = s1
    s2 = s2
    x1 = x1
    d1 = d1
    l1 = l1
    r1 = r1
    own = own
    p1 = p1
    p2 = p2
    c1 = c1
    c2 = c2
    Start = {s1, s2}
    Changer = {x1}
    Device = {d1}
    Local = {l1}
    Debounce = 2
    Residents = {p1, p2}
    Foreign = {}
    Large = {p2}
    Admitting = {p1}
    Commands = {c1, c2}
    Does <- MCDoes
    Slots = 1
SPECIFICATION MCSpec
INVARIANTS OneServe StopHeld DownIsDown
PROPERTIES SaysWhy ClaimedStops StopOpens Untrusted StoppedStops
CHECK_DEADLOCK FALSE
