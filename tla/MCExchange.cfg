CONSTANTS
    a = a
    b = b
    c = c
    out = out
    lost = lost
    ia = ia
    ib = ib
    ic = ic
    io = io
    il = il
    sa = sa
    sb = sb
    None = None
    NoMachine = NoMachine
    Key <- MCKey
    Id <- MCId
    Holder <- MCHolder
    Ends <- MCEnds
    Signed <- Revoked
    Device <- TwoDevices
    Outsider <- MCOutsider
    Dialer <- TwoDialers
    Machine <- MCMachine
    Cutter <- RevokedCutter
    Now = 0
    MaxFaults = 1
SPECIFICATION Spec
INVARIANTS AnswersHold OnlyOvertaken ForkLeft
PROPERTIES NeverBack
