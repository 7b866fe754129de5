CONSTANTS
    a = a
    b = b
    c = c
    out = out
    lost = lost
    ia = ia
    ib = ib
    ic = ic
    io = io
    il = il
    sa = sa
    sb = sb
    None = None
    NoMachine = NoMachine
    Key <- MCKey
    Id <- MCId
    Holder <- MCHolder
    Ends <- MCEnds
    Signed <- Overtaken
    Device <- TwoDevices
    Outsider <- NoOutsider
    Dialer <- OneDialer
    Machine <- MCMachineB
    Cutter <- OvertakenCutter
    Now = 0
    MaxFaults = 0
SPECIFICATION FairSpec
PROPERTY TwoCopiesReported
