CONSTANTS
    a = a
    b = b
    c = c
    out = out
    lost = lost
    ia = ia
    ib = ib
    ic = ic
    io = io
    il = il
    sa = sa
    sb = sb
    None = None
    NoMachine = NoMachine
    Key <- MCKey
    Id <- MCId
    Holder <- MCHolder
    Ends <- MCEnds
    Signed <- Fork
    Device <- ThreeDevices
    Outsider <- NoOutsider
    Dialer <- OneDialer
    Machine <- MCMachineB
    Cutter <- ForkCutter
    Now = 0
    MaxFaults = 1
SPECIFICATION FairSpec
PROPERTIES ExchangeEnds EveryoneHears
