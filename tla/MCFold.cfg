\* Two processes of one home; the clock runs past the end of the first and the second standing.
CONSTANTS
    own = own
    k1 = k1
    o1 = o1
    o3 = o3
    i2 = i2
    serve = serve
    command = command
    None = None
    NoProc = NoProc
    Key <- MCKey
    Id <- MCId
    Holder <- MCHolder
    Ends <- MCEnds
    Own <- own
    Signed <- MCSigned
    Proc <- MCProc
    MaxTime = 2
SPECIFICATION Spec
INVARIANTS HeldCovered ForkNoticed SomeoneToAsk
PROPERTIES HoldsContract
CHECK_DEADLOCK FALSE
