CONSTANTS
    k1 = k1
    k2 = k2
    k3 = k3
    k4 = k4
    k5 = k5
    k6 = k6
    Key = {k1, k2, k3, k4, k5, k6}
    Rank <- MCRank
    Name <- MCName
    Signer = {"before", "a1", "a2", "a3", "a4", "bare"}
    None = None
    NoRoot = NoRoot
    MaxIds = 2
    Term = 4
    Home = {"kept", "other"}
    Own <- MCOwn
    Dir = {"copy"}
    Act = {"a1", "a2", "a3", "bare"}
    Runs <- MCRuns
    From <- MCFrom
    Asks <- MCAsks
    Start <- MCStart
    Day = 1
    MaxTime = 1
    MaxStops = 1

SPECIFICATION Spec

CHECK_DEADLOCK FALSE

INVARIANTS ActsSound CutIsNewest CutCarries Handed RevokedForGood
