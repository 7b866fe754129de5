CONSTANTS
    r1 = r1
    r3 = r3
    r2 = r2
    k1 = k1
    k2 = k2
    c1 = c1
    c2 = c2
    None = None
    Root = {r1, r2, r3}
    Key = {k1, k2}
    Proc = {c1, c2}
    Abroad = {r1, r2}
    FirstKey = k1
    MaxNumber = 4
    MaxActs = 3
    MaxStops = 1
SYMMETRY Alike
SPECIFICATION Spec
CHECK_DEADLOCK FALSE
INVARIANTS UndoesItsOwn
