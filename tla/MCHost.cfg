CONSTANTS
    Parts = {"links", "keys", "people", "watched"}
    None = None
    a1 = a1
    t1 = t1
    ServiceNames = {a1, a2}
    Serveable = {t1, t2}
    First <- SomeFirst
    Locking = {p1, p2}
    Owned = {k1, k2}
    Phrases = {w1}
    Persons = {p1}
    Labels = {l1}
    Saveable = {k1, r1, r2, r3, d1}
    Shown = {r1, r2, r3}
    MyMachines = {d1}
    YourRoot = r3
    Given = {x1}
    Editing = {c1, c2}
    Dirs = {"c1", "c2"}
    Lines <- SomeLines
    Openable = {"ping"}
    Edits <- SomeEdits
    Relays = {u1}
    Admitted = {r1}
    Starting = {c1, c2}
    Link = {l1, l2}
    Once = {l1}
    Bound = {}
    Key = {k1, k2}
    Target = {t1, t2}
    Never = {t1}
    PruneAt = 1
    Met = {k1}
    MaxWrite = 3
    MaxFault = 1
    Roots <- SomeRoots
    Throw = t1
    Books <- SomeBooks
    Dialed <- SomeDialed
    Me = "me"
    MaxTime = 1
SPECIFICATION MCSpec
INVARIANTS LinksTrue NoneMissing
PROPERTIES KeyByOwner BookHolds
CHECK_DEADLOCK FALSE
