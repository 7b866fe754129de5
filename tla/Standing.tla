------------------------------- MODULE Standing -------------------------------
(***************************************************************************)
(* What a machine is to a root, read from the files of its home            *)
(* (src/standing.rs).  Every verb asks this once and matches on the        *)
(* result.  No read of it takes a lock.                                    *)
(***************************************************************************)
EXTENDS Integers, FiniteSets

CONSTANTS
    Root,    \* root keys
    Key,     \* keys this machine can have
    None     \* no such file

\* A list of devices: the root that signed it, its number, the keys with a live row, the keys it revokes.
List == [root : Root, number : Nat, rows : SUBSET Key, drops : SUBSET Key]

\* A device standing: the root that signed it and the key it is for.
Badge == [root : Root, key : Key]

ASSUME StandingAssumption == None \notin Root \cup Key \cup Badge \cup List

(* The files of a home, and the two files of a copy of a root in a directory of its own. *)
Files ==
    [key      : Key,                \* machine/key
     root     : Root \cup {None},   \* root.key
     pin      : Root \cup {None},   \* root.pub
     badge    : Badge \cup {None},  \* key.cert
     list     : List \cup {None},   \* devices, and what devices.conflict adds to it
     invited  : Root \cup {None},   \* invited-by: whose invite it was
     revoked  : SUBSET Root,        \* the roots in revoked
     copyKey  : Root \cup {None},   \* <dir>/root.key
     copyList : List \cup {None}]   \* <dir>/devices

-----------------------------------------------------------------------------
\* A root revoked here reads as no root, and a pin that names it as no pin.
Live(f, r) == IF r \in f.revoked THEN None ELSE r

LiveRoot(f) == Live(f, f.root)
LivePin(f)  == Live(f, f.pin)

\* The root kept here that was revoked here.
RevokedRoot(f) == IF f.root \in f.revoked THEN f.root ELSE None

-----------------------------------------------------------------------------
Unpinned   == [is |-> "unpinned", root |-> None]
Device(r)  == [is |-> "device", root |-> r]
Holds(r)   == [is |-> "holds", root |-> r]
Minting(r) == [is |-> "minting", root |-> r]
Damaged(what, r) == [is |-> what, root |-> r]

Damage == {"root not pinned", "root without standing", "pin without standing", "standing without pin",
           "standing from another root", "standing for another key"}

\* A standing under the pin: whether it is this machine's, read only where it decides something.
ForAnotherKey(f) == f.badge.key # f.key

WithRoot(f, r, p) ==
    IF p = None                THEN Minting(r)
    ELSE IF p # r              THEN Damaged("root not pinned", p)
    ELSE IF f.badge = None     THEN Damaged("root without standing", r)
    ELSE IF f.badge.root # p   THEN Damaged("root without standing", r)
    ELSE IF ForAnotherKey(f)   THEN Damaged("standing for another key", r)
    ELSE Holds(r)

WithPin(f, p) ==
    IF f.badge = None          THEN Damaged("pin without standing", p)
    ELSE IF f.badge.root # p   THEN Damaged("standing from another root", p)
    ELSE IF ForAnotherKey(f)   THEN Damaged("standing for another key", p)
    ELSE Device(p)

\* With neither, a standing that a revoked root signed goes with that root.
WithNeither(f) ==
    IF f.badge = None \/ f.badge.root \in f.revoked
      THEN Unpinned
      ELSE Damaged("standing without pin", f.badge.root)

\* Standing::read.
StandingOf(f) ==
    LET r == LiveRoot(f)
        p == LivePin(f)
    IN  IF r # None THEN WithRoot(f, r, p)
        ELSE IF p # None THEN WithPin(f, p)
        ELSE WithNeither(f)

IsDamaged(s) == s.is \in Damage

\* Whether the list here, if it is this root's, revokes this machine's own key.
OwnRevoked(f, r) == f.list # None /\ f.list.root = r /\ f.key \in f.list.drops

\* The number of the list, if it is this root's.
NumberUnder(l, r) == IF l # None /\ l.root = r THEN l.number ELSE 0
===============================================================================
