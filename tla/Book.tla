-------------------------------- MODULE Book --------------------------------
(***************************************************************************)
(* The root's working records (Book, src/root.rs): the list of devices and *)
(* of revocations that a root act starts from, brings forward from what    *)
(* its home holds, changes and signs.  This module is data only.           *)
(*                                                                         *)
(* take_member takes the devices of an update into the records one at a    *)
(* time, in the order of their keys.  Here an update is taken at once: in  *)
(* an update no key and no name is listed twice, so what becomes of a row  *)
(* depends on two members at most, the one with its key and the one with   *)
(* its name, and on which of them comes first (TakenBefore).               *)
(***************************************************************************)
EXTENDS Integers, FiniteSets

CONSTANTS
    Key,       \* device keys
    Rank,      \* the order of their bytes, which an update lists its devices in
    Name,      \* device labels
    Signer,    \* what tells two standings of one key and one date apart
    None,      \* no update, no key
    MaxIds,    \* MAX_IDS: the most renewals in force of one device
    Term       \* how long every standing runs

ASSUME BookAssumption ==
    /\ Rank \in [Key -> Nat] /\ \A k, j \in Key : Rank[k] = Rank[j] => k = j
    /\ None \notin Key /\ None \notin Signer
    /\ MaxIds \in Nat \ {0}
    /\ Term \in Nat \ {0}

\* A name is never wanting: a suffix is counted up until no row has it.
ASSUME NamesAssumption ==
    IsFiniteSet(Key) /\ (IsFiniteSet(Name) => Cardinality(Name) > 2 * Cardinality(Key))

\* A standing, and the revocation id that names it.
Standing == [key : Key, ends : Nat, by : Signer]

\* Member: seeded is invite_until # 0, and until is the end of the standing.
Row == [node : Key, label : Name, standing : Standing, ids : SUBSET Standing, seeded : BOOLEAN]

\* RosterDoc, signed.
Update == [number : Nat, rows : SUBSET Row, ids : SUBSET Standing, keys : SUBSET Key]

\* A key, a standing and an update are told apart.
ASSUME KindsAssumption == (\A k \in Key : k \notin Standing) /\ None \notin Update

Records == [number : Nat, rows : SUBSET Row, marked : SUBSET Row, ids : SUBSET Standing, keys : SUBSET Key]

Number(held) == IF held = None THEN 0 ELSE held.number

Later(a, b) == IF a > b THEN a ELSE b

InForce(ids, now) == {i \in ids : i.ends > now}

Nodes(rows) == {r.node : r \in rows}
Labels(rows) == {r.label : r \in rows}

RowOf(rows, key) == CHOOSE r \in rows : r.node = key
RowNamed(rows, name) == CHOOSE r \in rows : r.label = name

\* What with_revocations refuses to build otherwise, and what follow_keys makes of the records: one row
\* for a key, one for a name, and none of a revoked key.
OneEach(rows) == \A r, q \in rows : r.node = q.node \/ r.label = q.label => r = q
WellFormed(doc) ==
    /\ OneEach(doc.rows)
    /\ Nodes(doc.rows) \cap doc.keys = {}
    /\ \A r \in doc.rows : Cardinality(r.ids) <= MaxIds

\* Book::of
BookOf(list) ==
    IF list = None
    THEN [number |-> 0, rows |-> {}, marked |-> {}, ids |-> {}, keys |-> {}]
    ELSE [number |-> list.number, rows |-> list.rows, marked |-> {}, ids |-> list.ids, keys |-> list.keys]

\* fresh_name: a name no row has; the suffix it counts up is left out.
FreshName(rows) == CHOOSE n \in Name : n \notin Labels(rows)

-----------------------------------------------------------------------------
(* Bringing the records forward. *)

\* follow_keys: the rows of revoked keys are marked, and their ids in force revoked.
FollowKeys(b, now) ==
    LET gone == {r \in b.rows : r.node \in b.keys}
    IN  [b EXCEPT !.rows = @ \ gone,
                  !.marked = {r \in @ : r.node \notin Nodes(gone)} \cup gone,
                  !.ids = @ \cup UNION {InForce(r.ids, now) : r \in gone}]

\* bring_revocations
BringRevocations(b, u, now) ==
    [b EXCEPT !.ids = @ \cup InForce(u.ids, now), !.keys = @ \cup u.keys]

\* A mistake in Newest: the cap is left to the renewals.
NewestAll(ids) == ids

\* The latest MaxIds of ids.
Newest(ids) ==
    IF Cardinality(ids) <= MaxIds THEN ids
    ELSE CHOOSE kept \in SUBSET ids :
            Cardinality(kept) = MaxIds /\ \A i \in kept, j \in ids \ kept : j.ends <= i.ends

\* take_member, of a key the records list: the ids of both, and the later standing.  The row keeps its name.
Merged(r, m, now) ==
    [r EXCEPT !.ids = Newest(InForce(r.ids \cup m.ids, now)),
              !.standing = IF m.standing.ends > @.ends THEN m.standing ELSE @,
              !.seeded = @ \/ m.seeded]

Capped(r, m, now) == InForce(r.ids \cup m.ids, now) \ Merged(r, m, now).ids

\* Another device of the update has the name of the row.
Clashes(r, u) == \E m \in u.rows : m.label = r.label /\ m.node # r.node

\* take_member: the update's device wins its name, and the row that had it is revoked, unless it is this
\* machine's own.
Revoked(b, u, own) == {r.node : r \in {q \in b.rows : Clashes(q, u) /\ q.node # own}}

\* The member with the key of r is taken into r: r's key is not revoked by then.
TakenBefore(r, u, own) ==
    /\ r.node \in Nodes(u.rows) \ u.keys
    /\ \A m \in u.rows : m.label = r.label /\ m.node # r.node /\ r.node # own => Rank[r.node] < Rank[m.node]

\* Book::bring_forward, with the follow_keys that comes after it.
BringForward(b, u, own, now) ==
    LET told == BringRevocations(b, u, now)
        keys == told.keys \cup Revoked(b, u, own)
        taken == {r \in b.rows : r.node \notin b.keys /\ TakenBefore(r, u, own)}
        Fuller(r) == IF r \in taken THEN Merged(r, RowOf(u.rows, r.node), now) ELSE r
        Renamed(r) == IF r.node = own /\ Clashes(r, u)
                   THEN [Fuller(r) EXCEPT !.label = FreshName(b.rows \cup u.rows)]
                   ELSE Fuller(r)
        new == {m \in u.rows : m.node \notin Nodes(b.rows) \cup keys}
        New(m) == [m EXCEPT !.ids = InForce(@, now)]
        capped == UNION {Capped(r, RowOf(u.rows, r.node), now) : r \in taken}
    IN  FollowKeys([told EXCEPT !.number = Later(@, u.number),
                                !.keys = keys,
                                !.ids = @ \cup capped,
                                !.rows = {Renamed(r) : r \in b.rows} \cup {New(m) : m \in new}], now)

\* carry_forward: of what this machine refuses, the ids that are the root's own and the keys of rows.
CarryForward(b, held, refused) ==
    LET listed == IF held = None THEN {} ELSE held.ids \cup UNION {m.ids : m \in held.rows}
        known == listed \cup UNION {r.ids : r \in b.rows}
    IN  [b EXCEPT !.ids = @ \cup (known \cap refused), !.keys = @ \cup (Nodes(b.rows) \cap refused)]

\* mark_listed
MarkListed(b, u) ==
    IF u = None THEN b
    ELSE [b EXCEPT !.marked = @ \cup {m \in u.rows : m.node \in b.keys \ Nodes(b.marked)}]

\* One update taken into the records: below floor, it brings its revocations only.
Take(b, u, floor, own, now) ==
    IF u = None THEN b
    ELSE IF u.number < floor THEN BringRevocations(b, u, now)
    ELSE BringForward(b, u, own, now)

\* A mistake in Behind: the records are brought forward from a fork alone.
BehindNever(b, held, fork) == fork # None

\* The records are brought forward from the lists held when they are behind the update, or a fork is kept.
Behind(b, held, fork) == Number(held) > b.number \/ fork # None

\* Book::forward
Forward(b, held, fork, refused, own, now) ==
    LET floor == Later(Number(held), b.number)
        brought == IF Behind(b, held, fork)
                   THEN Take(Take(b, held, b.number, own, now), fork, floor, own, now)
                   ELSE b
        followed == FollowKeys(CarryForward(brought, held, refused), now)
    IN  MarkListed(MarkListed(followed, held), fork)

-----------------------------------------------------------------------------
(* What an act signs. *)

\* prune and update: the records as the update numbered number.
Cut(b, number, now) ==
    [number |-> number,
     rows |-> {[r EXCEPT !.ids = InForce(@, now)] : r \in b.rows},
     ids |-> InForce(b.ids, now),
     keys |-> b.keys]

\* lacks: the records hold a row, an id or a key that the update held does not.
Lacks(b, held, now) ==
    \/ \E r \in b.rows :
          ~ \E m \in held.rows :
                /\ [m EXCEPT !.ids = {}] = [r EXCEPT !.ids = {}]
                /\ InForce(r.ids, now) \subseteq m.ids
    \/ ~ InForce(b.ids, now) \subseteq held.ids
    \/ ~ b.keys \subseteq held.keys

\* What an update revokes at time now, and whether one carries another's revocations (roster/fold.rs).
Owed(u, now) == InForce(u.ids, now) \cup u.keys
Carries(u, fork, now) == Owed(fork, now) \subseteq u.ids \cup u.keys
=============================================================================
