----------------------------- MODULE BookProofs -----------------------------
(***************************************************************************)
(* Lemmas about the root's working records, for any keys, names and        *)
(* standings: whatever lists the records are brought forward from, one row *)
(* stays for a key and one for a name, none of a revoked key, and no row   *)
(* is listed with more ids in force than an update holds.  What the        *)
(* records are brought forward from they have: no standing in force of     *)
(* theirs is lost, nor a revocation, nor a device of the newer update.     *)
(***************************************************************************)
EXTENDS Book, FiniteSetTheorems, TLAPS

\* The rows of an update or of the records: one of a key, one of a name, each with finitely many ids.
Sorted(rows) == OneEach(rows) /\ \A r \in rows : IsFiniteSet(r.ids)

IsBook(b) == b \in Records /\ Sorted(b.rows)

\* No row of a revoked key.
Parted(b) == Nodes(b.rows) \cap b.keys = {}

\* A list of the home or the copy, or none.
IsList(u) == u = None \/ (u \in Update /\ WellFormed(u) /\ Sorted(u.rows))

-----------------------------------------------------------------------------
(* Newest, and a name for every row. *)

\* Of finitely many standings one ends no later than the others.
LEMMA FirstToEnd ==
    ASSUME NEW S \in SUBSET Standing, IsFiniteSet(S), S # {}
    PROVE  \E i \in S : \A j \in S : i.ends <= j.ends
<1> DEFINE Before(i) == {j \in S : j.ends < i.ends}
           T == {Before(i) : i \in S}
<1>1. T \subseteq FiniteSubsetsOf(S) /\ T # {}
    <2>1. \A i \in S : Before(i) \in SUBSET S
        OBVIOUS
    <2>2. \A i \in S : Before(i) \in FiniteSubsetsOf(S)
        <3> HIDE DEF Before
        <3> QED BY <2>1, FS_Subset DEF FiniteSubsetsOf
    <2> HIDE DEF Before
    <2> QED BY <2>2
<1>2. PICK x \in T : \A y \in T : <<y, x>> \notin StrictSubsetOrdering(S)
    <2> HIDE DEF T
    <2> QED BY <1>1, FS_StrictSubsetOrderingWellFounded, WFMin
<1>3. PICK i \in S : x = Before(i)
    BY <1>2
<1>4. SUFFICES ASSUME NEW j \in S, ~ (i.ends <= j.ends) PROVE FALSE
    OBVIOUS
<1>5. i.ends \in Nat /\ j.ends \in Nat
    BY DEF Standing
<1>6. Before(j) \subseteq x
    BY <1>3, <1>4, <1>5 DEF Standing
<1>7. j \in x /\ j \notin Before(j)
    BY <1>3, <1>4, <1>5
<1>8. <<Before(j), x>> \in StrictSubsetOrdering(S)
    <2> HIDE DEF Before
    <2>1. x \in SUBSET S /\ Before(j) \in SUBSET S
        BY <1>3 DEF Before
    <2> QED BY <2>1, <1>6, <1>7 DEF StrictSubsetOrdering
<1> QED BY <1>2, <1>8

\* The latest MaxIds of more than MaxIds standings are a set of them.
LEMMA LatestExist ==
    ASSUME NEW ids \in SUBSET Standing, IsFiniteSet(ids), Cardinality(ids) > MaxIds
    PROVE  \E kept \in SUBSET ids :
              Cardinality(kept) = MaxIds /\ \A i \in kept, j \in ids \ kept : j.ends <= i.ends
<1> DEFINE Latest(S) == Cardinality(S) >= MaxIds /\ \A i \in S, j \in ids \ S : j.ends <= i.ends
           T == {S \in SUBSET ids : Latest(S)}
<1> USE BookAssumption
<1>1. T \subseteq FiniteSubsetsOf(ids)
    BY FS_Subset DEF FiniteSubsetsOf
<1>2. ids \in T
    BY FS_CardinalityType
<1>3. PICK S \in T : \A y \in T : <<y, S>> \notin StrictSubsetOrdering(ids)
    <2> HIDE DEF T
    <2> QED BY <1>1, <1>2, FS_StrictSubsetOrderingWellFounded, WFMin
<1>4. S \in SUBSET ids /\ Latest(S) /\ IsFiniteSet(S) /\ Cardinality(S) \in Nat
    BY FS_Subset, FS_CardinalityType
<1>5. CASE Cardinality(S) = MaxIds
    BY <1>4, <1>5
<1>6. CASE Cardinality(S) # MaxIds
    <2>1. Cardinality(S) > MaxIds /\ S # {}
        BY <1>4, <1>6, FS_EmptySet
    <2>2. PICK i \in S : \A j \in S : i.ends <= j.ends
        BY <1>4, <2>1, FirstToEnd
    <2> DEFINE Y == S \ {i}
    <2>3. Cardinality(Y) = Cardinality(S) - 1
        BY <1>4, <2>2, FS_RemoveElement
    <2>4. ASSUME NEW k \in Y, NEW j \in ids \ Y PROVE j.ends <= k.ends
        BY <1>4, <2>2
    <2>5. Y \in T
        BY <1>4, <2>1, <2>3, <2>4
    <2>6. <<Y, S>> \in StrictSubsetOrdering(ids)
        <3>1. Y \in SUBSET ids /\ Y \subseteq S /\ Y # S
            BY <1>4, <2>2
        <3> HIDE DEF Y, Latest
        <3> QED BY <1>4, <3>1 DEF StrictSubsetOrdering
    <2> QED BY <1>3, <2>5, <2>6
<1> QED BY <1>5, <1>6

\* newest_ids: of finitely many ids it keeps MaxIds at most, and only of these.
LEMMA NewestFew ==
    ASSUME NEW ids \in SUBSET Standing, IsFiniteSet(ids)
    PROVE  /\ Newest(ids) \in SUBSET ids
           /\ IsFiniteSet(Newest(ids))
           /\ Cardinality(Newest(ids)) <= MaxIds
<1> USE BookAssumption
<1>1. CASE Cardinality(ids) <= MaxIds
    BY <1>1 DEF Newest
<1>2. CASE ~ Cardinality(ids) <= MaxIds
    <2>1. Cardinality(ids) > MaxIds
        BY <1>2, FS_CardinalityType
    <2>2. /\ Newest(ids) \in SUBSET ids
          /\ Cardinality(Newest(ids)) = MaxIds
        BY <1>2, <2>1, LatestExist DEF Newest
    <2> QED BY <2>2, FS_Subset
<1> QED BY <1>1, <1>2

\* Rows of one key each are no more than the keys, and no more are their names.
LEMMA FewLabels ==
    ASSUME NEW rows \in SUBSET Row, OneEach(rows)
    PROVE  /\ IsFiniteSet(Labels(rows))
           /\ Cardinality(Labels(rows)) <= Cardinality(Key)
<1>1. IsFiniteSet(Key)
    BY NamesAssumption
<1>2. IsFiniteSet(rows) /\ Cardinality(rows) <= Cardinality(Key)
    <2> DEFINE f == [r \in rows |-> r.node]
    <2>1. f \in Injection(rows, Key)
        BY DEF OneEach, Injection, IsInjective, Row
    <2> QED BY <1>1, <2>1, FS_Injection
<1>3. IsFiniteSet(Labels(rows)) /\ Cardinality(Labels(rows)) <= Cardinality(rows)
    <2> DEFINE f == [r \in rows |-> r.label]
    <2>1. f \in Surjection(rows, Labels(rows))
        BY DEF Surjection, Labels
    <2> QED BY <1>2, <2>1, FS_Surjection
<1> QED BY <1>1, <1>2, <1>3, FS_CardinalityType

\* fresh_name: there is a name that neither the records' rows nor an update's have.
LEMMA FreshNamed ==
    ASSUME NEW rows \in SUBSET Row, OneEach(rows), NEW more \in SUBSET Row, OneEach(more)
    PROVE  /\ FreshName(rows \cup more) \in Name
           /\ FreshName(rows \cup more) \notin Labels(rows)
           /\ FreshName(rows \cup more) \notin Labels(more)
<1> DEFINE L == Labels(rows) \cup Labels(more)
<1>1. Labels(rows \cup more) = L
    BY DEF Labels
<1>2. /\ IsFiniteSet(Labels(rows)) /\ Cardinality(Labels(rows)) <= Cardinality(Key)
      /\ IsFiniteSet(Labels(more)) /\ Cardinality(Labels(more)) <= Cardinality(Key)
    BY FewLabels
<1>3. IsFiniteSet(L) /\ Cardinality(L) <= 2 * Cardinality(Key)
    <2>1. IsFiniteSet(L) /\ Cardinality(L) = Cardinality(Labels(rows)) + Cardinality(Labels(more))
                                              - Cardinality(Labels(rows) \cap Labels(more))
        BY <1>2, FS_Union
    <2>2. IsFiniteSet(Labels(rows) \cap Labels(more))
        BY <1>2, FS_Subset
    <2>3. /\ Cardinality(Labels(rows) \cap Labels(more)) \in Nat /\ Cardinality(Labels(rows)) \in Nat
          /\ Cardinality(Labels(more)) \in Nat /\ Cardinality(Key) \in Nat
        BY <1>2, <2>2, FS_CardinalityType, NamesAssumption
    <2> QED BY <1>2, <2>1, <2>3
<1>4. \E n \in Name : n \notin L
    <2>1. SUFFICES ASSUME Name \subseteq L PROVE FALSE
        OBVIOUS
    <2>2. IsFiniteSet(Name) /\ Cardinality(Name) <= Cardinality(L)
        BY <1>3, <2>1, FS_Subset
    <2> QED BY <1>3, <2>2, NamesAssumption, FS_CardinalityType
<1> HIDE DEF L
<1>5. FreshName(rows \cup more) \in Name /\ FreshName(rows \cup more) \notin L
    BY <1>1, <1>4 DEF FreshName
<1> QED BY <1>5 DEF L

-----------------------------------------------------------------------------
(* Bringing the records forward. *)

\* What is in force of a row's ids is some of them.
LEMMA InForceSome ==
    ASSUME NEW ids \in SUBSET Standing, IsFiniteSet(ids), NEW time \in Nat
    PROVE  /\ InForce(ids, time) \in SUBSET Standing /\ InForce(ids, time) \subseteq ids
           /\ IsFiniteSet(InForce(ids, time))
           /\ Cardinality(InForce(ids, time)) <= Cardinality(ids)
BY FS_Subset DEF InForce

\* follow_keys: no row is left of a revoked key, and the others are as they were.
LEMMA FollowKeysParts ==
    ASSUME NEW b \in Records, NEW time \in Nat
    PROVE  LET f == FollowKeys(b, time)
           IN  /\ f \in Records /\ Parted(f)
               /\ f.number = b.number /\ f.keys = b.keys
               /\ f.rows = {r \in b.rows : r.node \notin b.keys}
               /\ Nodes(f.marked) \subseteq Nodes(b.marked) \cup Nodes(b.rows)
               /\ b.ids \subseteq f.ids
<1> DEFINE gone == {r \in b.rows : r.node \in b.keys}
           f == FollowKeys(b, time)
<1>1. /\ b.rows \in SUBSET Row /\ b.marked \in SUBSET Row /\ b.ids \in SUBSET Standing
      /\ b.keys \in SUBSET Key /\ b.number \in Nat
    BY DEF Records
<1>2. \A r \in gone : InForce(r.ids, time) \in SUBSET Standing
    BY <1>1 DEF InForce, Row
<1>3. /\ f.number = b.number /\ f.rows = b.rows \ gone
      /\ f.marked = {r \in b.marked : r.node \notin Nodes(gone)} \cup gone
      /\ f.ids = b.ids \cup UNION {InForce(r.ids, time) : r \in gone} /\ f.keys = b.keys
    BY DEF FollowKeys, Records
<1>4. b.rows \ gone = {r \in b.rows : r.node \notin b.keys}
    OBVIOUS
<1>5. UNION {InForce(r.ids, time) : r \in gone} \in SUBSET Standing
    BY <1>2
<1>6. f \in Records
    <2>1. /\ b.ids \cup UNION {InForce(r.ids, time) : r \in gone} \in SUBSET Standing
          /\ {r \in b.marked : r.node \notin Nodes(gone)} \cup gone \in SUBSET Row
          /\ b.rows \ gone \in SUBSET Row
        BY <1>1, <1>5
    <2> QED BY <2>1 DEF FollowKeys, Records
<1>7. Parted(f)
    BY <1>3 DEF Parted, Nodes
<1>8. Nodes(f.marked) \subseteq Nodes(b.marked) \cup Nodes(b.rows)
    BY <1>3 DEF Nodes
<1> QED BY <1>3, <1>4, <1>6, <1>7, <1>8

\* take_member, of a key the records list: the row keeps its key and its name, and has MaxIds ids at most.
LEMMA MergedRow ==
    ASSUME NEW r \in Row, NEW m \in Row, IsFiniteSet(r.ids), IsFiniteSet(m.ids), NEW time \in Nat
    PROVE  LET q == Merged(r, m, time)
           IN  /\ q \in Row /\ q.node = r.node /\ q.label = r.label
               /\ IsFiniteSet(q.ids) /\ Cardinality(q.ids) <= MaxIds
<1> DEFINE ids == InForce(r.ids \cup m.ids, time)
<1>1. r.ids \cup m.ids \in SUBSET Standing /\ IsFiniteSet(r.ids \cup m.ids)
    BY FS_Union DEF Row
<1>2. ids \in SUBSET Standing /\ IsFiniteSet(ids)
    BY <1>1, InForceSome
<1>3. Newest(ids) \in SUBSET Standing /\ IsFiniteSet(Newest(ids)) /\ Cardinality(Newest(ids)) <= MaxIds
    BY <1>2, NewestFew
<1> HIDE DEF ids
<1>4. /\ (IF m.standing.ends > r.standing.ends THEN m.standing ELSE r.standing) \in Standing
      /\ (r.seeded \/ m.seeded) \in BOOLEAN
    BY DEF Row
<1>5. Merged(r, m, time) \in Row
    BY <1>3, <1>4 DEF Merged, Row, ids
<1>6. LET q == Merged(r, m, time) IN q.node = r.node /\ q.label = r.label /\ q.ids = Newest(ids)
    BY DEF Merged, Row, ids
<1> QED BY <1>3, <1>5, <1>6

\* The row of a key that rows list.
LEMMA RowOfIn ==
    ASSUME NEW rows, NEW key \in Nodes(rows)
    PROVE  RowOf(rows, key) \in rows /\ RowOf(rows, key).node = key
BY DEF RowOf, Nodes

\* The row of a name that rows list.
LEMMA RowNamedIn ==
    ASSUME NEW rows, NEW name \in Labels(rows)
    PROVE  RowNamed(rows, name) \in rows /\ RowNamed(rows, name).label = name
BY DEF RowNamed, Labels

\* Each row of rows has at most MaxIds ids, or those its key had in before.
Within(rows, before) ==
    \A r \in rows : \/ Cardinality(r.ids) <= MaxIds
                    \/ \E q \in before : q.node = r.node /\ q.ids = r.ids

\* What bringing the records b forward from the update u comes to, on the machine of the key own.
BroughtFrom(f, b, u, own) ==
    /\ IsBook(f) /\ Parted(f) /\ Within(f.rows, b.rows)
    /\ f.number = Later(b.number, u.number)
    /\ b.keys \cup u.keys \subseteq f.keys
    /\ f.keys \subseteq b.keys \cup u.keys \cup (Nodes(b.rows) \ {own})
    /\ Nodes(f.rows) \subseteq Nodes(b.rows) \cup Nodes(u.rows)
    /\ Nodes(f.marked) \subseteq Nodes(b.marked) \cup Nodes(b.rows) \cup Nodes(u.rows)
    /\ Nodes(b.rows) \cup Nodes(u.rows) \subseteq Nodes(f.rows) \cup f.keys

\* Book::bring_forward keeps one row for a key and one for a name, drops no key unless it is revoked, and revokes
\* none but those revoked already and those whose name another device of the update has, this machine's aside.
LEMMA BringForwardParts ==
    ASSUME NEW b, IsBook(b), NEW u \in Update, WellFormed(u), Sorted(u.rows), NEW own \in Key, NEW time \in Nat
    PROVE  BroughtFrom(BringForward(b, u, own, time), b, u, own)
<1> DEFINE told == BringRevocations(b, u, time)
           keys == told.keys \cup Revoked(b, u, own)
           taken == {r \in b.rows : r.node \notin b.keys /\ TakenBefore(r, u, own)}
           Fuller(r) == IF r \in taken THEN Merged(r, RowOf(u.rows, r.node), time) ELSE r
           Renamed(r) == IF r.node = own /\ Clashes(r, u)
                         THEN [Fuller(r) EXCEPT !.label = FreshName(b.rows \cup u.rows)]
                         ELSE Fuller(r)
           new == {m \in u.rows : m.node \notin Nodes(b.rows) \cup keys}
           New(m) == [m EXCEPT !.ids = InForce(@, time)]
           capped == UNION {Capped(r, RowOf(u.rows, r.node), time) : r \in taken}
           rows == {Renamed(r) : r \in b.rows} \cup {New(m) : m \in new}
           t == [told EXCEPT !.number = Later(@, u.number), !.keys = keys, !.ids = @ \cup capped, !.rows = rows]
           f == FollowKeys(t, time)
<1>1. BringForward(b, u, own, time) = f
    BY DEF BringForward
<1>2. /\ b \in Records /\ b.rows \in SUBSET Row /\ b.marked \in SUBSET Row /\ b.ids \in SUBSET Standing
      /\ b.keys \in SUBSET Key /\ b.number \in Nat /\ OneEach(b.rows) /\ \A r \in b.rows : IsFiniteSet(r.ids)
    BY DEF Records, IsBook, Sorted
<1>3. /\ u.rows \in SUBSET Row /\ u.ids \in SUBSET Standing /\ u.keys \in SUBSET Key /\ u.number \in Nat
      /\ OneEach(u.rows) /\ \A r \in u.rows : IsFiniteSet(r.ids) /\ Cardinality(r.ids) <= MaxIds
    BY DEF Update, Sorted, WellFormed
<1>4. told \in Records /\ told.number = b.number /\ told.rows = b.rows /\ told.marked = b.marked
      /\ told.keys = b.keys \cup u.keys
    <2>1. b.ids \cup InForce(u.ids, time) \in SUBSET Standing /\ b.keys \cup u.keys \in SUBSET Key
        BY <1>2, <1>3 DEF InForce
    <2> QED BY <1>2, <2>1 DEF BringRevocations, Records
<1>5. ASSUME NEW r \in b.rows
      PROVE  /\ Fuller(r) \in Row /\ Fuller(r).node = r.node /\ Fuller(r).label = r.label
             /\ IsFiniteSet(Fuller(r).ids)
             /\ Cardinality(Fuller(r).ids) <= MaxIds \/ Fuller(r).ids = r.ids
    <2>1. CASE r \in taken
        <3>1. r.node \in Nodes(u.rows)
            BY <2>1 DEF TakenBefore
        <3>2. RowOf(u.rows, r.node) \in u.rows
            BY <3>1, RowOfIn
        <3> QED BY <1>2, <1>3, <2>1, <3>2, MergedRow
    <2>2. CASE r \notin taken
        BY <1>2, <2>2
    <2> QED BY <2>1, <2>2
<1> DEFINE fresh == FreshName(b.rows \cup u.rows)
<1>6. fresh \in Name /\ fresh \notin Labels(b.rows) /\ fresh \notin Labels(u.rows)
    BY <1>2, <1>3, FreshNamed
<1>7. ASSUME NEW r \in b.rows
      PROVE  /\ Renamed(r) \in Row /\ Renamed(r).node = r.node
             /\ Renamed(r).label = IF r.node = own /\ Clashes(r, u) THEN fresh ELSE r.label
             /\ IsFiniteSet(Renamed(r).ids)
             /\ Cardinality(Renamed(r).ids) <= MaxIds \/ Renamed(r).ids = r.ids
    <2> HIDE DEF Fuller, fresh
    <2> QED BY <1>5, <1>6 DEF Row, fresh
<1>8. ASSUME NEW m \in new
      PROVE  /\ New(m) \in Row /\ New(m).node = m.node /\ New(m).label = m.label
             /\ IsFiniteSet(New(m).ids) /\ Cardinality(New(m).ids) <= MaxIds
    <2>1. m \in Row /\ m.ids \in SUBSET Standing /\ IsFiniteSet(m.ids) /\ Cardinality(m.ids) <= MaxIds
        BY <1>3 DEF Row
    <2>2. /\ InForce(m.ids, time) \in SUBSET Standing /\ IsFiniteSet(InForce(m.ids, time))
          /\ Cardinality(InForce(m.ids, time)) <= MaxIds
        <3>1. Cardinality(InForce(m.ids, time)) <= Cardinality(m.ids) /\ IsFiniteSet(InForce(m.ids, time))
            BY <2>1, InForceSome
        <3> QED BY <2>1, <3>1, FS_CardinalityType, BookAssumption DEF InForce
    <2> QED BY <2>1, <2>2 DEF Row
<1>9. keys \in SUBSET Key /\ Revoked(b, u, own) \subseteq Nodes(b.rows) \ {own}
    BY <1>2, <1>3, <1>4 DEF Revoked, Nodes, Row
<1>10. rows \in SUBSET Row
    <2> HIDE DEF Renamed, New, new
    <2> QED BY <1>7, <1>8
<1>11. t \in Records /\ t.number = Later(b.number, u.number) /\ t.rows = rows /\ t.marked = b.marked /\ t.keys = keys
    <2>1. capped \in SUBSET Standing
        <3>1. \A r \in taken : RowOf(u.rows, r.node) \in Row
            BY <1>3, RowOfIn DEF TakenBefore
        <3>2. \A r \in taken : Capped(r, RowOf(u.rows, r.node), time) \in SUBSET Standing
            BY <1>2, <3>1 DEF Capped, InForce, Row
        <3> HIDE DEF taken
        <3> QED BY <3>2
    <2>2. Later(b.number, u.number) \in Nat
        BY <1>2, <1>3 DEF Later
    <2>3. told.ids \cup capped \in SUBSET Standing
        BY <1>4, <2>1 DEF Records
    <2> HIDE DEF told, keys, capped, rows
    <2> QED BY <1>4, <1>9, <1>10, <2>2, <2>3 DEF Records
<1>12. /\ f \in Records /\ Parted(f) /\ f.number = t.number /\ f.keys = keys
       /\ f.rows = {r \in rows : r.node \notin keys}
       /\ Nodes(f.marked) \subseteq Nodes(b.marked) \cup Nodes(rows)
    <2> HIDE DEF t, rows, keys
    <2> QED BY <1>11, FollowKeysParts
<1>13. ASSUME NEW x \in f.rows
       PROVE  /\ x.node \notin keys
              /\ \/ \E r \in b.rows : x = Renamed(r) /\ r.node = x.node
                 \/ \E m \in new : x = New(m) /\ m.node = x.node
    <2> HIDE DEF Renamed, New, new, keys, f
    <2> QED BY <1>7, <1>8, <1>12
<1>14. ASSUME NEW x \in f.rows, NEW y \in f.rows, x.node = y.node \/ x.label = y.label
       PROVE  x = y
    <2> HIDE DEF f, keys, Renamed, New, t
    <2>1. ASSUME NEW r \in b.rows, x = Renamed(r), r.node = x.node, NEW q \in b.rows, y = Renamed(q), q.node = y.node
          PROVE  r = q
        <3>1. CASE r.node = q.node
            BY <1>2, <3>1 DEF OneEach
        <3>2. CASE r.node # q.node
            <4>1. x.label = y.label
                BY <1>14, <2>1, <3>2
            <4>2. x.label = r.label \/ (x.label = fresh /\ r.node = own)
                BY <1>7, <2>1
            <4>3. y.label = q.label \/ (y.label = fresh /\ q.node = own)
                BY <1>7, <2>1
            <4>4. fresh # r.label /\ fresh # q.label
                BY <1>6 DEF Labels
            <4>5. r.label # q.label
                BY <1>2, <3>2 DEF OneEach
            <4> QED BY <3>2, <4>1, <4>2, <4>3, <4>4, <4>5
        <3> QED BY <3>1, <3>2
    <2>2. ASSUME NEW r \in b.rows, NEW z \in f.rows, z = Renamed(r), r.node = z.node, NEW m \in new,
                 z.node = New(m).node \/ z.label = New(m).label
          PROVE  FALSE
        <3>1. m \in u.rows /\ m.node \notin Nodes(b.rows) /\ r.node # m.node
            BY DEF Nodes
        <3>2. z.label = m.label
            BY <1>8, <2>2, <3>1
        <3>3. ~ (r.node = own /\ Clashes(r, u))
            BY <1>6, <1>7, <2>2, <3>1, <3>2 DEF Labels
        <3>4. r.label = m.label
            BY <1>7, <2>2, <3>2, <3>3
        <3>5. Clashes(r, u)
            BY <3>1, <3>4 DEF Clashes
        <3>6. r.node \in Revoked(b, u, own)
            BY <3>3, <3>5 DEF Revoked
        <3> QED BY <1>13, <2>2, <3>6 DEF keys
    <2>3. ASSUME NEW m \in new, x = New(m), NEW k \in new, y = New(k) PROVE m = k
        BY <1>3, <1>8, <1>14, <2>3 DEF OneEach
    <2> QED BY <1>13, <1>14, <2>1, <2>2, <2>3
<1>15. Sorted(f.rows) /\ Within(f.rows, b.rows)
    <2> HIDE DEF f, Renamed, New, new
    <2>1. OneEach(f.rows)
        BY <1>14 DEF OneEach
    <2> QED BY <2>1, <1>7, <1>8, <1>13 DEF Sorted, Within
<1>16. Nodes(rows) \subseteq Nodes(b.rows) \cup Nodes(u.rows)
    <2>1. \A m \in new : m \in u.rows
        OBVIOUS
    <2> HIDE DEF Renamed, New, new
    <2> QED BY <1>7, <1>8, <2>1 DEF Nodes
<1>17. Nodes(f.rows) \subseteq Nodes(rows)
    <2> HIDE DEF f, rows
    <2> QED BY <1>12 DEF Nodes
<1>18. Nodes(b.rows) \cup Nodes(u.rows) \subseteq Nodes(f.rows) \cup f.keys
    <2>1. \A r \in b.rows : r.node \in Nodes(f.rows) \cup f.keys
        <3> HIDE DEF Renamed, New, keys, f
        <3> QED BY <1>7, <1>12 DEF Nodes
    <2>2. \A m \in new : m.node \in Nodes(f.rows) \cup f.keys
        <3> HIDE DEF Renamed, New, keys, f, new
        <3> QED BY <1>8, <1>12 DEF Nodes
    <2>3. \A m \in u.rows : m.node \in Nodes(b.rows) \cup keys \/ m \in new
        OBVIOUS
    <2> HIDE DEF f, new, keys, rows, t
    <2>4. Nodes(b.rows) \subseteq Nodes(f.rows) \cup f.keys
        BY <2>1 DEF Nodes
    <2>5. \A m \in u.rows : m.node \in Nodes(f.rows) \cup f.keys
        BY <1>12, <2>2, <2>3, <2>4
    <2> QED BY <2>4, <2>5 DEF Nodes
<1> HIDE DEF f, rows, keys
<1>19. b.keys \cup u.keys \subseteq keys /\ keys \subseteq b.keys \cup u.keys \cup (Nodes(b.rows) \ {own})
    BY <1>4, <1>9 DEF keys
<1> QED BY <1>1, <1>11, <1>12, <1>15, <1>16, <1>17, <1>18, <1>19 DEF BroughtFrom, IsBook

-----------------------------------------------------------------------------
(* Taking a list in, and Book::forward. *)

KeysIn(u)  == IF u = None THEN {} ELSE u.keys
NodesIn(u) == IF u = None THEN {} ELSE Nodes(u.rows)

\* What taking the list u into the records b comes to: below floor, no row of u is taken.
TakenFrom(f, b, u, floor, own) ==
    /\ IsBook(f) /\ Within(f.rows, b.rows)
    /\ f.number >= b.number /\ f.number \in {b.number, Number(u)}
    /\ b.keys \cup KeysIn(u) \subseteq f.keys
    /\ f.keys \subseteq b.keys \cup KeysIn(u) \cup (Nodes(b.rows) \ {own})
    /\ Nodes(f.rows) \subseteq Nodes(b.rows) \cup NodesIn(u)
    /\ Nodes(f.marked) \subseteq Nodes(b.marked) \cup Nodes(b.rows) \cup NodesIn(u)
    /\ Nodes(b.rows) \subseteq Nodes(f.rows) \cup f.keys
    /\ u # None /\ u.number >= floor => f.number >= u.number /\ Nodes(u.rows) \subseteq Nodes(f.rows) \cup f.keys

LEMMA TakeParts ==
    ASSUME NEW b, IsBook(b), NEW u, IsList(u), NEW floor \in Nat, NEW own \in Key, NEW time \in Nat
    PROVE  TakenFrom(Take(b, u, floor, own, time), b, u, floor, own)
<1>1. b \in Records /\ b.number \in Nat /\ Within(b.rows, b.rows)
    BY DEF IsBook, Records, Within
<1>2. CASE u = None
    <2>1. Take(b, u, floor, own, time) = b
        BY <1>2 DEF Take
    <2>2. KeysIn(u) = {} /\ NodesIn(u) = {}
        BY <1>2 DEF KeysIn, NodesIn
    <2> QED BY <1>1, <1>2, <2>1, <2>2 DEF TakenFrom
<1>3. CASE u # None /\ u.number < floor
    <2>1. u \in Update /\ u.ids \in SUBSET Standing /\ u.keys \in SUBSET Key /\ u.number \in Nat
        BY <1>3 DEF IsList, Update
    <2> DEFINE f == BringRevocations(b, u, time)
    <2>2. Take(b, u, floor, own, time) = f
        BY <1>3 DEF Take
    <2>3. /\ f \in Records /\ f.number = b.number /\ f.rows = b.rows /\ f.marked = b.marked
          /\ f.keys = b.keys \cup u.keys
        <3>1. b.ids \cup InForce(u.ids, time) \in SUBSET Standing /\ b.keys \cup u.keys \in SUBSET Key
            BY <1>1, <2>1 DEF InForce, Records
        <3> QED BY <1>1, <3>1 DEF BringRevocations, Records
    <2>4. ~ (u.number >= floor)
        BY <1>3, <2>1
    <2> HIDE DEF f
    <2>5. IsBook(f) /\ Within(f.rows, b.rows) /\ f.number >= b.number /\ f.number \in {b.number, Number(u)}
        BY <1>1, <2>3 DEF IsBook
    <2> QED BY <1>3, <2>2, <2>3, <2>4, <2>5 DEF TakenFrom, KeysIn, NodesIn
<1>4. CASE u # None /\ ~ u.number < floor
    <2>1. u \in Update /\ WellFormed(u) /\ Sorted(u.rows) /\ u.number \in Nat
        BY <1>4 DEF IsList, Update
    <2> DEFINE f == BringForward(b, u, own, time)
    <2>2. Take(b, u, floor, own, time) = f
        BY <1>4 DEF Take
    <2>3. BroughtFrom(f, b, u, own)
        BY <2>1, BringForwardParts
    <2> HIDE DEF f
    <2>4. f.number >= b.number /\ f.number >= u.number /\ f.number \in {b.number, Number(u)}
        BY <1>1, <1>4, <2>1, <2>3 DEF BroughtFrom, Later, Number
    <2> QED BY <1>4, <2>2, <2>3, <2>4 DEF TakenFrom, BroughtFrom, KeysIn, NodesIn
<1> QED BY <1>2, <1>3, <1>4

\* What bringing the records b forward from the lists held and fork and the refusals here comes to.
ForwardedFrom(f, b, held, fork, refused, own) ==
    /\ IsBook(f) /\ Parted(f) /\ Within(f.rows, b.rows)
    /\ f.number >= b.number /\ f.number >= Number(held) /\ f.number \in {b.number, Number(held), Number(fork)}
    /\ b.keys \subseteq f.keys
    /\ f.keys \subseteq b.keys \cup KeysIn(held) \cup KeysIn(fork)
                           \cup ((Nodes(b.rows) \cup NodesIn(held) \cup NodesIn(fork))
                                   \cap (refused \cup (Key \ {own})))
    /\ Nodes(f.rows) \subseteq Nodes(b.rows) \cup NodesIn(held) \cup NodesIn(fork)
    /\ Nodes(f.marked) \subseteq Nodes(b.marked) \cup Nodes(b.rows) \cup NodesIn(held) \cup NodesIn(fork)
    /\ Nodes(b.rows) \subseteq Nodes(f.rows) \cup f.keys
    /\ Number(held) > b.number => NodesIn(held) \subseteq Nodes(f.rows) \cup f.keys

LEMMA MarkListedParts ==
    ASSUME NEW b, b \in Records, NEW u, IsList(u)
    PROVE  LET f == MarkListed(b, u)
           IN  /\ f \in Records /\ f.number = b.number /\ f.rows = b.rows /\ f.keys = b.keys
               /\ Nodes(f.marked) \subseteq Nodes(b.marked) \cup NodesIn(u)
<1>1. CASE u = None
    BY <1>1 DEF MarkListed, NodesIn
<1>2. CASE u # None
    <2>1. b.marked \cup {m \in u.rows : m.node \in b.keys \ Nodes(b.marked)} \in SUBSET Row
        BY <1>2 DEF IsList, Update, Records
    <2> QED BY <1>2, <2>1 DEF MarkListed, Records, Nodes, NodesIn
<1> QED BY <1>1, <1>2

LEMMA CarryForwardParts ==
    ASSUME NEW b, b \in Records, NEW held, IsList(held), NEW refused
    PROVE  LET f == CarryForward(b, held, refused)
           IN  /\ f \in Records /\ f.number = b.number /\ f.rows = b.rows /\ f.marked = b.marked
               /\ f.keys = b.keys \cup (Nodes(b.rows) \cap refused)
<1> DEFINE listed == IF held = None THEN {} ELSE held.ids \cup UNION {m.ids : m \in held.rows}
           known == listed \cup UNION {r.ids : r \in b.rows}
<1>1. /\ b.rows \in SUBSET Row /\ b.ids \in SUBSET Standing /\ b.keys \in SUBSET Key
    BY DEF Records
<1>2. UNION {r.ids : r \in b.rows} \in SUBSET Standing
    BY <1>1 DEF Row
<1>3. listed \in SUBSET Standing
    BY DEF IsList, Update, Row
<1>4. b.ids \cup (known \cap refused) \in SUBSET Standing
    BY <1>1, <1>2, <1>3
<1>5. b.keys \cup (Nodes(b.rows) \cap refused) \in SUBSET Key
    BY <1>1 DEF Nodes, Row
<1> HIDE DEF known
<1>6. CarryForward(b, held, refused) = [b EXCEPT !.ids = @ \cup (known \cap refused),
                                                 !.keys = @ \cup (Nodes(b.rows) \cap refused)]
    BY DEF CarryForward, known
<1> QED BY <1>4, <1>5, <1>6 DEF Records

LEMMA WithinTwice ==
    ASSUME NEW r1, NEW r2, NEW r3, Within(r2, r1), Within(r3, r2)
    PROVE  Within(r3, r1)
BY DEF Within

\* Book::forward: the records stay whole, revoke every key of the lists they are behind, and list a key no more only
\* when they revoke it.
LEMMA ForwardParts ==
    ASSUME NEW b, IsBook(b), NEW held, IsList(held), NEW fork, IsList(fork), NEW refused,
           NEW own \in Key, NEW time \in Nat
    PROVE  ForwardedFrom(Forward(b, held, fork, refused, own, time), b, held, fork, refused, own)
<1> DEFINE floor == Later(Number(held), b.number)
           first == Take(b, held, b.number, own, time)
           second == Take(first, fork, floor, own, time)
           brought == IF Behind(b, held, fork) THEN second ELSE b
           carried == CarryForward(brought, held, refused)
           followed == FollowKeys(carried, time)
           one == MarkListed(followed, held)
           two == MarkListed(one, fork)
           Revocable == (Nodes(b.rows) \cup NodesIn(held) \cup NodesIn(fork)) \cap (refused \cup (Key \ {own}))
           Named == Nodes(b.rows) \cup NodesIn(held) \cup NodesIn(fork)
<1>1. Forward(b, held, fork, refused, own, time) = two
    BY DEF Forward
<1>2. b \in Records /\ b.number \in Nat /\ b.rows \in SUBSET Row /\ Number(held) \in Nat /\ floor \in Nat
    BY DEF IsBook, Records, IsList, Update, Number, Later
<1>3. TakenFrom(first, b, held, b.number, own)
    BY <1>2, TakeParts
<1>4. TakenFrom(second, first, fork, floor, own)
    <2> HIDE DEF first, floor
    <2>1. IsBook(first)
        BY <1>3 DEF TakenFrom
    <2> QED BY <1>2, <2>1, TakeParts
<1> HIDE DEF first, second, floor
<1>5. Nodes(b.rows) \in SUBSET Key /\ NodesIn(held) \in SUBSET Key /\ NodesIn(fork) \in SUBSET Key
    BY <1>2 DEF Nodes, NodesIn, IsList, Update, Row
<1>6. /\ IsBook(brought) /\ Within(brought.rows, b.rows)
      /\ brought.number >= b.number /\ brought.number >= Number(held)
      /\ brought.number \in {b.number, Number(held), Number(fork)}
      /\ b.keys \subseteq brought.keys
      /\ brought.keys \subseteq b.keys \cup KeysIn(held) \cup KeysIn(fork) \cup Revocable
      /\ Nodes(brought.rows) \subseteq Named
      /\ Nodes(brought.marked) \subseteq Nodes(b.marked) \cup Named
      /\ Nodes(b.rows) \subseteq Nodes(brought.rows) \cup brought.keys
      /\ Number(held) > b.number => NodesIn(held) \subseteq Nodes(brought.rows) \cup brought.keys
    <2>1. CASE Behind(b, held, fork)
        <3>1. brought = second
            BY <2>1
        <3>2. first.number \in Nat /\ second.number \in Nat
            BY <1>3, <1>4 DEF TakenFrom, IsBook, Records
        <3>3. Number(held) >= b.number => first.number >= Number(held)
            BY <1>2, <1>3, <3>2 DEF TakenFrom, Number
        <3>4. Number(held) > b.number => NodesIn(held) \subseteq Nodes(first.rows) \cup first.keys
            BY <1>2, <1>3 DEF TakenFrom, Number, NodesIn
        <3>5. Nodes(first.rows) \subseteq Nodes(second.rows) \cup second.keys /\ first.keys \subseteq second.keys
            BY <1>4 DEF TakenFrom
        <3>6. /\ second.number >= b.number /\ second.number >= Number(held)
              /\ second.number \in {b.number, Number(held), Number(fork)}
            BY <1>2, <1>3, <1>4, <3>2, <3>3 DEF TakenFrom
        <3>7. IsBook(second) /\ Within(second.rows, b.rows)
            BY <1>3, <1>4, WithinTwice DEF TakenFrom
        <3>8. b.keys \subseteq second.keys /\ Nodes(b.rows) \subseteq Nodes(second.rows) \cup second.keys
            BY <1>3, <1>4 DEF TakenFrom
        <3>9. /\ Nodes(second.rows) \subseteq Named
              /\ Nodes(second.marked) \subseteq Nodes(b.marked) \cup Named
            BY <1>3, <1>4 DEF TakenFrom
        <3>10. second.keys \subseteq b.keys \cup KeysIn(held) \cup KeysIn(fork) \cup Revocable
            <4>1. first.keys \subseteq b.keys \cup KeysIn(held) \cup (Nodes(b.rows) \ {own})
                BY <1>3 DEF TakenFrom
            <4>2. second.keys \subseteq first.keys \cup KeysIn(fork) \cup (Nodes(first.rows) \ {own})
                BY <1>4 DEF TakenFrom
            <4>3. Nodes(first.rows) \subseteq Nodes(b.rows) \cup NodesIn(held)
                BY <1>3 DEF TakenFrom
            <4>4. (Nodes(b.rows) \cup NodesIn(held)) \ {own} \subseteq Revocable
                BY <1>5
            <4> QED BY <4>1, <4>2, <4>3, <4>4
        <3> HIDE DEF Revocable, Named, brought
        <3> QED BY <3>1, <3>4, <3>5, <3>6, <3>7, <3>8, <3>9, <3>10
    <2>2. CASE ~ Behind(b, held, fork)
        <3>1. brought = b /\ ~ (Number(held) > b.number)
            BY <2>2 DEF Behind
        <3>2. Within(b.rows, b.rows)
            BY DEF Within
        <3> HIDE DEF brought
        <3> QED BY <1>2, <3>1, <3>2
    <2> QED BY <2>1, <2>2
<1> HIDE DEF brought
<1>7. /\ carried \in Records /\ carried.number = brought.number /\ carried.rows = brought.rows
      /\ carried.marked = brought.marked /\ carried.keys = brought.keys \cup (Nodes(brought.rows) \cap refused)
    BY <1>6, CarryForwardParts DEF IsBook
<1> HIDE DEF carried
<1>8. /\ followed \in Records /\ Parted(followed)
      /\ followed.number = carried.number /\ followed.keys = carried.keys
      /\ followed.rows = {r \in carried.rows : r.node \notin carried.keys}
      /\ Nodes(followed.marked) \subseteq Nodes(carried.marked) \cup Nodes(carried.rows)
    BY <1>7, FollowKeysParts
<1> HIDE DEF followed
<1>9. /\ one \in Records /\ one.number = followed.number /\ one.rows = followed.rows /\ one.keys = followed.keys
      /\ Nodes(one.marked) \subseteq Nodes(followed.marked) \cup NodesIn(held)
    BY <1>8, MarkListedParts
<1> HIDE DEF one
<1>10. /\ two \in Records /\ two.number = one.number /\ two.rows = one.rows /\ two.keys = one.keys
       /\ Nodes(two.marked) \subseteq Nodes(one.marked) \cup NodesIn(fork)
    BY <1>9, MarkListedParts
<1> HIDE DEF two
<1>11. /\ two.number = brought.number
       /\ two.keys = brought.keys \cup (Nodes(brought.rows) \cap refused)
       /\ two.rows = {r \in brought.rows : r.node \notin two.keys}
       /\ Parted(two)
    BY <1>7, <1>8, <1>9, <1>10 DEF Parted
<1>12. IsBook(two) /\ Within(two.rows, b.rows)
    BY <1>6, <1>10, <1>11 DEF IsBook, Sorted, OneEach, Within
<1>13. Nodes(two.rows) \subseteq Nodes(brought.rows) /\ Nodes(brought.rows) \subseteq Nodes(two.rows) \cup two.keys
    BY <1>11 DEF Nodes
<1>14. two.keys \subseteq b.keys \cup KeysIn(held) \cup KeysIn(fork) \cup Revocable
    BY <1>6, <1>11
<1>15. Nodes(two.marked) \subseteq Nodes(b.marked) \cup Named
    BY <1>6, <1>7, <1>8, <1>9, <1>10
<1>16. /\ two.number >= b.number /\ two.number >= Number(held) /\ b.keys \subseteq two.keys
       /\ two.number \in {b.number, Number(held), Number(fork)}
       /\ Nodes(two.rows) \subseteq Named
       /\ Nodes(b.rows) \subseteq Nodes(two.rows) \cup two.keys
       /\ Number(held) > b.number => NodesIn(held) \subseteq Nodes(two.rows) \cup two.keys
    BY <1>6, <1>11, <1>13
<1> QED BY <1>1, <1>11, <1>12, <1>14, <1>15, <1>16 DEF ForwardedFrom

-----------------------------------------------------------------------------
(* What an act makes of the records. *)

LEMMA FollowedBook ==
    ASSUME NEW b, IsBook(b), NEW time \in Nat
    PROVE  LET f == FollowKeys(b, time) IN IsBook(f) /\ Within(f.rows, b.rows)
<1>1. LET f == FollowKeys(b, time) IN f \in Records /\ f.rows \subseteq b.rows
    BY FollowKeysParts DEF IsBook
<1> QED BY <1>1 DEF IsBook, Sorted, OneEach, Within

\* Book::update: a cut lists the keys and the names the records list, and revokes the keys they revoke.
LEMMA CutParts ==
    ASSUME NEW b, IsBook(b), NEW number \in Nat, NEW time \in Nat
    PROVE  LET c == Cut(b, number, time)
           IN  /\ c \in Update /\ Sorted(c.rows)
               /\ c.number = number /\ c.keys = b.keys
               /\ Nodes(c.rows) = Nodes(b.rows) /\ Labels(c.rows) = Labels(b.rows)
<1> DEFINE Pruned(r) == [r EXCEPT !.ids = InForce(@, time)]
           rows == {Pruned(r) : r \in b.rows}
           c == Cut(b, number, time)
<1>1. /\ b.rows \in SUBSET Row /\ b.ids \in SUBSET Standing /\ b.keys \in SUBSET Key
      /\ OneEach(b.rows) /\ \A r \in b.rows : IsFiniteSet(r.ids)
    BY DEF IsBook, Records, Sorted
<1>2. ASSUME NEW r \in b.rows
      PROVE  Pruned(r) \in Row /\ Pruned(r).node = r.node /\ Pruned(r).label = r.label /\ IsFiniteSet(Pruned(r).ids)
    <2>1. r \in Row /\ r.ids \in SUBSET Standing
        BY <1>1 DEF Row
    <2>2. InForce(r.ids, time) \in SUBSET Standing /\ IsFiniteSet(InForce(r.ids, time))
        BY <1>1, <2>1, InForceSome
    <2> QED BY <2>1, <2>2 DEF Row
<1>3. c = [number |-> number, rows |-> rows, ids |-> InForce(b.ids, time), keys |-> b.keys]
    BY DEF Cut
<1> HIDE DEF Pruned
<1>4. rows \in SUBSET Row /\ Nodes(rows) = Nodes(b.rows) /\ Labels(rows) = Labels(b.rows)
    BY <1>2 DEF Nodes, Labels
<1>5. Sorted(rows)
    BY <1>1, <1>2 DEF Sorted, OneEach
<1>6. InForce(b.ids, time) \in SUBSET Standing
    BY <1>1 DEF InForce
<1> HIDE DEF rows, c
<1> QED BY <1>1, <1>3, <1>4, <1>5, <1>6 DEF Update, c

\* Book::of
LEMMA BookOfParts ==
    ASSUME NEW u, IsList(u)
    PROVE  /\ IsBook(BookOf(u)) /\ Parted(BookOf(u)) /\ \A r \in BookOf(u).rows : Cardinality(r.ids) <= MaxIds
           /\ BookOf(u).number = Number(u) /\ BookOf(u).keys = KeysIn(u)
           /\ Nodes(BookOf(u).rows) = NodesIn(u) /\ BookOf(u).marked = {}
<1>1. CASE u = None
    BY <1>1 DEF BookOf, IsBook, Parted, Records, Sorted, OneEach, Number, KeysIn, NodesIn, Nodes
<1>2. CASE u # None
    BY <1>2 DEF IsList, WellFormed, Update, BookOf, IsBook, Parted, Records, Number, KeysIn, NodesIn
<1> QED BY <1>1, <1>2
-----------------------------------------------------------------------------
(* What becomes of the ids. *)

\* As many of ids are in force as an update lists.
Full(ids, time) == Cardinality(InForce(ids, time)) >= MaxIds

\* The standings that records or an update speak of.
Ids(b) == b.ids \cup UNION {r.ids \cup {r.standing} : r \in b.rows}
IdsIn(u) == IF u = None THEN {} ELSE Ids(u)

\* The row x keeps what is in force of the row r, or is full.
KeepsRow(x, r, own, time) ==
    /\ x.node = r.node /\ (x.label = r.label \/ r.node = own)
    /\ Full(r.ids, time) => Full(x.ids, time)
    /\ \A i \in InForce(r.ids, time) : i \in x.ids \/ Full(x.ids, time)

\* The records f keep the rows of b but those of keys they revoke, have no id that is not b's or one of more, and
\* revoke an id of a row of b only if they revoke its key or its row is full.  What they marked, b or more spoke of.
KeptFrom(f, b, more, own, time) ==
    /\ b.keys \subseteq f.keys
    /\ \A r \in b.rows : r.node \in f.keys \/ \E x \in f.rows : KeepsRow(x, r, own, time)
    /\ \A x \in f.rows : \A i \in x.ids : i \in more \/ \E r \in b.rows : r.node = x.node /\ i \in r.ids
    /\ \A x \in f.rows : x.standing \in more \/ \E r \in b.rows : x.standing = r.standing
    /\ \A x \in f.marked : \A i \in x.ids : i \in more \/ \E r \in b.rows \cup b.marked : i \in r.ids
    /\ \A i \in f.ids :
          \/ i \in b.ids \cup more
          \/ \E r \in b.rows : /\ i \in r.ids
                               /\ r.node \in f.keys \/ \E x \in f.rows : x.node = r.node /\ Full(x.ids, time)

LEMMA KeptSame ==
    ASSUME NEW b, NEW f, f.rows = b.rows, NEW more, f.ids \subseteq b.ids \cup more, b.keys \subseteq f.keys,
           NEW own, NEW time, \A x \in f.marked \ b.marked : x.ids \subseteq more
    PROVE  KeptFrom(f, b, more, own, time)
BY DEF KeptFrom, KeepsRow, InForce

LEMMA KeptTwice ==
    ASSUME NEW b, NEW f, NEW g, NEW more, NEW others, NEW own, NEW time,
           KeptFrom(f, b, more, own, time), KeptFrom(g, f, others, own, time)
    PROVE  KeptFrom(g, b, more \cup others, own, time)
<1>1. b.keys \subseteq f.keys /\ f.keys \subseteq g.keys
    BY DEF KeptFrom
<1>2. ASSUME NEW r \in b.rows PROVE r.node \in g.keys \/ \E y \in g.rows : KeepsRow(y, r, own, time)
    <2>1. CASE r.node \in f.keys
        BY <1>1, <2>1
    <2>2. CASE r.node \notin f.keys
        <3>1. PICK x \in f.rows : KeepsRow(x, r, own, time)
            BY <2>2 DEF KeptFrom
        <3>2. CASE r.node \in g.keys
            BY <3>2
        <3>3. CASE r.node \notin g.keys
            <4>1. PICK y \in g.rows : KeepsRow(y, x, own, time)
                BY <3>1, <3>3 DEF KeptFrom, KeepsRow
            <4>2. KeepsRow(y, r, own, time)
                <5>1. ASSUME NEW i \in InForce(r.ids, time) PROVE i \in y.ids \/ Full(y.ids, time)
                    <6>1. i \in x.ids \/ Full(x.ids, time)
                        BY <3>1 DEF KeepsRow
                    <6>2. i \in x.ids => i \in InForce(x.ids, time)
                        BY DEF InForce
                    <6> QED BY <4>1, <6>1, <6>2 DEF KeepsRow
                <5> QED BY <3>1, <4>1, <5>1 DEF KeepsRow
            <4> QED BY <4>2
        <3> QED BY <3>2, <3>3
    <2> QED BY <2>1, <2>2
<1>3. ASSUME NEW y \in g.rows, NEW i \in y.ids
      PROVE  i \in more \cup others \/ \E r \in b.rows : r.node = y.node /\ i \in r.ids
    BY DEF KeptFrom
<1>4. ASSUME NEW y \in g.rows PROVE y.standing \in more \cup others \/ \E r \in b.rows : y.standing = r.standing
    BY DEF KeptFrom
<1>5. ASSUME NEW i \in g.ids
      PROVE  \/ i \in b.ids \cup (more \cup others)
             \/ \E r \in b.rows : /\ i \in r.ids
                                  /\ r.node \in g.keys \/ \E y \in g.rows : y.node = r.node /\ Full(y.ids, time)
    <2>1. CASE i \in others
        BY <2>1
    <2>2. CASE i \in f.ids
        <3>1. CASE i \in b.ids \cup more
            BY <3>1
        <3>2. CASE i \notin b.ids \cup more
            <4>1. PICK r \in b.rows : /\ i \in r.ids
                                      /\ r.node \in f.keys \/ \E x \in f.rows : x.node = r.node /\ Full(x.ids, time)
                BY <2>2, <3>2 DEF KeptFrom
            <4>2. CASE r.node \in f.keys
                BY <1>1, <4>1, <4>2
            <4>3. ASSUME NEW x \in f.rows, x.node = r.node, Full(x.ids, time)
                  PROVE  r.node \in g.keys \/ \E y \in g.rows : y.node = r.node /\ Full(y.ids, time)
                BY <4>3 DEF KeptFrom, KeepsRow
            <4> QED BY <4>1, <4>2, <4>3
        <3> QED BY <3>1, <3>2
    <2>3. CASE i \notin f.ids \cup others
        <3>1. PICK x \in f.rows : /\ i \in x.ids
                                  /\ x.node \in g.keys \/ \E y \in g.rows : y.node = x.node /\ Full(y.ids, time)
            BY <2>3 DEF KeptFrom
        <3>2. i \in more \/ \E r \in b.rows : r.node = x.node /\ i \in r.ids
            BY <3>1 DEF KeptFrom
        <3> QED BY <3>1, <3>2
    <2> QED BY <2>1, <2>2, <2>3
<1>6. ASSUME NEW y \in g.marked, NEW i \in y.ids
      PROVE  i \in more \cup others \/ \E r \in b.rows \cup b.marked : i \in r.ids
    <2>1. i \in others \/ \E x \in f.rows \cup f.marked : i \in x.ids
        BY <1>6 DEF KeptFrom
    <2> QED BY <2>1 DEF KeptFrom
<1> QED BY <1>1, <1>2, <1>3, <1>4, <1>5, <1>6 DEF KeptFrom

\* follow_keys, of anything with the fields of the records.
Fields == {"number", "rows", "marked", "ids", "keys"}

LEMMA FollowKeysFields ==
    ASSUME NEW b, DOMAIN b = Fields, NEW time
    PROVE  LET f == FollowKeys(b, time)
               gone == {r \in b.rows : r.node \in b.keys}
           IN  /\ f.keys = b.keys /\ f.rows = b.rows \ gone /\ f.marked \subseteq b.marked \cup gone
               /\ f.ids = b.ids \cup UNION {InForce(r.ids, time) : r \in gone}
BY DEF FollowKeys, Fields

\* follow_keys revokes the ids of the rows whose key is revoked, and no other.
LEMMA FollowKeysKeeps ==
    ASSUME NEW b \in Records, NEW own, NEW time \in Nat
    PROVE  KeptFrom(FollowKeys(b, time), b, {}, own, time)
<1> DEFINE f == FollowKeys(b, time)
           gone == {r \in b.rows : r.node \in b.keys}
<1>1. f.keys = b.keys /\ f.rows = {r \in b.rows : r.node \notin b.keys}
    BY FollowKeysParts
<1>2. f.ids = b.ids \cup UNION {InForce(r.ids, time) : r \in gone} /\ f.marked \subseteq b.marked \cup gone
    BY DEF FollowKeys, Records
<1> HIDE DEF f
<1>3. ASSUME NEW i \in f.ids PROVE i \in b.ids \/ \E r \in b.rows : i \in r.ids /\ r.node \in f.keys
    BY <1>1, <1>2 DEF InForce
<1>4. \A r \in b.rows : KeepsRow(r, r, own, time)
    BY DEF KeepsRow, InForce
<1>5. KeptFrom(f, b, {}, own, time)
    <2>1. \A x \in f.marked : x \in b.rows \cup b.marked
        BY <1>2
    <2> QED BY <1>1, <1>3, <1>4, <2>1 DEF KeptFrom
<1> QED BY <1>5 DEF f

\* mark_listed changes no id.
LEMMA MarkListedKeeps ==
    ASSUME NEW b \in Records, NEW u, IsList(u), NEW own, NEW time
    PROVE  KeptFrom(MarkListed(b, u), b, IdsIn(u), own, time)
<1> DEFINE f == MarkListed(b, u)
<1>1. f.rows = b.rows /\ f.ids = b.ids /\ f.keys = b.keys
    BY DEF MarkListed, Records
<1>2. ASSUME NEW x \in f.marked \ b.marked PROVE x.ids \subseteq IdsIn(u)
    <2>1. u # None /\ x \in u.rows
        BY DEF MarkListed, Records
    <2> QED BY <2>1 DEF IdsIn, Ids
<1> HIDE DEF f
<1>3. KeptFrom(f, b, IdsIn(u), own, time)
    BY <1>1, <1>2, KeptSame
<1> QED BY <1>3 DEF f

\* carry_forward revokes no id but those refused here.
LEMMA CarryForwardKeeps ==
    ASSUME NEW b \in Records, NEW held, NEW refused, NEW own, NEW time
    PROVE  KeptFrom(CarryForward(b, held, refused), b, refused, own, time)
<1> DEFINE f == CarryForward(b, held, refused)
<1>1. f.rows = b.rows /\ f.ids \subseteq b.ids \cup refused /\ b.keys \subseteq f.keys /\ f.marked = b.marked
    BY DEF CarryForward, Records
<1> HIDE DEF f
<1>2. KeptFrom(f, b, refused, own, time)
    BY <1>1, KeptSame
<1> QED BY <1>2 DEF f

\* newest_ids leaves ids alone, or keeps as many as an update lists.
LEMMA NewestAllOrFull ==
    ASSUME NEW ids \in SUBSET Standing, IsFiniteSet(ids)
    PROVE  Newest(ids) = ids \/ Cardinality(Newest(ids)) = MaxIds
<1>1. CASE Cardinality(ids) <= MaxIds
    BY <1>1 DEF Newest
<1>2. CASE ~ Cardinality(ids) <= MaxIds
    <2>1. Cardinality(ids) > MaxIds
        BY <1>2, FS_CardinalityType, BookAssumption
    <2> QED BY <1>2, <2>1, LatestExist DEF Newest
<1> QED BY <1>1, <1>2

\* take_member, of a key the records list: an id in force is left out only of a full row.
LEMMA MergedKeeps ==
    ASSUME NEW r \in Row, NEW m \in Row, IsFiniteSet(r.ids), IsFiniteSet(m.ids), NEW time \in Nat
    PROVE  LET q == Merged(r, m, time)
           IN  /\ q.ids \subseteq r.ids \cup m.ids
               /\ q.standing \in {r.standing, m.standing}
               /\ Full(r.ids, time) => Full(q.ids, time)
               /\ \A i \in InForce(r.ids \cup m.ids, time) : i \in q.ids \/ Full(q.ids, time)
<1> DEFINE ids == InForce(r.ids \cup m.ids, time)
           q == Merged(r, m, time)
<1>1. /\ r.ids \in SUBSET Standing /\ m.ids \in SUBSET Standing
      /\ r.ids \cup m.ids \in SUBSET Standing /\ IsFiniteSet(r.ids \cup m.ids)
    BY FS_Union DEF Row
<1>2. ids \in SUBSET Standing /\ IsFiniteSet(ids)
    BY <1>1, InForceSome
<1>3. q.ids = Newest(ids) /\ q.standing \in {r.standing, m.standing}
    BY DEF Merged, Row
<1>4. Newest(ids) \subseteq ids /\ (Newest(ids) = ids \/ Cardinality(Newest(ids)) = MaxIds)
    BY <1>2, NewestFew, NewestAllOrFull
<1>5. InForce(Newest(ids), time) = Newest(ids)
    BY <1>4 DEF InForce
<1>6. InForce(r.ids, time) \subseteq ids
    BY DEF InForce
<1> HIDE DEF q
<1>7. Cardinality(Newest(ids)) = MaxIds => Full(q.ids, time)
    BY <1>3, <1>5, BookAssumption DEF Full
<1>8. Newest(ids) = ids /\ Full(r.ids, time) => Full(q.ids, time)
    <2>1. /\ Cardinality(InForce(r.ids, time)) <= Cardinality(ids)
          /\ Cardinality(InForce(r.ids, time)) \in Nat /\ Cardinality(ids) \in Nat
        BY <1>2, <1>6, FS_Subset, FS_CardinalityType
    <2> HIDE DEF ids
    <2> QED BY <1>3, <1>5, <2>1, BookAssumption DEF Full
<1>9. ids \subseteq r.ids \cup m.ids
    BY DEF InForce
<1> HIDE DEF ids
<1> QED BY <1>3, <1>4, <1>7, <1>8, <1>9 DEF q, ids

\* Book::bring_forward: what is in force of a row stays, unless its key is revoked or the row is full.
LEMMA BringForwardKeeps ==
    ASSUME NEW b, IsBook(b), NEW u \in Update, WellFormed(u), Sorted(u.rows), NEW own \in Key, NEW time \in Nat
    PROVE  KeptFrom(BringForward(b, u, own, time), b, Ids(u), own, time)
<1> DEFINE told == BringRevocations(b, u, time)
           keys == told.keys \cup Revoked(b, u, own)
           taken == {r \in b.rows : r.node \notin b.keys /\ TakenBefore(r, u, own)}
           Fuller(r) == IF r \in taken THEN Merged(r, RowOf(u.rows, r.node), time) ELSE r
           Renamed(r) == IF r.node = own /\ Clashes(r, u)
                         THEN [Fuller(r) EXCEPT !.label = FreshName(b.rows \cup u.rows)]
                         ELSE Fuller(r)
           new == {m \in u.rows : m.node \notin Nodes(b.rows) \cup keys}
           New(m) == [m EXCEPT !.ids = InForce(@, time)]
           capped == UNION {Capped(r, RowOf(u.rows, r.node), time) : r \in taken}
           rows == {Renamed(r) : r \in b.rows} \cup {New(m) : m \in new}
           t == [told EXCEPT !.number = Later(@, u.number), !.keys = keys, !.ids = @ \cup capped, !.rows = rows]
           f == FollowKeys(t, time)
<1>1. BringForward(b, u, own, time) = f
    BY DEF BringForward
<1>2. /\ b \in Records /\ b.rows \in SUBSET Row /\ b.ids \in SUBSET Standing /\ b.keys \in SUBSET Key
      /\ \A r \in b.rows : IsFiniteSet(r.ids)
    BY DEF Records, IsBook, Sorted
<1>3. /\ u.rows \in SUBSET Row /\ u.ids \in SUBSET Standing /\ u.keys \in SUBSET Key
      /\ \A r \in u.rows : IsFiniteSet(r.ids)
    BY DEF Update, Sorted
<1>4. told.ids = b.ids \cup InForce(u.ids, time) /\ told.keys = b.keys \cup u.keys
    BY <1>2 DEF BringRevocations, Records
<1>5. ASSUME NEW r \in b.rows
      PROVE  /\ Fuller(r) \in Row /\ Fuller(r).node = r.node /\ Fuller(r).label = r.label
             /\ Fuller(r).ids \subseteq r.ids \cup Ids(u)
             /\ Fuller(r).standing \in {r.standing} \cup Ids(u)
             /\ Full(r.ids, time) => Full(Fuller(r).ids, time)
             /\ \A i \in InForce(r.ids, time) : i \in Fuller(r).ids \/ Full(Fuller(r).ids, time)
             /\ r \in taken => \A i \in Capped(r, RowOf(u.rows, r.node), time) :
                   i \in r.ids \cup Ids(u) /\ Full(Fuller(r).ids, time)
    <2>1. CASE r \in taken
        <3> DEFINE m == RowOf(u.rows, r.node)
                   q == Merged(r, m, time)
        <3>1. m \in u.rows
            BY <2>1, RowOfIn DEF TakenBefore
        <3>2. /\ m \in Row /\ r \in Row /\ IsFiniteSet(m.ids) /\ IsFiniteSet(r.ids)
              /\ m.ids \subseteq Ids(u) /\ m.standing \in Ids(u)
            BY <1>2, <1>3, <3>1 DEF Ids
        <3>3. Fuller(r) = q
            BY <2>1
        <3> HIDE DEF m
        <3>4. q \in Row /\ q.node = r.node /\ q.label = r.label
            BY <3>2, MergedRow
        <3>5. /\ q.ids \subseteq r.ids \cup m.ids
              /\ q.standing \in {r.standing, m.standing}
              /\ Full(r.ids, time) => Full(q.ids, time)
              /\ \A i \in InForce(r.ids \cup m.ids, time) : i \in q.ids \/ Full(q.ids, time)
            BY <3>2, MergedKeeps
        <3>6. \A i \in Capped(r, m, time) : i \in r.ids \cup m.ids /\ Full(q.ids, time)
            BY <3>5 DEF Capped, InForce
        <3>7. InForce(r.ids, time) \subseteq InForce(r.ids \cup m.ids, time)
            BY DEF InForce
        <3> HIDE DEF q, Fuller
        <3> QED BY <3>2, <3>3, <3>4, <3>5, <3>6, <3>7 DEF m
    <2>2. CASE r \notin taken
        <3>1. Fuller(r) = r /\ r \in Row
            BY <1>2, <2>2
        <3> HIDE DEF Fuller, taken
        <3> QED BY <2>2, <3>1 DEF InForce
    <2> QED BY <2>1, <2>2
<1>6. ASSUME NEW r \in b.rows
      PROVE  /\ KeepsRow(Renamed(r), r, own, time)
             /\ Renamed(r).ids \subseteq r.ids \cup Ids(u)
             /\ Renamed(r).standing \in {r.standing} \cup Ids(u)
             /\ r \in taken => \A i \in Capped(r, RowOf(u.rows, r.node), time) :
                   i \in r.ids \cup Ids(u) /\ Full(Renamed(r).ids, time)
    <2>1. /\ Renamed(r).node = Fuller(r).node /\ Renamed(r).ids = Fuller(r).ids
          /\ Renamed(r).standing = Fuller(r).standing
          /\ Renamed(r).label = Fuller(r).label \/ r.node = own
        <3>1. Fuller(r) \in Row
            BY <1>5
        <3> HIDE DEF Fuller
        <3> QED BY <3>1 DEF Row
    <2> HIDE DEF Renamed, Fuller, taken
    <2> QED BY <1>5, <2>1 DEF KeepsRow
<1>7. ASSUME NEW m \in new
      PROVE  New(m).node = m.node /\ New(m).ids \subseteq Ids(u) /\ New(m).standing \in Ids(u)
    <2>1. m \in u.rows /\ m \in Row
        BY <1>3
    <2>2. New(m).node = m.node /\ New(m).ids = InForce(m.ids, time) /\ New(m).standing = m.standing
        BY <2>1 DEF Row
    <2> HIDE DEF New
    <2> QED BY <2>1, <2>2 DEF Ids, InForce
<1> DEFINE gone == {x \in rows : x.node \in keys}
<1>8. /\ f.keys = keys /\ f.rows = {x \in rows : x.node \notin keys} /\ f.marked \subseteq b.marked \cup gone
      /\ f.ids = b.ids \cup InForce(u.ids, time) \cup capped \cup UNION {InForce(x.ids, time) : x \in gone}
    <2> DEFINE n == Later(told.number, u.number)
               ids == told.ids \cup capped
    <2>1. DOMAIN told = Fields /\ told.marked = b.marked
        BY <1>2 DEF BringRevocations, Records, Fields
    <2>2. t = [told EXCEPT !.number = n, !.keys = keys, !.ids = ids, !.rows = rows]
        OBVIOUS
    <2> HIDE DEF rows, keys, n, t, ids, told
    <2>3. t.rows = rows /\ t.keys = keys /\ t.ids = ids /\ t.marked = told.marked /\ DOMAIN t = Fields
        BY <2>1, <2>2 DEF Fields
    <2>4. /\ f.keys = keys /\ f.rows = rows \ gone /\ f.marked \subseteq told.marked \cup gone
          /\ f.ids = ids \cup UNION {InForce(x.ids, time) : x \in gone}
        BY <2>3, FollowKeysFields
    <2>5. ids = b.ids \cup InForce(u.ids, time) \cup capped
        BY <1>4 DEF ids
    <2> HIDE DEF f, capped, gone
    <2>6. rows \ gone = {x \in rows : x.node \notin keys}
        BY DEF gone
    <2> QED BY <2>1, <2>4, <2>5, <2>6
<1>9. ASSUME NEW x \in rows
      PROVE  \/ \E r \in b.rows : x = Renamed(r)
             \/ \E m \in new : x = New(m)
    OBVIOUS
<1>10. /\ \A i \in capped : \E r \in taken : i \in Capped(r, RowOf(u.rows, r.node), time)
       /\ \A r \in taken : r \in b.rows
       /\ \A r \in b.rows : Renamed(r) \in rows
       /\ u.ids \subseteq Ids(u)
    BY DEF Ids
<1> HIDE DEF f, rows, new, taken, capped, Renamed, New
<1>11. b.keys \subseteq f.keys
    BY <1>4, <1>8
<1>12. ASSUME NEW r \in b.rows PROVE r.node \in f.keys \/ \E x \in f.rows : KeepsRow(x, r, own, time)
    <2>1. Renamed(r) \in rows /\ Renamed(r).node = r.node /\ KeepsRow(Renamed(r), r, own, time)
        BY <1>6, <1>10 DEF KeepsRow
    <2> HIDE DEF keys
    <2> QED BY <1>8, <2>1
<1>13. ASSUME NEW x \in rows
       PROVE  /\ \A i \in x.ids : i \in Ids(u) \/ \E r \in b.rows : r.node = x.node /\ i \in r.ids
              /\ x.standing \in Ids(u) \/ \E r \in b.rows : x.standing = r.standing
    <2>1. CASE \E r \in b.rows : x = Renamed(r)
        BY <1>6, <2>1 DEF KeepsRow
    <2>2. CASE \E m \in new : x = New(m)
        BY <1>7, <2>2
    <2> QED BY <1>9, <2>1, <2>2
<1>14. ASSUME NEW i \in f.ids
       PROVE  \/ i \in b.ids \cup Ids(u)
              \/ \E r \in b.rows : /\ i \in r.ids
                                   /\ r.node \in f.keys \/ \E x \in f.rows : x.node = r.node /\ Full(x.ids, time)
    <2> HIDE DEF keys
    <2>1. CASE i \in b.ids \cup InForce(u.ids, time)
        BY <1>10, <2>1 DEF InForce
    <2>2. ASSUME NEW r \in taken, i \in Capped(r, RowOf(u.rows, r.node), time)
          PROVE  \/ i \in Ids(u)
                 \/ i \in r.ids /\ (r.node \in f.keys \/ \E x \in f.rows : x.node = r.node /\ Full(x.ids, time))
        <3>1. r \in b.rows /\ Renamed(r) \in rows /\ Renamed(r).node = r.node
            BY <1>6, <1>10 DEF KeepsRow
        <3>2. i \in r.ids \cup Ids(u) /\ Full(Renamed(r).ids, time)
            BY <1>6, <2>2, <3>1
        <3> QED BY <1>8, <3>1, <3>2
    <2>3. ASSUME NEW x \in gone, i \in InForce(x.ids, time)
          PROVE  i \in Ids(u) \/ \E r \in b.rows : i \in r.ids /\ r.node \in f.keys
        BY <1>8, <1>13, <2>3 DEF InForce
    <2> QED BY <1>8, <1>10, <2>1, <2>2, <2>3
<1>15. ASSUME NEW x \in f.marked, NEW i \in x.ids
       PROVE  i \in Ids(u) \/ \E r \in b.rows \cup b.marked : i \in r.ids
    <2>1. CASE x \in b.marked
        BY <2>1
    <2>2. CASE x \in rows
        BY <1>13, <2>2
    <2> QED BY <1>8, <2>1, <2>2
<1>16. KeptFrom(f, b, Ids(u), own, time)
    BY <1>8, <1>11, <1>12, <1>13, <1>14, <1>15 DEF KeptFrom
<1> QED BY <1>1, <1>16

\* One list taken into the records.
LEMMA TakeKeeps ==
    ASSUME NEW b, IsBook(b), NEW u, IsList(u), NEW floor, NEW own \in Key, NEW time \in Nat
    PROVE  KeptFrom(Take(b, u, floor, own, time), b, IdsIn(u), own, time)
<1>1. CASE u = None
    <2>1. Take(b, u, floor, own, time) = b
        BY <1>1 DEF Take
    <2> QED BY <2>1, KeptSame
<1>2. CASE u # None /\ u.number < floor
    <2> DEFINE f == BringRevocations(b, u, time)
    <2>1. Take(b, u, floor, own, time) = f
        BY <1>2 DEF Take
    <2>2. /\ f.rows = b.rows /\ f.ids = b.ids \cup InForce(u.ids, time) /\ b.keys \subseteq f.keys
          /\ f.marked = b.marked
        BY DEF BringRevocations, IsBook, Records
    <2>3. InForce(u.ids, time) \subseteq IdsIn(u)
        BY <1>2 DEF InForce, IdsIn, Ids
    <2> HIDE DEF f
    <2>4. KeptFrom(f, b, IdsIn(u), own, time)
        BY <2>2, <2>3, KeptSame
    <2> QED BY <2>1, <2>4
<1>3. CASE u # None /\ ~ u.number < floor
    <2>1. Take(b, u, floor, own, time) = BringForward(b, u, own, time) /\ IdsIn(u) = Ids(u)
        BY <1>3 DEF Take, IdsIn
    <2>2. u \in Update /\ WellFormed(u) /\ Sorted(u.rows)
        BY <1>3 DEF IsList
    <2>3. KeptFrom(BringForward(b, u, own, time), b, Ids(u), own, time)
        BY <2>2, BringForwardKeeps
    <2> QED BY <2>1, <2>3
<1> QED BY <1>1, <1>2, <1>3

\* Book::forward: the records speak of no standing that they, the lists and the refusals here do not, and an id in force
\* of theirs is lost only with the key of its row or to a full row.
LEMMA ForwardKeeps ==
    ASSUME NEW b, IsBook(b), NEW held, IsList(held), NEW fork, IsList(fork), NEW refused,
           NEW own \in Key, NEW time \in Nat
    PROVE  KeptFrom(Forward(b, held, fork, refused, own, time), b, IdsIn(held) \cup IdsIn(fork) \cup refused, own, time)
<1> DEFINE floor == Later(Number(held), b.number)
           first == Take(b, held, b.number, own, time)
           second == Take(first, fork, floor, own, time)
           brought == IF Behind(b, held, fork) THEN second ELSE b
           carried == CarryForward(brought, held, refused)
           followed == FollowKeys(carried, time)
           one == MarkListed(followed, held)
           two == MarkListed(one, fork)
           s == IdsIn(held) \cup IdsIn(fork)
<1>1. Forward(b, held, fork, refused, own, time) = two
    BY DEF Forward
<1>2. b.number \in Nat /\ Number(held) \in Nat /\ floor \in Nat
    BY DEF IsBook, Records, IsList, Update, Number, Later
<1>3. IsBook(first)
    BY <1>2, TakeParts DEF TakenFrom
<1>4. KeptFrom(first, b, IdsIn(held), own, time)
    BY TakeKeeps
<1> HIDE DEF first, floor
<1>5. IsBook(second) /\ KeptFrom(second, first, IdsIn(fork), own, time)
    BY <1>2, <1>3, TakeParts, TakeKeeps DEF TakenFrom
<1> HIDE DEF second
<1>6. IsBook(brought) /\ KeptFrom(brought, b, s, own, time)
    <2>1. KeptFrom(second, b, s, own, time)
        BY <1>4, <1>5, KeptTwice
    <2>2. KeptFrom(b, b, s, own, time)
        BY KeptSame
    <2> QED BY <1>5, <2>1, <2>2
<1> HIDE DEF brought, s
<1>7. carried \in Records /\ KeptFrom(carried, brought, refused, own, time)
    BY <1>6, CarryForwardParts, CarryForwardKeeps DEF IsBook
<1> HIDE DEF carried
<1>8. followed \in Records /\ KeptFrom(followed, carried, {}, own, time)
    BY <1>7, FollowKeysParts, FollowKeysKeeps
<1> HIDE DEF followed
<1>9. one \in Records /\ KeptFrom(one, followed, IdsIn(held), own, time)
    BY <1>8, MarkListedParts, MarkListedKeeps
<1> HIDE DEF one
<1>10. KeptFrom(two, one, IdsIn(fork), own, time)
    BY <1>9, MarkListedKeeps
<1> HIDE DEF two
<1>11. KeptFrom(carried, b, s \cup refused, own, time)
    BY <1>6, <1>7, KeptTwice
<1>12. KeptFrom(followed, b, (s \cup refused) \cup {}, own, time)
    BY <1>8, <1>11, KeptTwice
<1>13. KeptFrom(one, b, ((s \cup refused) \cup {}) \cup IdsIn(held), own, time)
    BY <1>9, <1>12, KeptTwice
<1>14. KeptFrom(two, b, (((s \cup refused) \cup {}) \cup IdsIn(held)) \cup IdsIn(fork), own, time)
    BY <1>10, <1>13, KeptTwice
<1>15. (((s \cup refused) \cup {}) \cup IdsIn(held)) \cup IdsIn(fork) = s \cup refused
    BY DEF s
<1> QED BY <1>1, <1>14, <1>15 DEF s

-----------------------------------------------------------------------------
(* What becomes of the standings in force. *)

RowsIn(u) == IF u = None THEN {} ELSE u.rows

\* The records f are b, with the rows and keys of a list taken in: no id in force is lost, a key is revoked only by
\* those of the list or with its row, and each row has the ids of those it stands for.
Over(f, b, rows, keys, time) ==
    /\ b.keys \subseteq f.keys /\ InForce(b.ids, time) \subseteq f.ids
    /\ \A r \in b.rows : \A i \in InForce(r.ids, time) : i \in f.ids \/ \E x \in f.rows : x.node = r.node /\ i \in x.ids
    /\ \A k \in f.keys : k \in b.keys \cup keys \/ (k \in Nodes(b.rows) /\ k \notin Nodes(f.rows))
    /\ \A x \in f.rows : \A i \in x.ids : \E r \in b.rows \cup rows : r.node = x.node /\ i \in r.ids
    /\ \A x \in f.rows :
          x.node \in Nodes(b.rows) \/ \E m \in rows : m.node = x.node /\ InForce(m.ids, time) \subseteq x.ids

\* The records f revoke all that u revokes.
Tells(f, u, time) == u.keys \subseteq f.keys /\ InForce(u.ids, time) \subseteq f.ids

\* The records f have every device of u that they do not revoke, with every id of its in force that they do not.
TakesIn(f, u, time) ==
    /\ Tells(f, u, time)
    /\ \A m \in u.rows : \A i \in InForce(m.ids, time) :
          i \in f.ids \/ m.node \in f.keys \/ \E x \in f.rows : x.node = m.node /\ i \in x.ids

LEMMA BringForwardTakes ==
    ASSUME NEW b, IsBook(b), NEW u \in Update, WellFormed(u), Sorted(u.rows), NEW own \in Key, NEW time \in Nat
    PROVE  LET f == BringForward(b, u, own, time)
           IN  Over(f, b, u.rows, u.keys, time) /\ TakesIn(f, u, time)
<1> DEFINE told == BringRevocations(b, u, time)
           keys == told.keys \cup Revoked(b, u, own)
           taken == {r \in b.rows : r.node \notin b.keys /\ TakenBefore(r, u, own)}
           Fuller(r) == IF r \in taken THEN Merged(r, RowOf(u.rows, r.node), time) ELSE r
           Renamed(r) == IF r.node = own /\ Clashes(r, u)
                         THEN [Fuller(r) EXCEPT !.label = FreshName(b.rows \cup u.rows)]
                         ELSE Fuller(r)
           new == {m \in u.rows : m.node \notin Nodes(b.rows) \cup keys}
           New(m) == [m EXCEPT !.ids = InForce(@, time)]
           capped == UNION {Capped(r, RowOf(u.rows, r.node), time) : r \in taken}
           rows == {Renamed(r) : r \in b.rows} \cup {New(m) : m \in new}
           t == [told EXCEPT !.number = Later(@, u.number), !.keys = keys, !.ids = @ \cup capped, !.rows = rows]
           f == FollowKeys(t, time)
<1>1. BringForward(b, u, own, time) = f
    BY DEF BringForward
<1>2. /\ b \in Records /\ b.rows \in SUBSET Row /\ b.ids \in SUBSET Standing /\ b.keys \in SUBSET Key
      /\ OneEach(b.rows) /\ \A r \in b.rows : IsFiniteSet(r.ids)
    BY DEF Records, IsBook, Sorted
<1>3. /\ u.rows \in SUBSET Row /\ u.ids \in SUBSET Standing /\ u.keys \in SUBSET Key
      /\ OneEach(u.rows) /\ \A r \in u.rows : IsFiniteSet(r.ids)
    BY DEF Update, Sorted
<1>4. told.ids = b.ids \cup InForce(u.ids, time) /\ told.keys = b.keys \cup u.keys
    BY <1>2 DEF BringRevocations, Records
<1>5. ASSUME NEW r \in taken
      PROVE  \E m \in u.rows :
                /\ m.node = r.node /\ m = RowOf(u.rows, r.node)
                /\ Fuller(r) \in Row /\ Fuller(r).node = r.node /\ Fuller(r).ids \subseteq r.ids \cup m.ids
                /\ \A i \in InForce(r.ids \cup m.ids, time) : i \in Fuller(r).ids \/ i \in Capped(r, m, time)
    <2> DEFINE m == RowOf(u.rows, r.node)
               q == Merged(r, m, time)
    <2>1. m \in u.rows /\ m.node = r.node /\ r \in b.rows
        BY RowOfIn DEF TakenBefore
    <2>2. m \in Row /\ r \in Row /\ IsFiniteSet(m.ids) /\ IsFiniteSet(r.ids)
        BY <1>2, <1>3, <2>1
    <2>3. Fuller(r) = q
        OBVIOUS
    <2> HIDE DEF m
    <2>4. q \in Row /\ q.node = r.node
        BY <2>2, MergedRow
    <2>5. q.ids \subseteq r.ids \cup m.ids
        BY <2>2, MergedKeeps
    <2>6. \A i \in InForce(r.ids \cup m.ids, time) : i \in q.ids \/ i \in Capped(r, m, time)
        BY DEF Capped
    <2> HIDE DEF q, Fuller
    <2> QED BY <2>1, <2>3, <2>4, <2>5, <2>6 DEF m
<1>6. ASSUME NEW r \in b.rows, r \notin taken PROVE Fuller(r) = r /\ Fuller(r) \in Row
    BY <1>2, <1>6
<1> HIDE DEF Fuller
<1>7. ASSUME NEW r \in b.rows PROVE Renamed(r).node = Fuller(r).node /\ Renamed(r).ids = Fuller(r).ids
    <2>1. Fuller(r) \in Row
        BY <1>5, <1>6
    <2> QED BY <2>1 DEF Row
<1>8. ASSUME NEW m \in new
      PROVE  New(m).node = m.node /\ New(m).ids = InForce(m.ids, time)
    BY <1>3 DEF Row
<1> DEFINE gone == {x \in rows : x.node \in keys}
<1>9. /\ f.keys = keys /\ f.rows = {x \in rows : x.node \notin keys}
      /\ f.ids = b.ids \cup InForce(u.ids, time) \cup capped \cup UNION {InForce(x.ids, time) : x \in gone}
    <2> DEFINE n == Later(told.number, u.number)
               ids == told.ids \cup capped
    <2>1. DOMAIN told = Fields
        BY <1>2 DEF BringRevocations, Records, Fields
    <2>2. t = [told EXCEPT !.number = n, !.keys = keys, !.ids = ids, !.rows = rows]
        OBVIOUS
    <2> HIDE DEF rows, keys, n, t, ids, told
    <2>3. t.rows = rows /\ t.keys = keys /\ t.ids = ids /\ DOMAIN t = Fields
        BY <2>1, <2>2 DEF Fields
    <2>4. /\ f.keys = keys /\ f.rows = rows \ gone
          /\ f.ids = ids \cup UNION {InForce(x.ids, time) : x \in gone}
        BY <2>3, FollowKeysFields
    <2>5. ids = b.ids \cup InForce(u.ids, time) \cup capped
        BY <1>4 DEF ids
    <2> HIDE DEF f, capped, gone
    <2>6. rows \ gone = {x \in rows : x.node \notin keys}
        BY DEF gone
    <2> QED BY <2>1, <2>4, <2>5, <2>6
<1>10. /\ \A x \in rows : (\E r \in b.rows : x = Renamed(r)) \/ \E m \in new : x = New(m)
       /\ \A r \in b.rows : Renamed(r) \in rows
       /\ \A m \in new : New(m) \in rows
       /\ \A r \in taken : r \in b.rows /\ Capped(r, RowOf(u.rows, r.node), time) \subseteq capped
       /\ \A x \in rows : x.node \in keys => x \in gone
    OBVIOUS
<1>11. keys = b.keys \cup u.keys \cup Revoked(b, u, own)
    BY <1>4
<1>12. \A m \in u.rows : m \in new <=> m.node \notin Nodes(b.rows) /\ m.node \notin keys
    OBVIOUS
<1>13. \A r \in b.rows : r \in taken <=> r.node \notin b.keys /\ TakenBefore(r, u, own)
    OBVIOUS
<1> HIDE DEF f, rows, new, capped, Renamed, New, keys, taken
<1>14. ASSUME NEW x \in rows, NEW i \in InForce(x.ids, time)
       PROVE  i \in f.ids \/ \E y \in f.rows : y.node = x.node /\ i \in y.ids
    <2>1. CASE x.node \in keys
        BY <1>9, <1>10, <1>14, <2>1
    <2>2. CASE x.node \notin keys
        BY <1>9, <2>2 DEF InForce
    <2> QED BY <2>1, <2>2
<1>15. ASSUME NEW r \in b.rows, NEW i \in InForce(r.ids, time)
       PROVE  i \in f.ids \/ \E y \in f.rows : y.node = r.node /\ i \in y.ids
    <2>1. CASE r \in taken
        <3>1. PICK m \in u.rows :
                 /\ m = RowOf(u.rows, r.node) /\ Fuller(r).node = r.node
                 /\ \A j \in InForce(r.ids \cup m.ids, time) : j \in Fuller(r).ids \/ j \in Capped(r, m, time)
            BY <1>5, <2>1
        <3>2. i \in InForce(r.ids \cup m.ids, time)
            BY DEF InForce
        <3>3. CASE i \in Fuller(r).ids
            <4>1. Renamed(r) \in rows /\ i \in InForce(Renamed(r).ids, time) /\ Renamed(r).node = r.node
                BY <1>7, <1>10, <3>1, <3>3 DEF InForce
            <4> QED BY <1>14, <4>1
        <3>4. CASE i \in Capped(r, m, time)
            BY <1>9, <1>10, <2>1, <3>1, <3>4
        <3> QED BY <3>1, <3>2, <3>3, <3>4
    <2>2. CASE r \notin taken
        <3>1. Renamed(r) \in rows /\ i \in InForce(Renamed(r).ids, time) /\ Renamed(r).node = r.node
            BY <1>6, <1>7, <1>10, <2>2
        <3> QED BY <1>14, <3>1
    <2> QED BY <2>1, <2>2
<1>16. ASSUME NEW m \in u.rows, NEW i \in InForce(m.ids, time), m.node \notin keys
       PROVE  i \in f.ids \/ \E y \in f.rows : y.node = m.node /\ i \in y.ids
    <2>1. CASE m.node \notin Nodes(b.rows)
        <3>1. m \in new
            BY <1>12, <1>16, <2>1
        <3>2. New(m) \in rows /\ New(m).node = m.node /\ i \in InForce(New(m).ids, time)
            BY <1>8, <1>10, <3>1 DEF InForce
        <3> QED BY <1>14, <3>2
    <2>2. CASE m.node \in Nodes(b.rows)
        <3>1. PICK r \in b.rows : r.node = m.node
            BY <2>2 DEF Nodes
        <3>2. r.node \notin b.keys /\ r.node \notin u.keys /\ r.node \in Nodes(u.rows)
            BY <1>11, <1>16, <3>1 DEF Nodes
        <3>3. ~ Clashes(r, u) \/ r.node = own
            BY <1>11, <1>16, <3>1 DEF Revoked
        <3>4. TakenBefore(r, u, own)
            BY <3>2, <3>3 DEF TakenBefore, Clashes
        <3>5. r \in taken
            BY <1>13, <3>2, <3>4
        <3>6. PICK q \in u.rows :
                 /\ q.node = r.node /\ q = RowOf(u.rows, r.node) /\ Fuller(r).node = r.node
                 /\ \A j \in InForce(r.ids \cup q.ids, time) : j \in Fuller(r).ids \/ j \in Capped(r, q, time)
            BY <1>5, <3>5
        <3>7. q = m
            BY <1>3, <3>1, <3>6 DEF OneEach
        <3>8. i \in InForce(r.ids \cup q.ids, time)
            BY <3>7 DEF InForce
        <3>9. CASE i \in Fuller(r).ids
            <4>1. Renamed(r) \in rows /\ i \in InForce(Renamed(r).ids, time) /\ Renamed(r).node = m.node
                BY <1>7, <1>10, <3>1, <3>6, <3>9 DEF InForce
            <4> QED BY <1>14, <4>1
        <3>10. CASE i \in Capped(r, q, time)
            BY <1>9, <1>10, <3>5, <3>6, <3>10
        <3> QED BY <3>6, <3>8, <3>9, <3>10
    <2> QED BY <2>1, <2>2
<1>17. ASSUME NEW x \in f.rows
       PROVE  /\ \A i \in x.ids : \E r \in b.rows \cup u.rows : r.node = x.node /\ i \in r.ids
              /\ x.node \in Nodes(b.rows) \/ \E m \in u.rows : m.node = x.node /\ InForce(m.ids, time) \subseteq x.ids
    <2>1. x \in rows
        BY <1>9
    <2>2. ASSUME NEW r \in b.rows, x = Renamed(r)
          PROVE  x.node \in Nodes(b.rows) /\ \A i \in x.ids : \E q \in b.rows \cup u.rows : q.node = x.node /\ i \in q.ids
        <3>1. CASE r \in taken
            <4>1. PICK m \in u.rows : m.node = r.node /\ Fuller(r).node = r.node /\ Fuller(r).ids \subseteq r.ids \cup m.ids
                BY <1>5, <3>1
            <4> QED BY <1>7, <2>2, <4>1 DEF Nodes
        <3>2. CASE r \notin taken
            BY <1>6, <1>7, <2>2, <3>2 DEF Nodes
        <3> QED BY <3>1, <3>2
    <2>3. ASSUME NEW m \in new, x = New(m)
          PROVE  m \in u.rows /\ m.node = x.node /\ x.ids = InForce(m.ids, time)
        BY <1>8, <2>3 DEF new
    <2> QED BY <1>10, <2>1, <2>2, <2>3 DEF InForce
<1>18. \A k \in f.keys : k \in b.keys \cup u.keys \/ (k \in Nodes(b.rows) /\ k \notin Nodes(f.rows))
    <2>1. \A k \in Revoked(b, u, own) : k \in Nodes(b.rows)
        BY DEF Revoked, Nodes
    <2> QED BY <1>9, <1>11, <2>1 DEF Nodes
<1>19. Tells(f, u, time) /\ b.keys \subseteq f.keys /\ InForce(b.ids, time) \subseteq f.ids
    BY <1>9, <1>11 DEF Tells, InForce
<1>20. Over(f, b, u.rows, u.keys, time)
    BY <1>15, <1>17, <1>18, <1>19 DEF Over
<1>21. TakesIn(f, u, time)
    BY <1>9, <1>16, <1>19 DEF TakesIn
<1> QED BY <1>1, <1>20, <1>21

\* Records with the same rows that revoke more, of the keys given, are over the others.
LEMMA OverSame ==
    ASSUME NEW f, NEW b, f.rows = b.rows, b.ids \subseteq f.ids, b.keys \subseteq f.keys,
           NEW keys, f.keys \subseteq b.keys \cup keys, NEW time
    PROVE  Over(f, b, {}, keys, time)
BY DEF Over, InForce, Nodes

\* One list taken into the records.
LEMMA TakeOver ==
    ASSUME NEW b, IsBook(b), NEW u, IsList(u), NEW floor, NEW own \in Key, NEW time \in Nat
    PROVE  LET f == Take(b, u, floor, own, time)
           IN  /\ \E rows \in SUBSET RowsIn(u) : Over(f, b, rows, KeysIn(u), time)
               /\ u # None => Tells(f, u, time)
               /\ u # None /\ ~ u.number < floor => TakesIn(f, u, time)
<1>1. CASE u = None
    <2>1. Take(b, u, floor, own, time) = b
        BY <1>1 DEF Take
    <2>2. Over(b, b, {}, KeysIn(u), time)
        BY OverSame
    <2> QED BY <1>1, <2>1, <2>2
<1>2. CASE u # None /\ u.number < floor
    <2> DEFINE f == BringRevocations(b, u, time)
    <2>1. Take(b, u, floor, own, time) = f
        BY <1>2 DEF Take
    <2>2. f.rows = b.rows /\ f.ids = b.ids \cup InForce(u.ids, time) /\ f.keys = b.keys \cup u.keys
        BY DEF BringRevocations, IsBook, Records
    <2> HIDE DEF f
    <2>3. Over(f, b, {}, u.keys, time) /\ Tells(f, u, time)
        BY <2>2, OverSame DEF Tells
    <2> QED BY <1>2, <2>1, <2>3 DEF KeysIn
<1>3. CASE u # None /\ ~ u.number < floor
    <2> DEFINE f == BringForward(b, u, own, time)
    <2>1. Take(b, u, floor, own, time) = f
        BY <1>3 DEF Take
    <2>2. u \in Update /\ WellFormed(u) /\ Sorted(u.rows)
        BY <1>3 DEF IsList
    <2>3. Over(f, b, u.rows, u.keys, time) /\ TakesIn(f, u, time)
        BY <2>2, BringForwardTakes
    <2> HIDE DEF f
    <2> QED BY <1>3, <2>1, <2>3 DEF RowsIn, KeysIn, TakesIn
<1> QED BY <1>1, <1>2, <1>3

\* What is refused here carried forward: the ids of a row whose key is revoked are revoked with it.
LEMMA CarryForwardOver ==
    ASSUME NEW b, IsBook(b), NEW held, IsList(held), NEW refused, NEW time \in Nat
    PROVE  Over(FollowKeys(CarryForward(b, held, refused), time), b, {}, {}, time)
<1> DEFINE c == CarryForward(b, held, refused)
           f == FollowKeys(c, time)
           gone == {r \in c.rows : r.node \in c.keys}
<1>1. c.rows = b.rows /\ b.ids \subseteq c.ids /\ c.keys = b.keys \cup (Nodes(b.rows) \cap refused) /\ DOMAIN c = Fields
    BY DEF CarryForward, IsBook, Records, Fields
<1> HIDE DEF c
<1>2. f.keys = c.keys /\ f.rows = c.rows \ gone /\ f.ids = c.ids \cup UNION {InForce(r.ids, time) : r \in gone}
    BY <1>1, FollowKeysFields
<1> HIDE DEF f
<1>3. ASSUME NEW r \in b.rows, NEW i \in InForce(r.ids, time)
      PROVE  i \in f.ids \/ \E x \in f.rows : x.node = r.node /\ i \in x.ids
    <2>1. CASE r \in gone
        BY <1>2, <2>1
    <2>2. CASE r \notin gone
        BY <1>1, <1>2, <2>2 DEF InForce
    <2> QED BY <2>1, <2>2
<1>4. ASSUME NEW k \in f.keys PROVE k \in b.keys \/ (k \in Nodes(b.rows) /\ k \notin Nodes(f.rows))
    BY <1>1, <1>2 DEF Nodes
<1>5. Over(f, b, {}, {}, time)
    BY <1>1, <1>2, <1>3, <1>4 DEF Over, InForce, Nodes
<1> QED BY <1>5 DEF f, c

\* The standings that records or an update list or revoke.
AllIds(b) == b.ids \cup UNION {r.ids : r \in b.rows}

\* The records f have lost no standing in force of b's, nor a revocation.
Bears(f, b, time) ==
    /\ b.keys \subseteq f.keys /\ InForce(b.ids, time) \subseteq f.ids
    /\ InForce(AllIds(b), time) \subseteq AllIds(f)

\* The records f revoke all that u revokes, and list or revoke every standing it lists, but of a key that they revoke.
Speaks(f, u, time) ==
    /\ Tells(f, u, time)
    /\ \A m \in u.rows : m.node \in f.keys \/ InForce(m.ids, time) \subseteq AllIds(f)

LEMMA OverBears ==
    ASSUME NEW f, NEW b, NEW rows, NEW keys, NEW time, Over(f, b, rows, keys, time)
    PROVE  Bears(f, b, time)
<1>1. ASSUME NEW i \in InForce(AllIds(b), time) PROVE i \in AllIds(f)
    <2>1. CASE i \in InForce(b.ids, time)
        BY <2>1 DEF Over, AllIds
    <2>2. ASSUME NEW r \in b.rows, i \in InForce(r.ids, time) PROVE i \in AllIds(f)
        BY <2>2 DEF Over, AllIds
    <2> QED BY <2>1, <2>2 DEF AllIds, InForce
<1> QED BY <1>1 DEF Over, Bears

LEMMA BearsBoth ==
    ASSUME NEW f, NEW g, NEW b, NEW time, Bears(f, g, time), Bears(g, b, time)
    PROVE  Bears(f, b, time)
<1>1. ASSUME NEW S, NEW T, NEW R, InForce(S, time) \subseteq T, InForce(T, time) \subseteq R
      PROVE  InForce(S, time) \subseteq R
    BY <1>1 DEF InForce
<1>2. InForce(b.ids, time) \subseteq f.ids /\ InForce(AllIds(b), time) \subseteq AllIds(f)
    BY <1>1 DEF Bears
<1> QED BY <1>2 DEF Bears

LEMMA BearsSame ==
    ASSUME NEW f, NEW b, f.rows = b.rows, f.ids = b.ids, f.keys = b.keys, NEW time
    PROVE  Bears(f, b, time)
BY DEF Bears, InForce, AllIds

LEMMA TellsOn ==
    ASSUME NEW f, NEW g, NEW u, NEW time, Bears(f, g, time), Tells(g, u, time)
    PROVE  Tells(f, u, time)
BY DEF Bears, Tells, InForce

LEMMA SpeaksOn ==
    ASSUME NEW f, NEW g, NEW u, NEW time, Bears(f, g, time), Speaks(g, u, time)
    PROVE  Speaks(f, u, time)
<1>1. ASSUME NEW m \in u.rows, m.node \notin f.keys, NEW i \in InForce(m.ids, time) PROVE i \in AllIds(f)
    <2>1. i \in AllIds(g)
        BY <1>1 DEF Bears, Speaks
    <2>2. i \in InForce(AllIds(g), time)
        BY <2>1 DEF InForce
    <2> QED BY <2>2 DEF Bears
<1> QED BY <1>1, TellsOn DEF Speaks

LEMMA TakesSpeaks ==
    ASSUME NEW f, NEW u, NEW time, TakesIn(f, u, time)
    PROVE  Speaks(f, u, time)
BY DEF TakesIn, Speaks, AllIds

\* Book::forward loses nothing of the records, takes in what the fork revokes, and the update held if it is ahead.
LEMMA ForwardSpeaks ==
    ASSUME NEW b, IsBook(b), NEW held, IsList(held), NEW fork, IsList(fork), NEW refused,
           NEW own \in Key, NEW time \in Nat
    PROVE  LET f == Forward(b, held, fork, refused, own, time)
           IN  /\ Bears(f, b, time)
               /\ fork # None => Tells(f, fork, time)
               /\ held # None /\ Number(held) > b.number => Speaks(f, held, time)
<1> DEFINE floor == Later(Number(held), b.number)
           first == Take(b, held, b.number, own, time)
           second == Take(first, fork, floor, own, time)
           brought == IF Behind(b, held, fork) THEN second ELSE b
           carried == CarryForward(brought, held, refused)
           followed == FollowKeys(carried, time)
           one == MarkListed(followed, held)
           two == MarkListed(one, fork)
<1>1. Forward(b, held, fork, refused, own, time) = two
    BY DEF Forward
<1>2. b.number \in Nat /\ Number(held) \in Nat /\ floor \in Nat
    BY DEF IsBook, Records, IsList, Update, Number, Later
<1>3. IsBook(first)
    BY <1>2, TakeParts DEF TakenFrom
<1>4. Bears(first, b, time) /\ (held # None /\ Number(held) > b.number => Speaks(first, held, time))
    <2>1. held # None /\ Number(held) > b.number => ~ held.number < b.number
        BY <1>2 DEF Number
    <2> QED BY <2>1, TakeOver, OverBears, TakesSpeaks
<1> HIDE DEF first, floor
<1>5. IsBook(second) /\ Bears(second, first, time) /\ (fork # None => Tells(second, fork, time))
    BY <1>2, <1>3, TakeParts, TakeOver, OverBears DEF TakenFrom
<1> HIDE DEF second
<1>6. /\ IsBook(brought) /\ Bears(brought, b, time)
      /\ fork # None => Tells(brought, fork, time)
      /\ held # None /\ Number(held) > b.number => Speaks(brought, held, time)
    <2>1. Bears(second, b, time) /\ Bears(b, b, time)
        BY <1>4, <1>5, BearsBoth, BearsSame
    <2>2. held # None /\ Number(held) > b.number => Speaks(second, held, time)
        BY <1>4, <1>5, SpeaksOn
    <2> QED BY <1>5, <2>1, <2>2 DEF Behind
<1> HIDE DEF brought
<1>7. carried \in Records
    BY <1>6, CarryForwardParts DEF IsBook
<1>8. followed \in Records /\ Bears(followed, brought, time)
    BY <1>6, <1>7, FollowKeysParts, CarryForwardOver, OverBears
<1> HIDE DEF carried, followed
<1>9. one.rows = followed.rows /\ one.ids = followed.ids /\ one.keys = followed.keys /\ one \in Records
    <2>1. one \in Records
        BY <1>8, MarkListedParts
    <2> QED BY <1>8, <2>1 DEF MarkListed, Records
<1> HIDE DEF one
<1>10. two.rows = followed.rows /\ two.ids = followed.ids /\ two.keys = followed.keys
    BY <1>9 DEF MarkListed, Records
<1> HIDE DEF two
<1>11. Bears(two, brought, time)
    BY <1>8, <1>10, BearsSame, BearsBoth
<1> QED BY <1>1, <1>6, <1>11, BearsBoth, TellsOn, SpeaksOn

\* Where the ids of b come from: each is of the key that lists it, or one of those in W, which b has all of, or passed to
\* the key with it, as O says; those that passed to a key are with the key, or revoked.
Traced(b, W, O, time) ==
    /\ InForce(W, time) \subseteq AllIds(b)
    /\ \A r \in b.rows : \A i \in r.ids : i.key = r.node \/ i \in W \cup O[r.node]
    /\ \A k \in b.keys : InForce(O[k], time) \subseteq b.ids
    /\ \A r \in b.rows : InForce(O[r.node], time) \subseteq b.ids \cup r.ids
TracedIn(u, W, O, time) == u # None => Traced(u, W, O, time)

\* A standing of a list that the records speak of is in them, or its key is revoked.
LEMMA SpeaksTraced ==
    ASSUME NEW f, NEW u, NEW time, NEW now \in Nat, time \in Nat, time <= now, u.rows \in SUBSET Row,
           Speaks(f, u, time), NEW W, NEW O, Traced(f, W, O, now), Traced(u, W, O, now)
    PROVE  \A i \in InForce(AllIds(u), now) : i \in Standing => i \in AllIds(f) \/ i.key \in f.keys
<1>1. ASSUME NEW S PROVE InForce(S, now) \subseteq InForce(S, time) \cup (S \ Standing)
    BY DEF InForce, Standing
<1>2. ASSUME NEW m \in u.rows, NEW i \in m.ids, i \in InForce(AllIds(u), now), i \in Standing
      PROVE  i \in AllIds(f) \/ i.key \in f.keys
    <2>1. i \in InForce(m.ids, time) /\ i.ends > now
        BY <1>2 DEF InForce, Standing
    <2>2. CASE m.node \notin f.keys
        BY <2>1, <2>2 DEF Speaks
    <2>3. CASE m.node \in f.keys
        <3>1. i.key = m.node \/ i \in W \/ i \in O[m.node]
            BY DEF Traced
        <3>2. i \in W => i \in AllIds(f)
            BY <2>1 DEF Traced, InForce
        <3>3. i \in O[m.node] => i \in f.ids
            BY <2>1, <2>3 DEF Traced, InForce
        <3> QED BY <2>3, <3>1, <3>2, <3>3 DEF AllIds
    <2> QED BY <2>2, <2>3
<1>3. ASSUME NEW i \in u.ids, i \in InForce(AllIds(u), now), i \in Standing PROVE i \in AllIds(f)
    BY <1>1, <1>3 DEF Speaks, Tells, AllIds, InForce
<1> QED BY <1>2, <1>3 DEF AllIds, InForce

\* Records over traced ones, with rows and keys of a traced list, are traced.
LEMMA OverTraced ==
    ASSUME NEW f, f.rows \in SUBSET Row, OneEach(f.rows), f.keys \subseteq Key, NEW b, IsBook(b),
           NEW u, IsList(u), NEW rows \in SUBSET RowsIn(u), NEW keys, keys \subseteq KeysIn(u),
           NEW time \in Nat, NEW now \in Nat, time <= now,
           Over(f, b, rows, keys, time), u # None => Tells(f, u, time),
           NEW W, NEW O, Traced(b, W, O, now), TracedIn(u, W, O, now),
           W \subseteq Standing, \A k \in Key : O[k] \subseteq Standing
    PROVE  Traced(f, W, O, now)
<1>1. ASSUME NEW S \in SUBSET Standing, NEW T, InForce(S, time) \subseteq T PROVE InForce(S, now) \subseteq T
    BY <1>1 DEF InForce, Standing
<1>2. /\ b.ids \in SUBSET Standing /\ b.rows \in SUBSET Row /\ f.rows \in SUBSET Row /\ OneEach(f.rows)
      /\ b.keys \subseteq Key /\ f.keys \subseteq Key
    BY DEF IsBook, Records, Sorted
<1>3. ASSUME u # None PROVE u.ids \in SUBSET Standing /\ u.rows \in SUBSET Row
    BY <1>3 DEF IsList, Update
<1>4. InForce(b.ids, now) \subseteq f.ids
    BY <1>1, <1>2 DEF Over
<1>5. InForce(W, now) \subseteq AllIds(f)
    <2>1. AllIds(b) \in SUBSET Standing
        BY <1>2 DEF AllIds, Row
    <2>2. InForce(AllIds(b), now) \subseteq AllIds(f)
        BY <1>1, <2>1, OverBears DEF Bears
    <2> QED BY <2>2 DEF Traced, InForce
<1>6. ASSUME NEW x \in f.rows, NEW i \in x.ids PROVE i.key = x.node \/ i \in W \cup O[x.node]
    <2>1. PICK r \in b.rows \cup rows : r.node = x.node /\ i \in r.ids
        BY DEF Over
    <2>2. CASE r \in b.rows
        BY <2>1, <2>2 DEF Traced
    <2>3. CASE r \in rows
        BY <2>1, <2>3 DEF TracedIn, Traced, RowsIn
    <2> QED BY <2>2, <2>3
\* Of a key that b lists, what passed to it is with its row, or revoked.
<1>7. ASSUME NEW r \in b.rows, NEW i \in InForce(O[r.node], now)
      PROVE  i \in f.ids \/ \E x \in f.rows : x.node = r.node /\ i \in x.ids
    <2>1. i \in b.ids \cup r.ids /\ i \in Standing /\ i.ends > now
        BY <1>2, <1>7 DEF Traced, InForce, Row
    <2>2. CASE i \in b.ids
        BY <1>4, <2>1, <2>2 DEF InForce
    <2>3. CASE i \in r.ids
        <3>1. i \in InForce(r.ids, time)
            BY <2>1, <2>3 DEF InForce, Standing
        <3> QED BY <3>1 DEF Over
    <2> QED BY <2>1, <2>2, <2>3
\* Of a key that the list revokes, it is revoked.
<1>8. ASSUME u # None, NEW S \in SUBSET Standing, NEW T, InForce(S, now) \subseteq u.ids \cup T
      PROVE  InForce(S, now) \subseteq f.ids \cup InForce(T, now)
    <2>1. InForce(u.ids, now) \subseteq f.ids
        BY <1>1, <1>3, <1>8 DEF Tells
    <2> QED BY <1>8, <2>1 DEF InForce
<1>9. ASSUME NEW k \in f.keys PROVE InForce(O[k], now) \subseteq f.ids
    <2>1. k \in b.keys \/ k \in keys \/ (k \in Nodes(b.rows) /\ k \notin Nodes(f.rows))
        BY DEF Over
    <2>2. CASE k \in b.keys
        <3>1. InForce(O[k], now) \subseteq b.ids
            BY <2>2 DEF Traced
        <3> QED BY <1>4, <3>1 DEF InForce
    <2>3. CASE k \in keys
        <3>1. u # None /\ k \in u.keys
            BY <2>3 DEF KeysIn
        <3>2. InForce(O[k], now) \subseteq u.ids \cup {}
            BY <3>1 DEF TracedIn, Traced
        <3>3. InForce(O[k], now) \subseteq f.ids \cup InForce({}, now)
            BY <1>2, <1>8, <3>1, <3>2
        <3> QED BY <3>3 DEF InForce
    <2>4. CASE k \in Nodes(b.rows) /\ k \notin Nodes(f.rows)
        BY <1>7, <2>4 DEF Nodes
    <2> QED BY <2>1, <2>2, <2>3, <2>4
<1>10. ASSUME NEW x \in f.rows PROVE InForce(O[x.node], now) \subseteq f.ids \cup x.ids
    <2>1. CASE x.node \in Nodes(b.rows)
        <3>1. PICK r \in b.rows : r.node = x.node
            BY <2>1 DEF Nodes
        <3>2. \A y \in f.rows : y.node = x.node => y = x
            BY <1>2 DEF OneEach
        <3> QED BY <1>7, <3>1, <3>2
    <2>2. ASSUME NEW m \in rows, m.node = x.node, InForce(m.ids, time) \subseteq x.ids
          PROVE  InForce(O[x.node], now) \subseteq f.ids \cup x.ids
        <3>1. u # None /\ m \in u.rows
            BY DEF RowsIn
        <3>2. InForce(O[x.node], now) \subseteq u.ids \cup m.ids
            BY <2>2, <3>1 DEF TracedIn, Traced
        <3>3. InForce(O[x.node], now) \subseteq f.ids \cup InForce(m.ids, now)
            <4>1. O[x.node] \in SUBSET Standing
                BY <1>2 DEF Row
            <4> QED BY <1>8, <3>1, <3>2, <4>1
        <3>4. InForce(m.ids, now) \subseteq x.ids
            BY <1>1, <1>3, <2>2, <3>1 DEF Row
        <3> QED BY <3>3, <3>4
    <2> QED BY <2>1, <2>2 DEF Over
<1> QED BY <1>5, <1>6, <1>9, <1>10 DEF Traced

\* Book::forward keeps track.
LEMMA ForwardTraced ==
    ASSUME NEW b, IsBook(b), NEW held, IsList(held), NEW fork, IsList(fork), NEW refused,
           NEW own \in Key, NEW time \in Nat, NEW now \in Nat, time <= now,
           NEW W, NEW O, Traced(b, W, O, now), TracedIn(held, W, O, now), TracedIn(fork, W, O, now),
           W \subseteq Standing, \A k \in Key : O[k] \subseteq Standing
    PROVE  Traced(Forward(b, held, fork, refused, own, time), W, O, now)
<1> DEFINE floor == Later(Number(held), b.number)
           first == Take(b, held, b.number, own, time)
           second == Take(first, fork, floor, own, time)
           brought == IF Behind(b, held, fork) THEN second ELSE b
           carried == CarryForward(brought, held, refused)
           followed == FollowKeys(carried, time)
           one == MarkListed(followed, held)
           two == MarkListed(one, fork)
<1>1. Forward(b, held, fork, refused, own, time) = two
    BY DEF Forward
<1>2. b.number \in Nat /\ Number(held) \in Nat /\ floor \in Nat
    BY DEF IsBook, Records, IsList, Update, Number, Later
<1>3. IsBook(first)
    BY <1>2, TakeParts DEF TakenFrom
<1>4. Traced(first, W, O, now)
    <2>1. /\ \E rows \in SUBSET RowsIn(held) : Over(first, b, rows, KeysIn(held), time)
          /\ held # None => Tells(first, held, time)
        BY <1>2, TakeOver
    <2> HIDE DEF first
    <2> QED BY <1>3, <2>1, OverTraced DEF IsBook, Records, Sorted
<1> HIDE DEF first, floor
<1>5. IsBook(second)
    BY <1>2, <1>3, TakeParts DEF TakenFrom
<1>6. Traced(second, W, O, now)
    <2>1. /\ \E rows \in SUBSET RowsIn(fork) : Over(second, first, rows, KeysIn(fork), time)
          /\ fork # None => Tells(second, fork, time)
        BY <1>2, <1>3, TakeOver
    <2> HIDE DEF second
    <2> QED BY <1>3, <1>4, <1>5, <2>1, OverTraced DEF IsBook, Records, Sorted
<1> HIDE DEF second
<1>7. IsBook(brought) /\ Traced(brought, W, O, now)
    BY <1>5, <1>6
<1> HIDE DEF brought
<1>8. carried \in Records /\ carried.rows = brought.rows
    BY <1>7, CarryForwardParts DEF IsBook
<1>9. followed \in Records /\ IsBook(followed)
    BY <1>7, <1>8, FollowKeysParts, FollowedBook DEF IsBook
<1>10. Traced(followed, W, O, now)
    <2>1. Over(followed, brought, {}, {}, time)
        BY <1>7, CarryForwardOver
    <2> HIDE DEF followed
    <2>2. IsList(None) /\ TracedIn(None, W, O, now)
        BY DEF IsList, TracedIn
    <2> QED BY <1>7, <1>9, <2>1, <2>2, OverTraced DEF IsBook, Records, Sorted
<1> HIDE DEF carried, followed
<1>11. one.rows = followed.rows /\ one.ids = followed.ids /\ one.keys = followed.keys /\ one \in Records
    <2>1. one \in Records
        BY <1>9, MarkListedParts
    <2> QED BY <1>9, <2>1 DEF MarkListed, Records
<1> HIDE DEF one
<1>12. two.rows = followed.rows /\ two.ids = followed.ids /\ two.keys = followed.keys
    BY <1>11 DEF MarkListed, Records
<1> HIDE DEF two
<1>13. Traced(two, W, O, now)
    BY <1>10, <1>12 DEF Traced, AllIds
<1> QED BY <1>1, <1>13

\* The records as an update: nothing in force is lost.
LEMMA CutOver ==
    ASSUME NEW b \in Records, NEW number, NEW time
    PROVE  Over(Cut(b, number, time), b, {}, {}, time)
<1> DEFINE Pruned(r) == [r EXCEPT !.ids = InForce(@, time)]
           c == Cut(b, number, time)
<1>1. \A r \in b.rows : Pruned(r).node = r.node /\ Pruned(r).ids = InForce(r.ids, time)
    BY DEF Records, Row
<1>2. c.rows = {Pruned(r) : r \in b.rows} /\ c.ids = InForce(b.ids, time) /\ c.keys = b.keys
    BY DEF Cut
<1> HIDE DEF c, Pruned
<1>3. Over(c, b, {}, {}, time)
    <2>1. ASSUME NEW r \in b.rows, NEW i \in InForce(r.ids, time) PROVE \E x \in c.rows : x.node = r.node /\ i \in x.ids
        BY <1>1, <1>2
    <2>2. \A x \in c.rows : \E r \in b.rows : r.node = x.node /\ x.ids = InForce(r.ids, time)
        BY <1>1, <1>2
    <2> QED BY <1>2, <2>1, <2>2 DEF Over, InForce, Nodes
<1> QED BY <1>3 DEF c

\* The rows the records mark are of keys they revoke.
Marks(b) == Nodes(b.marked) \subseteq b.keys

LEMMA FollowKeysMarks ==
    ASSUME NEW b, DOMAIN b = Fields, Marks(b), NEW time
    PROVE  Marks(FollowKeys(b, time))
BY FollowKeysFields DEF Marks, Nodes

LEMMA TakeMarks ==
    ASSUME NEW b, IsBook(b), Marks(b), NEW u, NEW floor, NEW own, NEW time
    PROVE  Marks(Take(b, u, floor, own, time))
<1> DEFINE told == BringRevocations(b, u, time)
           keys == told.keys \cup Revoked(b, u, own)
<1>1. /\ told.marked = b.marked /\ told.keys = b.keys \cup u.keys /\ DOMAIN told = Fields
    BY DEF BringRevocations, IsBook, Records, Fields
<1> HIDE DEF told
<1>2. ASSUME NEW number, NEW ids, NEW rows
      PROVE  Marks(FollowKeys([told EXCEPT !.number = number, !.keys = keys, !.ids = ids, !.rows = rows], time))
    <2> DEFINE t == [told EXCEPT !.number = number, !.keys = keys, !.ids = ids, !.rows = rows]
    <2> HIDE DEF keys
    <2>1. DOMAIN t = Fields /\ t.marked = b.marked /\ t.keys = keys
        BY <1>1 DEF Fields
    <2> HIDE DEF t
    <2>2. Marks(t)
        BY <1>1, <2>1 DEF Marks, keys
    <2>3. Marks(FollowKeys(t, time))
        BY <2>1, <2>2, FollowKeysMarks
    <2> QED BY <2>3 DEF t
<1>3. Marks(BringForward(b, u, own, time))
    BY <1>2 DEF BringForward, told
<1>4. Marks(told)
    BY <1>1 DEF Marks
<1> QED BY <1>3, <1>4 DEF Take, told

LEMMA MarkListedMarks ==
    ASSUME NEW b \in Records, Marks(b), NEW u, IsList(u)
    PROVE  Marks(MarkListed(b, u))
<1>1. MarkListed(b, u).keys = b.keys
    BY DEF MarkListed, Records
<1>2. \A m \in MarkListed(b, u).marked : m \in b.marked \/ m.node \in b.keys
    BY DEF MarkListed, Records
<1> QED BY <1>1, <1>2 DEF Marks, Nodes

LEMMA ForwardMarks ==
    ASSUME NEW b, IsBook(b), Marks(b), NEW held, IsList(held), NEW fork, IsList(fork), NEW refused,
           NEW own \in Key, NEW time \in Nat
    PROVE  Marks(Forward(b, held, fork, refused, own, time))
<1> DEFINE floor == Later(Number(held), b.number)
           first == Take(b, held, b.number, own, time)
           second == Take(first, fork, floor, own, time)
           brought == IF Behind(b, held, fork) THEN second ELSE b
           carried == CarryForward(brought, held, refused)
           followed == FollowKeys(carried, time)
           one == MarkListed(followed, held)
           two == MarkListed(one, fork)
<1>1. Forward(b, held, fork, refused, own, time) = two
    BY DEF Forward
<1>2. b.number \in Nat /\ Number(held) \in Nat /\ floor \in Nat
    BY DEF IsBook, Records, IsList, Update, Number, Later
<1>3. IsBook(first) /\ Marks(first)
    BY <1>2, TakeParts, TakeMarks DEF TakenFrom
<1> HIDE DEF first, floor
<1>4. IsBook(second) /\ Marks(second)
    BY <1>2, <1>3, TakeParts, TakeMarks DEF TakenFrom
<1> HIDE DEF second
<1>5. IsBook(brought) /\ Marks(brought)
    BY <1>4
<1> HIDE DEF brought
<1>6. carried \in Records /\ Marks(carried)
    BY <1>5, CarryForwardParts DEF IsBook, Marks
<1> HIDE DEF carried
<1>7. followed \in Records /\ Marks(followed)
    <2>1. DOMAIN carried = Fields
        BY <1>6 DEF Records, Fields
    <2> QED BY <1>6, <2>1, FollowKeysParts, FollowKeysMarks
<1> HIDE DEF followed
<1>8. one \in Records /\ Marks(one)
    BY <1>7, MarkListedParts, MarkListedMarks
<1> HIDE DEF one
<1> QED BY <1>1, <1>8, MarkListedMarks
=============================================================================
