---------------------------- MODULE RootActProofs ----------------------------
(***************************************************************************)
(* What RootAct proves for any machines, copies and acts, and any list     *)
(* they start from: an inductive invariant, and from it that the records   *)
(* an act works on are sound and never turn its machine's root against     *)
(* itself, that its cut is the newest its home has seen, that a revoke     *)
(* that commits revokes the key it was asked for, and that the standing an *)
(* act signs and hands out is in the list it commits.                      *)
(*                                                                         *)
(* The last part proves that a cut undoes nothing its home holds.  A       *)
(* second invariant follows every standing through the records: those the  *)
(* lists started from and those of a row that passed to a new key (Stays), *)
(* for any other is listed or revoked with its key.  A third has what the  *)
(* acts were given no higher than what their homes hold (Levels).          *)
(***************************************************************************)
EXTENDS RootAct, BookProofs

\* Every list that a home, a copy or an act has is well formed.
Lists ==
    /\ \A h \in Home : IsList(devices[h]) /\ IsList(conflict[h])
    /\ \A d \in Dir : IsList(copy[d])
    /\ \A a \in Act : IsList(list[a]) /\ IsList(held[a]) /\ IsList(fork[a]) /\ IsList(cut[a])

\* The records of every act are whole, and sound from the moment it reads them.
Books == \A a \in Act : IsBook(book[a]) /\ Sound(a, book[a])

\* A device due to renew is listed, with room for another id.
Room ==
    \A a \in Act : at[a] = "unlocked" =>
        /\ due[a] \subseteq Nodes(book[a].rows)
        /\ \A r \in book[a].rows : r.node \in due[a] => Cardinality(InForce(r.ids, began[a])) < MaxIds

\* What an act was asked is what it may be asked; the one device a revoke saw is not this machine.
Aims ==
    \A a \in Act : at[a] # "idle" =>
        IF ask[a].verb = "revoke" THEN ask[a].key # OwnKey(a) /\ seen[a] = {ask[a].key} ELSE ask[a] \in Asks[a]

\* No machine refuses its own key.
Spared ==
    /\ \A h \in Home : Own[h] \notin refused[h]
    /\ \A a \in Act : OwnKey(a) \notin block[a]

\* The records of an act revoke its machine only if a list it was given does.
OwnKept ==
    \A a \in Act : OwnKey(a) \in book[a].keys =>
        OwnKey(a) \in KeysIn(list[a]) \cup KeysIn(held[a]) \cup KeysIn(fork[a])

Unsigned == {"idle", "found", "blocked", "prompt", "unlocked", "refused"}

Mentions(u) == NodesIn(u) \cup KeysIn(u)
BookMentions(b) == Nodes(b.rows) \cup Nodes(b.marked) \cup b.keys

\* Until the act that makes it has signed, a new key is nowhere.
Fresh ==
    \A a \in Act : at[a] \in Unsigned => \A k \in NewKey(a) :
        /\ \A h \in Home : k \notin Mentions(devices[h]) \cup Mentions(conflict[h])
        /\ \A d \in Dir : k \notin Mentions(copy[d])
        /\ \A b \in Act : k \notin BookMentions(book[b]) \cup Mentions(cut[b])

\* An act that folds its cut has the lock of its home; until its commit it has no cut.
Locked ==
    \A a \in Act : /\ at[a] = "folding" => lock[Runs[a]] = a /\ cut[a] # None
                   /\ at[a] \in Unsigned \cup {"signed"} => cut[a] = None

\* Up to its prompt an act was given no list but the one beside the key.
Unread == \A a \in Act : at[a] \in {"idle", "found", "blocked", "prompt"} => held[a] = None /\ fork[a] = None

\* The records of an act past its prompt are numbered no lower than what it was given there.
Numbered == \A a \in Act : at[a] \in {"unlocked", "signed"} => book[a].number >= Number(held[a])

\* A revoke that signed revokes its key, and lists the name no more.
Revoking ==
    \A a \in Act : at[a] = "signed" /\ ask[a].verb = "revoke" =>
        ask[a].key \in book[a].keys /\ ask[a].name \notin Labels(book[a].rows)

\* A revoke that committed revoked its key, and the list it cut has no device of the name.
KeyRevoked ==
    \A a \in Act : ask[a].verb = "revoke" =>
        /\ Committed(a) => ask[a].key \in cut[a].keys
        /\ at[a] = "folding" => ask[a].name \notin Labels(cut[a].rows)

\* The device an act has signed for is one it made or touched, and is in its records.
Handing ==
    \A a \in Act : at[a] = "signed" /\ given[a] # None =>
        given[a].key \in made[a] \cup touched[a] /\ given[a].key \in Nodes(book[a].rows)

\* The list an act cuts names the device it signed for, and does not revoke its key.
HandsListed ==
    \A a \in Act : at[a] = "folding" /\ given[a] # None =>
        given[a].key \notin cut[a].keys /\ given[a].key \in Nodes(cut[a].rows)

\* The keys the records b list or revoke.
Spoken(b) == Nodes(b.rows) \cup b.keys

\* Until its prompt is answered the records of an act are the list beside the key.
Opened == \A a \in Act : at[a] = "prompt" => book[a] = BookOf(list[a])

\* Past its prompt the records of an act are numbered like one of the lists it was given, its home holds what it held
\* then or a later update, and a revoke speaks of every device of the list beside the key, and of the update held when
\* that was ahead of it.
Gathered ==
    \A a \in Act : at[a] \in {"unlocked", "signed"} =>
        /\ book[a].number \in {Number(list[a]), Number(held[a]), Number(fork[a])}
        /\ devices[Runs[a]] = held[a] \/ devices[Runs[a]].number > Number(held[a])
        /\ ask[a].verb = "revoke" =>
              /\ NodesIn(list[a]) \subseteq Spoken(book[a])
              /\ Number(held[a]) > Number(list[a]) => NodesIn(held[a]) \subseteq Spoken(book[a])

\* The list an act commits is past the one beside the key, or is it, and past the fork it was given.
Past(a) ==
    /\ list[a] = cut[a] \/ Number(list[a]) < cut[a].number
    /\ fork[a] = None \/ held[a] = cut[a] \/ Number(fork[a]) < cut[a].number

\* The list a revoke commits has no device of the name, if it is past the lists the revoke was given.
NameGone ==
    \A a \in Act : Committed(a) /\ ask[a].verb = "revoke" /\ Past(a) => ask[a].name \notin Labels(cut[a].rows)

\* None of the standings in S was signed by a.
Foreign(S, a) == \A i \in S \cap Standing : i.by # a

\* No list, no refusal and no other act's records speak of a standing a signed.
Unspoken(a) ==
    /\ \A h \in Home : Foreign(IdsIn(devices[h]), a) /\ Foreign(IdsIn(conflict[h]), a) /\ Foreign(refused[h], a)
    /\ \A d \in Dir : Foreign(IdsIn(copy[d]), a)
    /\ \A b \in Act : Foreign(IdsIn(cut[b]), a) /\ Foreign(block[b], a)
    /\ \A b \in Act \ {a} : Foreign(Ids(book[b]), a)

\* What a has signed so far it signed for the row's own key, and its records revoke none of it.
SignsOwn(a) ==
    /\ Foreign(book[a].ids, a)
    /\ \A r \in book[a].rows : \A i \in r.ids : i.by = a => i.key = r.node

\* Until its commit nobody knows of a standing that an act signed, and up to its prompt it has signed none.
Unsaid ==
    \A a \in Act : at[a] \in Unsigned \cup {"signed"} =>
        /\ Unspoken(a)
        /\ at[a] \in {"idle", "found", "blocked", "prompt"} => Foreign(Ids(book[a]), a)
        /\ at[a] = "unlocked" => SignsOwn(a)

\* The standing an act signed for the device asked for is in that device's row, under the name asked for, and in no
\* other, and its records do not revoke it.
GivenTo(a) ==
    /\ given[a] = Signed(a, given[a].key) /\ given[a] \notin book[a].ids
    /\ \E r \in book[a].rows : r.node = given[a].key /\ r.label = ask[a].name /\ given[a] \in r.ids
    /\ \A r \in book[a].rows : given[a] \in r.ids => r.node = given[a].key
GivenListed == \A a \in Act : at[a] = "signed" /\ given[a] # None => GivenTo(a)

\* The device an act signed for is in the list it committed, not revoked there, with the standing it was handed unless
\* as many ids are listed for it as an update has room for.
HandedKept ==
    \A a \in Act : Committed(a) /\ given[a] # None /\ given[a].by = a =>
        /\ given[a].key \notin cut[a].keys
        /\ \E r \in cut[a].rows :
              /\ r.node = given[a].key
              /\ r.label = ask[a].name \/ r.node = OwnKey(a)
              /\ (given[a] \in r.ids /\ given[a] \notin cut[a].ids) \/ Cardinality(r.ids) >= MaxIds

IInv ==
    /\ TypeOK /\ Lists /\ Books /\ Room /\ Aims /\ Spared /\ OwnKept /\ Fresh /\ Locked /\ Unread
    /\ Numbered /\ CutIsNewest /\ OwnNotFirst /\ Revoking /\ KeyRevoked /\ Handing /\ HandsListed
    /\ Opened /\ Gathered /\ NameGone /\ Unsaid /\ GivenListed /\ HandedKept

-----------------------------------------------------------------------------
(* What an act signs. *)

LEMMA SignedType ==
    ASSUME NEW a \in Act, began[a] \in Nat, NEW key \in Key
    PROVE  Signed(a, key) \in Standing
<1>1. a \in Signer /\ Term \in Nat
    BY ActAssumption, BookAssumption
<1> QED BY <1>1 DEF Signed, Standing

\* The records f are b with a row of key added, and one row renamed perhaps.
AddedTo(f, b, key) ==
    /\ IsBook(f) /\ Within(f.rows, b.rows)
    /\ f.number = b.number /\ f.keys = b.keys /\ f.marked = b.marked
    /\ Nodes(f.rows) = Nodes(b.rows) \cup {key}
    /\ \A x \in f.rows : x.node # key => \E r \in b.rows : r.node = x.node /\ r.ids = x.ids

\* sign_standing: the added row is the only one of its key and of its name.
LEMMA WithRowParts ==
    ASSUME NEW a \in Act, began[a] \in Nat, NEW b, IsBook(b), NEW key \in Key, key \notin Nodes(b.rows),
           NEW name \in Name, NEW seeded \in BOOLEAN
    PROVE  AddedTo(WithRow(a, b, key, name, seeded), b, key)
<1> DEFINE i == Signed(a, key)
           OffIt(r) == IF r.label = name THEN [r EXCEPT !.label = FreshName(b.rows)] ELSE r
           added == [node |-> key, label |-> name, standing |-> i, ids |-> {i}, seeded |-> seeded]
           rows == {OffIt(r) : r \in b.rows} \cup {added}
           f == WithRow(a, b, key, name, seeded)
<1>1. b \in Records /\ b.rows \in SUBSET Row /\ OneEach(b.rows) /\ \A r \in b.rows : IsFiniteSet(r.ids)
    BY DEF IsBook, Records, Sorted
<1>2. i \in Standing
    BY SignedType
<1> DEFINE fresh == FreshName(b.rows)
<1>3. fresh \in Name /\ fresh \notin Labels(b.rows)
    <2>1. OneEach({}) /\ b.rows \cup {} = b.rows
        BY DEF OneEach
    <2> QED BY <1>1, <2>1, FreshNamed
<1> HIDE DEF fresh
<1>4. ASSUME NEW r \in b.rows
      PROVE  /\ OffIt(r) \in Row /\ OffIt(r).node = r.node /\ OffIt(r).ids = r.ids
             /\ OffIt(r).label = IF r.label = name THEN fresh ELSE r.label
    BY <1>1, <1>3 DEF Row, fresh
<1>5. /\ added \in Row /\ added.node = key /\ added.label = name /\ IsFiniteSet(added.ids)
      /\ Cardinality(added.ids) <= MaxIds
    <2> HIDE DEF i
    <2>1. IsFiniteSet({i}) /\ Cardinality({i}) <= MaxIds
        <3>1. IsFiniteSet({i}) /\ Cardinality({i}) = 1
            BY FS_Singleton
        <3> QED BY <3>1, BookAssumption
    <2> QED BY <1>2, <2>1 DEF Row
<1> HIDE DEF OffIt, added
<1>6. rows \in SUBSET Row /\ Nodes(rows) = Nodes(b.rows) \cup {key}
    BY <1>4, <1>5 DEF Nodes
<1>7. ASSUME NEW r \in b.rows, NEW q \in b.rows, OffIt(r).node = OffIt(q).node \/ OffIt(r).label = OffIt(q).label
      PROVE  r = q
    BY <1>1, <1>3, <1>4, <1>7 DEF OneEach, Labels
<1>8. ASSUME NEW r \in b.rows, OffIt(r).node = key \/ OffIt(r).label = name PROVE FALSE
    BY <1>3, <1>4, <1>8 DEF Nodes, Labels
<1>9. Sorted(rows) /\ Within(rows, b.rows)
    <2>1. OneEach(rows)
        BY <1>5, <1>7, <1>8 DEF OneEach
    <2> QED BY <1>1, <1>4, <1>5, <2>1 DEF Sorted, Within
<1>10. \A x \in rows : x.node # key => \E r \in b.rows : r.node = x.node /\ r.ids = x.ids
    BY <1>4, <1>5
<1>11. f = [b EXCEPT !.rows = rows]
    BY DEF WithRow, OffIt, added
<1> HIDE DEF rows, f
<1>12. f \in Records /\ f.rows = rows /\ f.number = b.number /\ f.keys = b.keys /\ f.marked = b.marked
    BY <1>1, <1>6, <1>11 DEF Records
<1>13. AddedTo(f, b, key)
    BY <1>6, <1>9, <1>10, <1>12 DEF AddedTo, IsBook
<1> QED BY <1>13 DEF f

\* renew_row: a renewed row has one more id than it had in force, and the others are as they were.
LEMMA WithRenewedParts ==
    ASSUME NEW a \in Act, began[a] \in Nat, NEW b, IsBook(b), NEW keys
    PROVE  LET f == WithRenewed(a, b, keys)
           IN  /\ IsBook(f)
               /\ f.number = b.number /\ f.keys = b.keys /\ f.marked = b.marked
               /\ Nodes(f.rows) = Nodes(b.rows) /\ Labels(f.rows) = Labels(b.rows)
               /\ \A x \in f.rows : \E r \in b.rows :
                     /\ x.node = r.node
                     /\ IF r.node \in keys THEN Cardinality(x.ids) <= Cardinality(InForce(r.ids, began[a])) + 1
                        ELSE x.ids = r.ids
<1> DEFINE Renewed(r) == [r EXCEPT !.standing = Signed(a, r.node),
                                   !.ids = InForce(@, began[a]) \cup {Signed(a, r.node)}]
           Kept(r) == IF r.node \in keys THEN Renewed(r) ELSE r
           rows == {Kept(r) : r \in b.rows}
           f == WithRenewed(a, b, keys)
<1>1. b \in Records /\ b.rows \in SUBSET Row /\ OneEach(b.rows) /\ \A r \in b.rows : IsFiniteSet(r.ids)
    BY DEF IsBook, Records, Sorted
<1>2. ASSUME NEW r \in b.rows
      PROVE  /\ Kept(r) \in Row /\ Kept(r).node = r.node /\ Kept(r).label = r.label /\ IsFiniteSet(Kept(r).ids)
             /\ IF r.node \in keys THEN Cardinality(Kept(r).ids) <= Cardinality(InForce(r.ids, began[a])) + 1
                ELSE Kept(r).ids = r.ids
    <2> DEFINE ids == InForce(r.ids, began[a])
    <2>1. r \in Row /\ r.node \in Key /\ r.ids \in SUBSET Standing /\ Signed(a, r.node) \in Standing
        BY <1>1, SignedType DEF Row
    <2>2. ids \in SUBSET Standing /\ IsFiniteSet(ids)
        BY <1>1, <2>1, InForceSome
    <2>3. /\ IsFiniteSet(ids \cup {Signed(a, r.node)})
          /\ Cardinality(ids \cup {Signed(a, r.node)}) <= Cardinality(ids) + 1
        <3> HIDE DEF ids
        <3>1. Cardinality(ids) \in Nat
            BY <2>2, FS_CardinalityType
        <3>2. /\ IsFiniteSet(ids \cup {Signed(a, r.node)})
              /\ Cardinality(ids \cup {Signed(a, r.node)}) =
                   IF Signed(a, r.node) \in ids THEN Cardinality(ids) ELSE Cardinality(ids) + 1
            BY <2>2, FS_AddElement
        <3> QED BY <3>1, <3>2
    <2>4. CASE r.node \in keys
        <3>1. Kept(r) = [r EXCEPT !.standing = Signed(a, r.node), !.ids = ids \cup {Signed(a, r.node)}]
            BY <2>4
        <3> HIDE DEF Kept, ids
        <3>2. Kept(r) \in Row /\ Kept(r).node = r.node /\ Kept(r).label = r.label
            BY <2>1, <2>2, <3>1 DEF Row
        <3>3. Kept(r).ids = ids \cup {Signed(a, r.node)}
            BY <2>1, <3>1 DEF Row
        <3> QED BY <2>3, <2>4, <3>2, <3>3 DEF ids
    <2>5. CASE r.node \notin keys
        BY <1>1, <2>1, <2>5
    <2> QED BY <2>4, <2>5
<1>3. f = [b EXCEPT !.rows = rows]
    BY DEF WithRenewed
<1> HIDE DEF Kept
<1>4. rows \in SUBSET Row /\ Nodes(rows) = Nodes(b.rows) /\ Labels(rows) = Labels(b.rows)
    BY <1>2 DEF Nodes, Labels
<1>5. Sorted(rows)
    BY <1>1, <1>2 DEF Sorted, OneEach
<1>6. \A x \in rows : \E r \in b.rows :
         /\ x.node = r.node
         /\ IF r.node \in keys THEN Cardinality(x.ids) <= Cardinality(InForce(r.ids, began[a])) + 1
            ELSE x.ids = r.ids
    BY <1>2
<1> HIDE DEF rows, f
<1>7. f \in Records /\ f.rows = rows /\ f.number = b.number /\ f.keys = b.keys /\ f.marked = b.marked
    BY <1>1, <1>3, <1>4 DEF Records
<1> QED BY <1>4, <1>5, <1>6, <1>7 DEF IsBook, f

\* rekey: the row of the name passes to a key that no row has.
RekeyedFrom(f, b, key) ==
    /\ IsBook(f) /\ Within(f.rows, b.rows)
    /\ f.number = b.number /\ f.keys = b.keys /\ f.marked = b.marked
    /\ Nodes(f.rows) \subseteq Nodes(b.rows) \cup {key} /\ key \in Nodes(f.rows)
    /\ \A x \in f.rows : x.node # key => x \in b.rows

LEMMA RekeyedParts ==
    ASSUME NEW a \in Act, began[a] \in Nat, NEW b, IsBook(b), NEW name \in Labels(b.rows),
           NEW key \in Key, key \notin Nodes(b.rows),
           Cardinality(InForce(RowNamed(b.rows, name).ids, began[a])) < MaxIds
    PROVE  RekeyedFrom(Rekeyed(a, b, name, key), b, key)
<1> DEFINE r == RowNamed(b.rows, name)
           ids == InForce(r.ids, began[a])
           i == Signed(a, key)
           moved == [r EXCEPT !.node = key, !.standing = i, !.ids = ids \cup {i}]
           rows == (b.rows \ {r}) \cup {moved}
           f == Rekeyed(a, b, name, key)
<1>1. b \in Records /\ b.rows \in SUBSET Row /\ OneEach(b.rows) /\ \A q \in b.rows : IsFiniteSet(q.ids)
    BY DEF IsBook, Records, Sorted
<1>2. r \in b.rows /\ r.label = name /\ r \in Row /\ r.ids \in SUBSET Standing /\ i \in Standing
    BY <1>1, RowNamedIn, SignedType DEF Row
<1>3. /\ ids \in SUBSET Standing /\ IsFiniteSet(ids \cup {i}) /\ Cardinality(ids \cup {i}) <= MaxIds
    <2>1. ids \in SUBSET Standing /\ IsFiniteSet(ids)
        BY <1>1, <1>2, InForceSome
    <2>2. Cardinality(ids) \in Nat /\ IsFiniteSet(ids \cup {i}) /\ Cardinality(ids \cup {i}) <= Cardinality(ids) + 1
        <3> HIDE DEF ids, i
        <3>1. Cardinality(ids) \in Nat
            BY <2>1, FS_CardinalityType
        <3>2. /\ IsFiniteSet(ids \cup {i})
              /\ Cardinality(ids \cup {i}) = IF i \in ids THEN Cardinality(ids) ELSE Cardinality(ids) + 1
            BY <2>1, FS_AddElement
        <3> QED BY <3>1, <3>2
    <2>3. Cardinality(ids) < MaxIds
        OBVIOUS
    <2> HIDE DEF ids, i
    <2>4. Cardinality(ids \cup {i}) \in Nat
        BY <2>2, FS_CardinalityType
    <2> QED BY <2>1, <2>2, <2>3, <2>4, BookAssumption
<1>4. f = [b EXCEPT !.rows = rows]
    BY DEF Rekeyed
<1> HIDE DEF i, ids, r
<1>5. moved \in Row /\ moved.node = key /\ moved.label = name /\ moved.ids = ids \cup {i}
    BY <1>2, <1>3 DEF Row
<1> HIDE DEF moved
<1>6. /\ rows \in SUBSET Row /\ Nodes(rows) \subseteq Nodes(b.rows) \cup {key} /\ key \in Nodes(rows)
      /\ \A x \in rows : x.node # key => x \in b.rows
    BY <1>1, <1>5 DEF Nodes
<1>7. OneEach(rows)
    <2>1. ASSUME NEW x \in b.rows \ {r}, x.node = key \/ x.label = name PROVE FALSE
        BY <1>1, <1>2, <2>1 DEF OneEach, Nodes
    <2> QED BY <1>1, <1>5, <2>1 DEF OneEach
<1>8. Sorted(rows) /\ Within(rows, b.rows)
    BY <1>1, <1>3, <1>5, <1>7 DEF Sorted, Within
<1> HIDE DEF rows, f
<1>9. f \in Records /\ f.rows = rows /\ f.number = b.number /\ f.keys = b.keys /\ f.marked = b.marked
    BY <1>1, <1>4, <1>6 DEF Records
<1>10. RekeyedFrom(f, b, key)
    BY <1>6, <1>8, <1>9 DEF RekeyedFrom, IsBook
<1> QED BY <1>10 DEF f

-----------------------------------------------------------------------------
(* The first state, and what every step is. *)

LEMMA OwnKeyType ==
    ASSUME NEW a \in Act
    PROVE  OwnKey(a) \in Key /\ Runs[a] \in Home /\ a # None
BY ActAssumption, BookAssumption DEF OwnKey

LEMMA ForeignPart ==
    ASSUME NEW S, NEW T, S \subseteq T, NEW a, Foreign(T, a)
    PROVE  Foreign(S, a)
BY DEF Foreign

LEMMA ForeignBoth ==
    ASSUME NEW S, NEW T, NEW a, Foreign(S, a), Foreign(T, a)
    PROVE  Foreign(S \cup T, a)
BY DEF Foreign

LEMMA NoneForeign ==
    ASSUME NEW a
    PROVE  Foreign({}, a) /\ Foreign(IdsIn(None), a) /\ Foreign(Ids(BookOf(None)), a)
BY DEF Foreign, IdsIn, Ids, BookOf

\* What is owed to an update is keys and standings that it speaks of.
LEMMA OwedForeign ==
    ASSUME NEW u \in Update, NEW time, NEW a, Foreign(IdsIn(u), a)
    PROVE  Foreign(Owed(u, time), a)
<1>1. u # None /\ u.keys \subseteq Key
    BY KindsAssumption DEF Update
<1>2. ASSUME NEW i \in Owed(u, time), i \in Standing PROVE i \in IdsIn(u)
    <2>1. i \notin u.keys
        BY <1>1, <1>2, KindsAssumption
    <2>2. i \in u.ids
        BY <2>1 DEF Owed, InForce
    <2> QED BY <1>1, <2>2 DEF IdsIn, Ids
<1> QED BY <1>2 DEF Foreign

LEMMA InitInv == Init => IInv
<1> SUFFICES ASSUME Init PROVE IInv
    OBVIOUS
<1> USE ActAssumption, BookAssumption DEF Init
<1>1. IsList(Start) /\ IsList(None) /\ Start # None
    BY KindsAssumption DEF IsList, Sorted, WellFormed
<1>2. Lists
    BY <1>1 DEF Lists
<1>3. /\ IsBook(BookOf(None)) /\ Parted(BookOf(None)) /\ BookOf(None).rows = {} /\ BookOf(None).marked = {}
      /\ BookOf(None).keys = {}
    BY DEF BookOf, IsBook, Parted, Records, Sorted, OneEach, Nodes
<1>4. Books
    BY <1>3 DEF Books, Sound, IsBook, Sorted, Parted
<1>5. ASSUME NEW a \in Act PROVE NoAsk \in Ask
    <2>1. Key # {}
        BY OwnKeyType
    <2>2. Name # {}
        <3>1. IsFiniteSet({}) /\ Cardinality({}) = 0 /\ Cardinality(Key) \in Nat
            BY NamesAssumption, FS_EmptySet, FS_CardinalityType
        <3>2. SUFFICES ASSUME Name = {} PROVE FALSE
            OBVIOUS
        <3>3. IsFiniteSet(Name) /\ Cardinality(Name) = 0
            BY <3>1, <3>2
        <3>4. Cardinality(Name) > 2 * Cardinality(Key)
            BY <3>3, NamesAssumption
        <3> QED BY <3>1, <3>3, <3>4
    <2>3. NoAsk.name \in Name /\ NoAsk.key \in Key /\ NoAsk.verb \in Verb
        BY <2>1, <2>2 DEF NoAsk, Verb
    <2> QED BY <2>3 DEF NoAsk, Ask
<1>6. TypeOK
    <2>1. Owed(Start, 0) \subseteq Key \cup Standing
        BY DEF Owed, InForce, Update
    <2> QED BY <1>3, <1>5, <2>1 DEF TypeOK, IsBook, Places
<1>7. /\ Room /\ Aims /\ Locked /\ Unread /\ Numbered /\ CutIsNewest /\ OwnNotFirst /\ Revoking /\ KeyRevoked
      /\ Handing /\ HandsListed
    BY DEF Room, Aims, Locked, Unread, Numbered, CutIsNewest, OwnNotFirst, Revoking, KeyRevoked, Committed, Handing,
           HandsListed
<1>8. Spared /\ OwnKept
    BY <1>3 DEF Spared, OwnKept
<1>9. Fresh
    BY <1>1, <1>3, NewKeyAssumption DEF Fresh, Mentions, BookMentions, NodesIn, KeysIn, Nodes
<1>10. Opened /\ Gathered /\ NameGone
    BY DEF Opened, Gathered, NameGone, Committed
<1>11. ASSUME NEW a \in Act PROVE Unspoken(a) /\ Foreign(Ids(book[a]), a)
    <2>1. Start \in Update /\ Start # None
        BY <1>1
    <2>2. Foreign(IdsIn(Start), a)
        BY <2>1 DEF Foreign, IdsIn, Ids
    <2>3. Foreign(Owed(Start, 0), a)
        BY <2>1, <2>2, OwedForeign
    <2>4. \A h \in Home : Foreign(refused[h], a)
        BY <2>3, ForeignPart
    <2> QED BY <2>2, <2>4, NoneForeign DEF Unspoken
<1>12. Unsaid /\ GivenListed /\ HandedKept
    BY <1>11 DEF Unsaid, GivenListed, HandedKept, Committed
<1> QED BY <1>2, <1>4, <1>6, <1>7, <1>8, <1>9, <1>10, <1>12 DEF IInv

\* The steps of one act.
Signs(a) == Add(a) \/ Rekey(a) \/ Renew(a) \/ RevokeDevice(a)
Presents(a) == \E want \in Asks[a] \cup {ask[a]} : Present(a, want)
Acts(a) ==
    \/ \E want \in Asks[a] : Resolve(a, want) \/ Unchanged(a, want)
    \/ Presents(a) \/ Block(a) \/ Unlock(a) \/ Signs(a) \/ Refused(a)
    \/ Overtake(a) \/ Commit(a) \/ FoldCut(a) \/ Stop(a)

\* The act keeps all that is its own.
Still(a) ==
    /\ at'[a] = at[a] /\ ask'[a] = ask[a] /\ seen'[a] = seen[a] /\ block'[a] = block[a] /\ began'[a] = began[a]
    /\ list'[a] = list[a] /\ book'[a] = book[a] /\ held'[a] = held[a] /\ fork'[a] = fork[a] /\ due'[a] = due[a]
    /\ made'[a] = made[a] /\ touched'[a] = touched[a] /\ given'[a] = given[a] /\ cut'[a] = cut[a]

\* A step is a fold of what another machine says, the clock's, or one act's.
LEMMA NextSteps ==
    ASSUME Next
    PROVE  \/ \E h, g \in Home : Hear(h, g) \/ HearFork(h, g)
           \/ Tick
           \/ \E a \in Act : Acts(a)
<1>1. ASSUME NEW a \in Act, Invite(a) \/ Publish(a) PROVE Acts(a)
    BY <1>1 DEF Invite, Publish, Acts, Signs, Presents
<1>2. ASSUME NEW a \in Act,
             \/ \E want \in Asks[a] : Resolve(a, want)
             \/ Block(a) \/ Unlock(a) \/ Refused(a) \/ Overtake(a) \/ Commit(a) \/ FoldCut(a) \/ Stop(a)
      PROVE  Acts(a)
    BY <1>2 DEF Acts
<1> QED BY <1>1, <1>2 DEF Next

\* An act changes nothing of another's.
LEMMA Apart ==
    ASSUME TypeOK, NEW a \in Act, NEW b \in Act, a # b, Acts(b)
    PROVE  Still(a)
<1> USE DEF Still, Go, wanted, reads, signs, TypeOK
<1>1. ASSUME NEW want, Resolve(b, want) PROVE Still(a)
    BY <1>1 DEF Resolve
<1>2. ASSUME NEW want, Unchanged(b, want) PROVE Still(a)
    BY <1>2 DEF Unchanged
<1>3. ASSUME NEW want, Present(b, want) PROVE Still(a)
    BY <1>3 DEF Present
<1>4. CASE Block(b)
    BY <1>4 DEF Block
<1>5. CASE Unlock(b)
    BY <1>5 DEF Unlock
<1>6. ASSUME NEW c, NEW new, NEW old, NEW standing, Sign(b, c, new, old, standing) PROVE Still(a)
    BY <1>6 DEF Sign
<1>7. CASE Signs(b)
    BY <1>6, <1>7 DEF Signs, Add, Rekey, Renew, RevokeDevice
<1>8. CASE Refused(b)
    BY <1>8 DEF Refused
<1>9. CASE Overtake(b)
    BY <1>9 DEF Overtake
<1>10. CASE Commit(b)
    BY <1>10 DEF Commit
<1>11. CASE FoldCut(b)
    BY <1>11 DEF FoldCut
<1>12. CASE Stop(b)
    BY <1>12 DEF Stop
<1> QED BY <1>1, <1>2, <1>3, <1>4, <1>5, <1>7, <1>8, <1>9, <1>10, <1>11, <1>12 DEF Acts, Presents

-----------------------------------------------------------------------------
(* What the records become. *)

LEMMA HomeFacts ==
    ASSUME TypeOK, Lists, NEW h \in Home
    PROVE  /\ IsList(devices[h]) /\ devices[h] \in Update /\ devices[h] # None /\ devices[h].number \in Nat
           /\ IsList(conflict[h]) /\ Number(devices[h]) = devices[h].number /\ Own[h] \in Key
BY KindsAssumption, ActAssumption DEF TypeOK, Lists, Update, Number

LEMMA ActFacts ==
    ASSUME TypeOK, Lists, NEW a \in Act
    PROVE  /\ now \in Nat /\ began[a] \in Nat
           /\ ask[a] \in Ask /\ ask[a].key \in Key /\ ask[a].name \in Name /\ ask[a].verb \in Verb
           /\ IsList(devices[Runs[a]]) /\ IsList(conflict[Runs[a]]) /\ IsList(Beside(a))
           /\ Runs[a] \in Home /\ OwnKey(a) \in Key
<1>1. Runs[a] \in Home /\ OwnKey(a) \in Key /\ (From[a] \in Dir => IsList(copy[From[a]]))
    BY OwnKeyType DEF Lists
<1>2. now \in Nat /\ began[a] \in Nat /\ ask[a] \in Ask
    BY ActAssumption DEF TypeOK
<1> QED BY <1>1, <1>2 DEF Lists, Beside, Ask

LEMMA ForwardedParts ==
    ASSUME TypeOK, Lists, NEW a \in Act, NEW b, IsBook(b), NEW time \in Nat
    PROVE  ForwardedFrom(Forwarded(a, b, time), b, devices[Runs[a]], conflict[Runs[a]], refused[Runs[a]], OwnKey(a))
BY ActFacts, ForwardParts DEF Forwarded

\* Brought forward, the records revoke this machine only if they or a list here did.
LEMMA ForwardedSound ==
    ASSUME TypeOK, Lists, Spared, NEW a \in Act, NEW b, IsBook(b), NEW time \in Nat
    PROVE  LET f == Forwarded(a, b, time)
           IN  /\ IsBook(f) /\ (Sound(a, b) => Sound(a, f))
               /\ Nodes(f.rows) \cap f.keys = {}
               /\ OwnKey(a) \in f.keys =>
                     OwnKey(a) \in b.keys \cup KeysIn(devices[Runs[a]]) \cup KeysIn(conflict[Runs[a]])
               /\ f.number \in Nat /\ f.number >= b.number /\ f.number >= devices[Runs[a]].number
               /\ b.keys \subseteq f.keys /\ Nodes(b.rows) \subseteq Nodes(f.rows) \cup f.keys
               /\ BookMentions(f) \subseteq
                     BookMentions(b) \cup Mentions(devices[Runs[a]]) \cup Mentions(conflict[Runs[a]])
<1> DEFINE f == Forwarded(a, b, time)
           h == Runs[a]
<1>1. h \in Home /\ OwnKey(a) \in Key /\ devices[h].number \in Nat /\ Number(devices[h]) = devices[h].number
    BY ActFacts, HomeFacts
<1>2. ForwardedFrom(f, b, devices[h], conflict[h], refused[h], OwnKey(a))
    BY ForwardedParts
<1>3. OwnKey(a) \notin refused[h]
    BY <1>1 DEF Spared, OwnKey
<1> HIDE DEF f
<1>4. IsBook(f) /\ Nodes(f.rows) \cap f.keys = {} /\ f.number \in Nat
    BY <1>2 DEF ForwardedFrom, Parted, IsBook, Records
<1>5. Sound(a, b) => Sound(a, f)
    BY <1>2 DEF ForwardedFrom, IsBook, Sorted, Parted, Sound, Within
<1>6. OwnKey(a) \in f.keys => OwnKey(a) \in b.keys \cup KeysIn(devices[h]) \cup KeysIn(conflict[h])
    BY <1>2, <1>3 DEF ForwardedFrom
<1>7. BookMentions(f) \subseteq BookMentions(b) \cup Mentions(devices[h]) \cup Mentions(conflict[h])
    BY <1>2 DEF ForwardedFrom, BookMentions, Mentions
<1>8. f.number >= b.number /\ f.number >= devices[h].number /\ b.keys \subseteq f.keys
      /\ Nodes(b.rows) \subseteq Nodes(f.rows) \cup f.keys
    BY <1>1, <1>2 DEF ForwardedFrom
<1> HIDE DEF h
<1> QED BY <1>4, <1>5, <1>6, <1>7, <1>8 DEF f, h

\* carry_own adds or renews this machine's row and leaves the rest sound.
LEMMA CarryOwnSound ==
    ASSUME TypeOK, Lists, NEW a \in Act, NEW b, IsBook(b), Sound(a, b)
    PROVE  LET f == CarryOwn(a, b)
           IN  /\ IsBook(f) /\ Sound(a, f) /\ f.number = b.number /\ f.keys = b.keys
               /\ Nodes(b.rows) \subseteq Nodes(f.rows)
               /\ BookMentions(f) \subseteq BookMentions(b) \cup {OwnKey(a)}
<1> DEFINE own == OwnKey(a)
           f == CarryOwn(a, b)
<1>1. own \in Key /\ began[a] \in Nat /\ OneEach(b.rows) /\ b.rows \in SUBSET Row
    BY ActFacts DEF IsBook, Sorted, Records
<1>2. CASE ~ LacksOwn(a, b, began[a])
    BY <1>2 DEF CarryOwn
<1>3. CASE LacksOwn(a, b, began[a]) /\ own \in Nodes(b.rows)
    <2>1. f = WithRenewed(a, b, {own}) /\ From[a] = None
        BY <1>3 DEF CarryOwn, LacksOwn
    <2>2. /\ IsBook(f) /\ f.number = b.number /\ f.keys = b.keys /\ f.marked = b.marked
          /\ Nodes(f.rows) = Nodes(b.rows)
          /\ \A x \in f.rows : x.node # own => \E r \in b.rows : r.node = x.node /\ r.ids = x.ids
        BY <1>1, <2>1, WithRenewedParts
    <2> HIDE DEF f
    <2>3. Sound(a, f)
        BY <2>1, <2>2 DEF Sound, IsBook, Sorted
    <2> QED BY <2>2, <2>3 DEF BookMentions, f
<1>4. CASE LacksOwn(a, b, began[a]) /\ own \notin Nodes(b.rows)
    <2>1. f = WithRow(a, b, own, FreshName(b.rows), FALSE) /\ own \notin b.keys
        BY <1>4 DEF CarryOwn, LacksOwn
    <2>2. FreshName(b.rows) \in Name
        <3>1. OneEach({}) /\ b.rows \cup {} = b.rows
            BY DEF OneEach
        <3> QED BY <1>1, <3>1, FreshNamed
    <2>3. /\ IsBook(f) /\ f.number = b.number /\ f.keys = b.keys /\ f.marked = b.marked
          /\ Nodes(f.rows) = Nodes(b.rows) \cup {own} /\ Within(f.rows, b.rows)
        <3>1. PICK no \in BOOLEAN : no = FALSE
            OBVIOUS
        <3> DEFINE name == FreshName(b.rows)
                   g == WithRow(a, b, own, name, no)
        <3>2. f = g
            <4> HIDE DEF f, name, own
            <4> QED BY <2>1, <3>1, Zenon DEF name, g
        <3>3. name \in Name /\ own \notin Nodes(b.rows)
            BY <1>4, <2>2
        <3> HIDE DEF own, f, name
        <3>4. /\ IsBook(g) /\ g.number = b.number /\ g.keys = b.keys /\ g.marked = b.marked
              /\ Nodes(g.rows) = Nodes(b.rows) \cup {own} /\ Within(g.rows, b.rows)
            <4>1. AddedTo(g, b, own)
                BY <1>1, <3>3, WithRowParts
            <4> QED BY <4>1 DEF AddedTo
        <3> QED BY <3>2, <3>4
    <2> HIDE DEF f
    <2>4. Sound(a, f)
        BY <2>1, <2>3 DEF Sound, IsBook, Sorted, Within
    <2> QED BY <2>3, <2>4 DEF BookMentions, f
<1> QED BY <1>2, <1>3, <1>4

\* The records f are sound, with the devices, the names and the revoked keys of b.
SameDevices(a, f, b) ==
    /\ IsBook(f) /\ Sound(a, f) /\ f.number = b.number /\ f.keys = b.keys /\ f.marked = b.marked
    /\ Nodes(f.rows) = Nodes(b.rows) /\ Labels(f.rows) = Labels(b.rows)

\* Sign: renewing what is due leaves sound what is signed, for a device due has room.
LEMMA SignSound ==
    ASSUME TypeOK, Lists, Room, NEW a \in Act, at[a] = "unlocked", NEW b, IsBook(b), Sound(a, b),
           NEW new, NEW old, NEW standing, Sign(a, b, new, old, standing),
           \A x \in b.rows : x.node \in due[a] \ old => \E r \in book[a].rows : r.node = x.node /\ r.ids = x.ids
    PROVE  SameDevices(a, book'[a], b)
<1> DEFINE late == (due[a] \ old) \cap Nodes(b.rows)
           f == book'[a]
<1>1. began[a] \in Nat
    BY ActFacts
<1>2. f = WithRenewed(a, b, late)
    BY DEF Sign, TypeOK
<1> HIDE DEF f
<1>3. /\ IsBook(f) /\ f.number = b.number /\ f.keys = b.keys /\ f.marked = b.marked
      /\ Nodes(f.rows) = Nodes(b.rows) /\ Labels(f.rows) = Labels(b.rows)
    BY <1>1, <1>2, WithRenewedParts
<1>4. ASSUME NEW x \in f.rows PROVE Cardinality(x.ids) <= MaxIds \/ (From[a] = None /\ x.node = OwnKey(a))
    <2>1. PICK r \in b.rows :
             /\ x.node = r.node
             /\ IF r.node \in late THEN Cardinality(x.ids) <= Cardinality(InForce(r.ids, began[a])) + 1
                ELSE x.ids = r.ids
        BY <1>1, <1>2, WithRenewedParts
    <2>2. CASE r.node \notin late
        BY <2>1, <2>2 DEF Sound
    <2>3. CASE r.node \in late
        <3>1. PICK q \in book[a].rows : q.node = r.node /\ q.ids = r.ids
            BY <2>3
        <3>2. Cardinality(InForce(r.ids, began[a])) < MaxIds
            BY <2>3, <3>1 DEF Room
        <3>3. r.ids \in SUBSET Standing /\ IsFiniteSet(r.ids)
            BY DEF IsBook, Records, Row, Sorted
        <3>4. Cardinality(InForce(r.ids, began[a])) \in Nat
            BY <1>1, <3>3, InForceSome, FS_CardinalityType
        <3>5. IsFiniteSet(x.ids)
            BY <1>3 DEF IsBook, Sorted
        <3>6. Cardinality(x.ids) \in Nat /\ MaxIds \in Nat
            BY <3>5, FS_CardinalityType, BookAssumption
        <3>7. Cardinality(x.ids) <= Cardinality(InForce(r.ids, began[a])) + 1
            BY <2>1, <2>3
        <3> QED BY <3>2, <3>4, <3>6, <3>7
    <2> QED BY <2>2, <2>3
<1>5. Sound(a, f)
    BY <1>3, <1>4 DEF Sound, IsBook, Sorted
<1> QED BY <1>3, <1>5 DEF f, SameDevices

\* Before it signs, an act that makes a new key has it to itself.
LEMMA NewKeyFresh ==
    ASSUME TypeOK, Aims, Fresh, NEW a \in Act, at[a] = "unlocked", ask[a].verb = "new key"
    PROVE  ask[a].key \notin BookMentions(book[a])
<1>1. ask[a] \in Asks[a]
    BY DEF Aims
<1>2. ask[a].key \in NewKey(a)
    BY <1>1 DEF NewKey
<1> QED BY <1>2 DEF Fresh, Unsigned

\* What an act makes of the records by what it was asked.
SignedFrom(a, f) ==
    /\ IsBook(f) /\ Sound(a, f)
    /\ f.number = book[a].number
    /\ f.keys = book[a].keys \cup (IF ask[a].verb = "revoke" THEN {ask[a].key} ELSE {})
    /\ BookMentions(f) \subseteq
          BookMentions(book[a]) \cup (IF ask[a].verb \in {"add", "new key"} THEN {ask[a].key} ELSE {})
    /\ ask[a].verb = "revoke" => ask[a].name \notin Labels(f.rows) /\ Nodes(book[a].rows) \subseteq Spoken(f)

\* What an act hands out it made or touched, and its records have it.
HandsOut(a) ==
    given'[a] # None =>
        given'[a].key \in made'[a] \cup touched'[a] /\ given'[a].key \in Nodes(book'[a].rows)

LEMMA SignHands ==
    ASSUME TypeOK, NEW a \in Act, NEW b, NEW new, NEW old, NEW standing, Sign(a, b, new, old, standing),
           standing # None => standing.key \in new \cup old /\ standing.key \in Nodes(book'[a].rows)
    PROVE  HandsOut(a)
<1>1. given'[a] = standing /\ made'[a] = new /\ old \subseteq touched'[a]
    BY DEF Sign, TypeOK
<1> QED BY <1>1 DEF HandsOut

LEMMA AddSound ==
    ASSUME IInv, NEW a \in Act, Add(a)
    PROVE  SignedFrom(a, book'[a]) /\ HandsOut(a)
<1> DEFINE k == ask[a].key
           n == ask[a].name
<1> USE DEF IInv
<1>1. k \in Key /\ n \in Name /\ began[a] \in Nat /\ IsBook(book[a]) /\ Sound(a, book[a])
    BY ActFacts DEF Books
<1>2. at[a] = "unlocked" /\ ask[a].verb \in {"add", "new key"} /\ k \notin book[a].keys /\ k \notin Nodes(book[a].rows)
    BY DEF Add, Adds, Asked, CanAdd
<1>3. PICK seeded \in BOOLEAN : seeded = (ask[a].verb = "new key")
    OBVIOUS
<1> DEFINE b == WithRow(a, book[a], k, n, seeded)
<1>4. Sign(a, b, {k}, {}, Signed(a, k))
    <2>1. Sign(a, WithRow(a, book[a], k, n, ask[a].verb = "new key"), {k}, {}, Signed(a, k))
        BY DEF Add
    <2> QED BY <1>3, <2>1, Zenon
<1> HIDE DEF k, n
<1>5. AddedTo(b, book[a], k)
    BY <1>1, <1>2, WithRowParts
<1> HIDE DEF b
<1>6. IsBook(b) /\ Sound(a, b)
    BY <1>1, <1>2, <1>5 DEF AddedTo, Sound, Within, IsBook, Sorted
<1>7. \A x \in b.rows : x.node \in due[a] \ {} => \E r \in book[a].rows : r.node = x.node /\ r.ids = x.ids
    BY <1>2, <1>5 DEF AddedTo, Room
<1>8. SameDevices(a, book'[a], b)
    BY <1>2, <1>4, <1>6, <1>7, SignSound
<1>9. HandsOut(a)
    <2>1. Signed(a, k).key = k /\ k \in Nodes(book'[a].rows)
        BY <1>5, <1>8 DEF Signed, AddedTo, SameDevices
    <2> QED BY <1>4, <2>1, SignHands
<1> QED BY <1>2, <1>5, <1>8, <1>9 DEF SignedFrom, SameDevices, AddedTo, BookMentions, k

LEMMA RekeySound ==
    ASSUME IInv, NEW a \in Act, Rekey(a)
    PROVE  SignedFrom(a, book'[a]) /\ HandsOut(a)
<1> DEFINE c == book[a]
           k == ask[a].key
           n == ask[a].name
           old == {RowNamed(c.rows, n).node}
           b == Rekeyed(a, c, n, k)
<1>1. TypeOK /\ Lists /\ Room /\ Aims /\ Fresh /\ Books
    BY DEF IInv
<1>2. k \in Key /\ began[a] \in Nat /\ IsBook(c) /\ Sound(a, c)
    BY <1>1, ActFacts DEF Books
<1>3. /\ at[a] = "unlocked" /\ ask[a].verb = "new key" /\ n \in Labels(c.rows)
      /\ Cardinality(InForce(RowNamed(c.rows, n).ids, began[a])) < MaxIds
    BY DEF Rekey, Rekeys, Asked, CanRekey
<1>4. k \notin Nodes(c.rows) /\ k \notin c.keys /\ k \notin due[a]
    BY <1>1, <1>3, NewKeyFresh DEF BookMentions, Room
<1>5. Sign(a, b, {k}, old, Signed(a, k))
    BY DEF Rekey
<1> HIDE DEF c, k, n
<1>6. RekeyedFrom(b, c, k)
    BY <1>2, <1>3, <1>4, RekeyedParts
<1> HIDE DEF b, old
<1>7. IsBook(b) /\ Sound(a, b)
    BY <1>2, <1>4, <1>6 DEF RekeyedFrom, Sound, Within, IsBook, Sorted
<1>8. \A x \in b.rows : x.node \in due[a] \ old => \E q \in book[a].rows : q.node = x.node /\ q.ids = x.ids
    BY <1>4, <1>6 DEF c, RekeyedFrom
<1>9. SameDevices(a, book'[a], b)
    BY <1>1, <1>3, <1>5, <1>7, <1>8, SignSound
<1>10. HandsOut(a)
    <2>1. Signed(a, k).key = k /\ k \in Nodes(book'[a].rows)
        BY <1>6, <1>9 DEF Signed, RekeyedFrom, SameDevices
    <2> QED BY <1>1, <1>5, <2>1, SignHands
<1> QED BY <1>3, <1>6, <1>9, <1>10 DEF SignedFrom, SameDevices, RekeyedFrom, BookMentions, k, c

LEMMA RenewSound ==
    ASSUME IInv, NEW a \in Act, Renew(a)
    PROVE  SignedFrom(a, book'[a]) /\ HandsOut(a)
<1> USE DEF IInv
<1>1. began[a] \in Nat /\ IsBook(book[a]) /\ Sound(a, book[a])
    BY ActFacts DEF Books
<1>2. PICK r \in book[a].rows :
         /\ Renews(a, r)
         /\ IF Skips(book[a], r, began[a]) THEN Sign(a, book[a], {}, {}, None)
            ELSE Sign(a, WithRenewed(a, book[a], {r.node}), {}, {r.node}, Signed(a, r.node))
    BY DEF Renew
<1>3. at[a] = "unlocked" /\ ask[a].verb # "revoke"
    BY <1>2 DEF Renews, Asked
<1>4. CASE Skips(book[a], r, began[a])
    <2>1. Sign(a, book[a], {}, {}, None)
        BY <1>2, <1>4
    <2>2. SameDevices(a, book'[a], book[a])
        BY <1>1, <1>3, <2>1, SignSound
    <2>3. HandsOut(a)
        BY <2>1, SignHands
    <2> QED BY <1>3, <2>2, <2>3 DEF SignedFrom, SameDevices, BookMentions
<1>5. CASE ~ Skips(book[a], r, began[a])
    <2> DEFINE b == WithRenewed(a, book[a], {r.node})
    <2>1. Sign(a, b, {}, {r.node}, Signed(a, r.node))
        BY <1>2, <1>5
    <2>2. IsBook(b) /\ b.number = book[a].number /\ b.keys = book[a].keys /\ b.marked = book[a].marked
        BY <1>1, WithRenewedParts
    <2>3. Nodes(b.rows) = Nodes(book[a].rows)
        BY <1>1, WithRenewedParts
    <2>4. \A x \in b.rows : \E q \in book[a].rows :
             /\ x.node = q.node
             /\ IF q.node \in {r.node} THEN Cardinality(x.ids) <= Cardinality(InForce(q.ids, began[a])) + 1
                ELSE x.ids = q.ids
        BY <1>1, WithRenewedParts
    <2> HIDE DEF b
    <2>5. Cardinality(InForce(r.ids, began[a])) \in Nat /\ Cardinality(InForce(r.ids, began[a])) < MaxIds
        <3>1. r.ids \in SUBSET Standing /\ IsFiniteSet(r.ids)
            BY <1>1 DEF IsBook, Records, Row, Sorted
        <3>2. Cardinality(InForce(r.ids, began[a])) \in Nat
            BY <1>1, <3>1, InForceSome, FS_CardinalityType
        <3>3. ~ (Cardinality(InForce(r.ids, began[a])) >= MaxIds)
            BY <1>5 DEF Skips
        <3> QED BY <3>2, <3>3, BookAssumption
    <2>6. ASSUME NEW x \in b.rows PROVE Cardinality(x.ids) <= MaxIds \/ (From[a] = None /\ x.node = OwnKey(a))
        <3>1. PICK q \in book[a].rows :
                 /\ x.node = q.node
                 /\ IF q.node \in {r.node} THEN Cardinality(x.ids) <= Cardinality(InForce(q.ids, began[a])) + 1
                    ELSE x.ids = q.ids
            BY <2>4
        <3>2. CASE q.node = r.node
            <4>1. q = r
                BY <1>1, <3>2 DEF IsBook, Sorted, OneEach
            <4>2. IsFiniteSet(x.ids)
                BY <2>2 DEF IsBook, Sorted
            <4>3. Cardinality(x.ids) \in Nat /\ MaxIds \in Nat
                BY <4>2, FS_CardinalityType, BookAssumption
            <4>4. Cardinality(x.ids) <= Cardinality(InForce(r.ids, began[a])) + 1
                BY <3>1, <3>2, <4>1
            <4> QED BY <2>5, <4>3, <4>4
        <3>3. CASE q.node # r.node
            BY <1>1, <3>1, <3>3 DEF Sound
        <3> QED BY <3>2, <3>3
    <2>7. Sound(a, b)
        BY <1>1, <2>2, <2>3, <2>6 DEF Sound, IsBook, Sorted
    <2>8. \A x \in b.rows : x.node \in due[a] \ {r.node} => \E q \in book[a].rows : q.node = x.node /\ q.ids = x.ids
        BY <2>4
    <2>9. SameDevices(a, book'[a], b)
        BY <1>3, <2>1, <2>2, <2>7, <2>8, SignSound
    <2>10. HandsOut(a)
        <3>1. Signed(a, r.node).key = r.node /\ r.node \in Nodes(book'[a].rows)
            BY <2>3, <2>9 DEF Signed, SameDevices, Nodes
        <3> QED BY <2>1, <3>1, SignHands
    <2> QED BY <1>3, <2>2, <2>3, <2>9, <2>10 DEF SignedFrom, SameDevices, BookMentions
<1> QED BY <1>4, <1>5

LEMMA RevokeSound ==
    ASSUME IInv, NEW a \in Act, RevokeDevice(a)
    PROVE  SignedFrom(a, book'[a]) /\ HandsOut(a)
<1> DEFINE k == ask[a].key
           n == ask[a].name
           with == [book[a] EXCEPT !.keys = @ \cup {k}]
           b == FollowKeys(with, began[a])
<1> USE DEF IInv
<1>1. k \in Key /\ began[a] \in Nat /\ IsBook(book[a]) /\ Sound(a, book[a])
    BY ActFacts DEF Books
<1>2. /\ at[a] = "unlocked" /\ ask[a].verb = "revoke" /\ ~ NameMoved(a, book[a])
      /\ k \in Nodes(book[a].rows \cup book[a].marked)
    BY DEF RevokeDevice, Revokes, Asked
<1>3. seen[a] = {k}
    BY <1>2 DEF Aims
<1>4. Sign(a, b, {}, {}, None)
    BY DEF RevokeDevice
<1>5. /\ with \in Records /\ with.rows = book[a].rows /\ with.number = book[a].number
      /\ with.marked = book[a].marked /\ with.keys = book[a].keys \cup {k}
    <2> HIDE DEF k
    <2> QED BY <1>1 DEF IsBook, Records
<1> HIDE DEF with, k, n
<1>6. /\ b \in Records /\ Parted(b) /\ b.number = book[a].number /\ b.keys = book[a].keys \cup {k}
      /\ b.rows = {r \in book[a].rows : r.node \notin with.keys}
      /\ Nodes(b.marked) \subseteq Nodes(book[a].marked) \cup Nodes(book[a].rows)
    BY <1>1, <1>5, FollowKeysParts
<1>7. IsBook(b) /\ Within(b.rows, book[a].rows)
    <2>1. IsBook(with) /\ Within(with.rows, book[a].rows)
        BY <1>1, <1>5 DEF IsBook, Within
    <2> QED BY <1>1, <1>5, <2>1, FollowedBook
<1> HIDE DEF b
<1>8. Sound(a, b)
    BY <1>1, <1>6, <1>7 DEF Sound, IsBook, Sorted, Parted
<1>9. \A x \in b.rows : x \in book[a].rows
    BY <1>6
<1>10. n \notin Labels(b.rows)
    <2>1. ASSUME NEW x \in b.rows, x.label = n PROVE FALSE
        <3>1. x \in book[a].rows /\ x.node # k
            BY <1>5, <1>6
        <3> QED BY <1>2, <1>3, <2>1, <3>1 DEF NameMoved, n
    <2> QED BY <2>1 DEF Labels
<1>11. SameDevices(a, book'[a], b)
    BY <1>2, <1>4, <1>7, <1>8, <1>9, SignSound
<1>12. Nodes(b.rows) \subseteq Nodes(book[a].rows) /\ k \in BookMentions(book[a])
    BY <1>2, <1>9 DEF Nodes, BookMentions
<1>13. BookMentions(book'[a]) \subseteq BookMentions(book[a])
    BY <1>6, <1>11, <1>12 DEF SameDevices, BookMentions
<1>15. Nodes(book[a].rows) \subseteq Spoken(book'[a])
    BY <1>5, <1>6, <1>11 DEF SameDevices, Spoken, Nodes
<1>14. HandsOut(a)
    BY <1>4, SignHands
<1> QED BY <1>2, <1>6, <1>10, <1>11, <1>13, <1>14, <1>15 DEF SignedFrom, SameDevices, k, n

LEMMA SignsSound ==
    ASSUME IInv, NEW a \in Act, Signs(a)
    PROVE  /\ SignedFrom(a, book'[a]) /\ HandsOut(a)
           /\ at[a] = "unlocked" /\ at'[a] = "signed"
           /\ UNCHANGED <<now, homes, copy, lock, stops, wanted, reads, cut>>
<1> USE DEF IInv
<1>1. SignedFrom(a, book'[a]) /\ HandsOut(a)
    BY AddSound, RekeySound, RenewSound, RevokeSound DEF Signs
<1>2. ASSUME NEW b, NEW new, NEW old, NEW standing, Sign(a, b, new, old, standing)
      PROVE  at'[a] = "signed" /\ UNCHANGED <<now, homes, copy, lock, stops, wanted, reads, cut>>
    BY <1>2 DEF Sign, Go, TypeOK
<1>3. at[a] = "unlocked"
    BY DEF Signs, Add, Adds, Rekey, Rekeys, Renew, Renews, RevokeDevice, Revokes, Asked
<1>4. at'[a] = "signed" /\ UNCHANGED <<now, homes, copy, lock, stops, wanted, reads, cut>>
    BY <1>2 DEF Signs, Add, Rekey, Renew, RevokeDevice
<1> QED BY <1>1, <1>3, <1>4

-----------------------------------------------------------------------------
(* What the records are brought forward to, at the prompt and at the commit. *)

\* What an act brings forward of its records: they are sound, numbered as high as the home's update, revoke what they
\* revoked and this machine's own key only if a list here does, and speak of no key that no list here speaks of.
OnwardFrom(a, f) ==
    /\ IsBook(f) /\ Sound(a, f) /\ f.number \in Nat
    /\ book[a].keys \subseteq f.keys /\ Nodes(book[a].rows) \subseteq Nodes(f.rows) \cup f.keys
    /\ OwnKey(a) \in f.keys => OwnKey(a) \in book[a].keys \cup KeysIn(devices[Runs[a]]) \cup KeysIn(conflict[Runs[a]])
    /\ BookMentions(f) \subseteq BookMentions(book[a]) \cup Mentions(devices[Runs[a]])
                                 \cup Mentions(conflict[Runs[a]]) \cup {OwnKey(a)}

LEMMA UnlockSound ==
    ASSUME IInv, NEW a \in Act, Unlock(a)
    PROVE  OnwardFrom(a, book'[a]) /\ book'[a].number >= devices[Runs[a]].number
<1> DEFINE f == Forwarded(a, book[a], began[a])
           g == CarryOwn(a, f)
<1>1. TypeOK /\ Lists /\ Spared /\ began[a] \in Nat /\ IsBook(book[a]) /\ Sound(a, book[a])
    BY ActFacts DEF IInv, Books
<1>2. book'[a] = g
    BY <1>1 DEF Unlock, TypeOK
<1>3. /\ IsBook(f) /\ Sound(a, f)
      /\ OwnKey(a) \in f.keys => OwnKey(a) \in book[a].keys \cup KeysIn(devices[Runs[a]]) \cup KeysIn(conflict[Runs[a]])
      /\ f.number \in Nat /\ f.number >= devices[Runs[a]].number
      /\ book[a].keys \subseteq f.keys /\ Nodes(book[a].rows) \subseteq Nodes(f.rows) \cup f.keys
      /\ BookMentions(f) \subseteq
            BookMentions(book[a]) \cup Mentions(devices[Runs[a]]) \cup Mentions(conflict[Runs[a]])
    BY <1>1, ForwardedSound
<1> HIDE DEF f
<1>4. /\ IsBook(g) /\ Sound(a, g) /\ g.number = f.number /\ g.keys = f.keys
      /\ Nodes(f.rows) \subseteq Nodes(g.rows)
      /\ BookMentions(g) \subseteq BookMentions(f) \cup {OwnKey(a)}
    BY <1>1, <1>3, CarryOwnSound
<1> HIDE DEF g
<1> QED BY <1>2, <1>3, <1>4 DEF OnwardFrom

LEMMA BroughtSound ==
    ASSUME IInv, NEW a \in Act, at[a] \in {"unlocked", "signed"}
    PROVE  OnwardFrom(a, Brought(a)) /\ Brought(a).number >= devices[Runs[a]].number
<1> DEFINE f == Forwarded(a, book[a], began[a])
<1>1. /\ TypeOK /\ Lists /\ Spared /\ began[a] \in Nat /\ IsBook(book[a]) /\ Sound(a, book[a])
      /\ Number(devices[Runs[a]]) = devices[Runs[a]].number
    BY ActFacts, HomeFacts DEF IInv, Books
<1>2. CASE Moved(a)
    <2>1. /\ IsBook(f) /\ Sound(a, f)
          /\ OwnKey(a) \in f.keys =>
                OwnKey(a) \in book[a].keys \cup KeysIn(devices[Runs[a]]) \cup KeysIn(conflict[Runs[a]])
          /\ f.number \in Nat /\ f.number >= devices[Runs[a]].number
          /\ book[a].keys \subseteq f.keys /\ Nodes(book[a].rows) \subseteq Nodes(f.rows) \cup f.keys
          /\ BookMentions(f) \subseteq
                BookMentions(book[a]) \cup Mentions(devices[Runs[a]]) \cup Mentions(conflict[Runs[a]])
        BY <1>1, ForwardedSound
    <2>2. Brought(a) = f
        BY <1>2 DEF Brought
    <2> HIDE DEF f
    <2> QED BY <2>1, <2>2 DEF OnwardFrom
<1>3. CASE ~ Moved(a)
    <2>1. Brought(a) = book[a] /\ held[a] = devices[Runs[a]]
        BY <1>3 DEF Brought, Moved
    <2>2. book[a].number >= Number(held[a])
        BY DEF IInv, Numbered
    <2> QED BY <1>1, <2>1, <2>2 DEF OnwardFrom, IsBook, Records
<1> QED BY <1>2, <1>3

-----------------------------------------------------------------------------
(* What every step leaves alone. *)

Resolves(a) == \E want \in Asks[a] : Resolve(a, want)
Prints(a) == \E want \in Asks[a] : Unchanged(a, want)

LEMMA Frame ==
    ASSUME NEW a \in Act, Acts(a)
    PROVE  /\ UNCHANGED now
           /\ FoldCut(a) \/ UNCHANGED <<devices, conflict>>
           /\ FoldCut(a) \/ Block(a) \/ UNCHANGED refused
           /\ Commit(a) \/ UNCHANGED copy
           /\ Commit(a) \/ FoldCut(a) \/ Stop(a) \/ UNCHANGED lock
           /\ Stop(a) \/ UNCHANGED stops
           /\ Resolves(a) \/ Prints(a) \/ Presents(a) \/ UNCHANGED ask
           /\ Resolves(a) \/ UNCHANGED <<seen, block>>
           /\ Presents(a) \/ UNCHANGED <<began, list>>
           /\ Unlock(a) \/ UNCHANGED <<held, fork>>
           /\ Presents(a) \/ Unlock(a) \/ Signs(a) \/ UNCHANGED book
           /\ Unlock(a) \/ Signs(a) \/ UNCHANGED due
           /\ Signs(a) \/ UNCHANGED <<made, touched>>
           /\ Prints(a) \/ Signs(a) \/ UNCHANGED given
           /\ Prints(a) \/ Commit(a) \/ UNCHANGED cut
<1> USE DEF homes, wanted, reads, signs
<1>1. CASE Resolves(a)
    BY <1>1 DEF Resolves, Resolve
<1>2. CASE Prints(a)
    BY <1>2 DEF Prints, Unchanged
<1>3. CASE Presents(a)
    BY <1>3 DEF Presents, Present
<1>4. CASE Block(a)
    BY <1>4 DEF Block
<1>5. CASE Unlock(a)
    BY <1>5 DEF Unlock
<1>6. CASE Signs(a)
    <2>1. ASSUME NEW c, NEW new, NEW old, NEW standing, Sign(a, c, new, old, standing)
          PROVE  UNCHANGED <<now, homes, copy, lock, stops, wanted, reads, cut>>
        BY <2>1 DEF Sign
    <2>2. UNCHANGED <<now, homes, copy, lock, stops, wanted, reads, cut>>
        BY <1>6, <2>1 DEF Signs, Add, Rekey, Renew, RevokeDevice
    <2> QED BY <1>6, <2>2
<1>7. CASE Refused(a)
    BY <1>7 DEF Refused
<1>8. CASE Overtake(a)
    BY <1>8 DEF Overtake
<1>9. CASE Commit(a)
    BY <1>9 DEF Commit
<1>10. CASE FoldCut(a)
    BY <1>10 DEF FoldCut
<1>11. CASE Stop(a)
    BY <1>11 DEF Stop
<1> QED BY <1>1, <1>2, <1>3, <1>4, <1>5, <1>6, <1>7, <1>8, <1>9, <1>10, <1>11 DEF Acts, Resolves, Prints

\* Where the steps of an act take it.
LEMMA Moves ==
    ASSUME TypeOK, NEW a \in Act
    PROVE  /\ Resolves(a) => at[a] = "idle" /\ at'[a] = "found"
           /\ Prints(a) => at[a] = "idle" /\ at'[a] = "done"
           /\ Presents(a) => at[a] \in {"idle", "blocked"} /\ at'[a] = "prompt"
           /\ Block(a) => at[a] = "found" /\ at'[a] \in {"blocked", "done"}
           /\ Unlock(a) => at[a] = "prompt" /\ at'[a] = "unlocked"
           /\ Signs(a) => at[a] = "unlocked" /\ at'[a] = "signed"
           /\ Refused(a) => at[a] = "unlocked" /\ at'[a] = "refused"
           /\ Overtake(a) => at[a] = "signed" /\ at'[a] = "stopped"
           /\ Commit(a) => at[a] = "signed" /\ at'[a] = IF Cutting(a) THEN "folding" ELSE "done"
           /\ FoldCut(a) => at[a] = "folding" /\ at'[a] \in {"done", "stopped"}
           /\ Stop(a) => at[a] = "folding" /\ at'[a] = "stopped"
           /\ Acts(a) => \/ Resolves(a) \/ Prints(a) \/ Presents(a) \/ Block(a) \/ Unlock(a) \/ Signs(a)
                         \/ Refused(a) \/ Overtake(a) \/ Commit(a) \/ FoldCut(a) \/ Stop(a)
<1> USE DEF Go, TypeOK
<1>1. Resolves(a) => at[a] = "idle" /\ at'[a] = "found"
    BY DEF Resolves, Resolve
<1>2. Prints(a) => at[a] = "idle" /\ at'[a] = "done"
    BY DEF Prints, Unchanged
<1>3. Presents(a) => at[a] \in {"idle", "blocked"} /\ at'[a] = "prompt"
    BY DEF Presents, Present
<1>4. Block(a) => at[a] = "found" /\ at'[a] \in {"blocked", "done"}
    BY DEF Block
<1>5. Unlock(a) => at[a] = "prompt" /\ at'[a] = "unlocked"
    BY DEF Unlock
<1>6. Signs(a) => at[a] = "unlocked" /\ at'[a] = "signed"
    <2>1. ASSUME NEW c, NEW new, NEW old, NEW standing, Sign(a, c, new, old, standing) PROVE at'[a] = "signed"
        BY <2>1 DEF Sign
    <2>2. Signs(a) => at[a] = "unlocked"
        BY DEF Signs, Add, Adds, Rekey, Rekeys, Renew, Renews, RevokeDevice, Revokes, Asked
    <2>3. Signs(a) => at'[a] = "signed"
        BY <2>1 DEF Signs, Add, Rekey, Renew, RevokeDevice
    <2> QED BY <2>2, <2>3
<1>7. Refused(a) => at[a] = "unlocked" /\ at'[a] = "refused"
    BY DEF Refused
<1>8. Overtake(a) => at[a] = "signed" /\ at'[a] = "stopped"
    BY DEF Overtake
<1>9. Commit(a) => at[a] = "signed" /\ at'[a] = IF Cutting(a) THEN "folding" ELSE "done"
    BY DEF Commit
<1>10. FoldCut(a) => at[a] = "folding" /\ at'[a] \in {"done", "stopped"}
    BY DEF FoldCut
<1>11. Stop(a) => at[a] = "folding" /\ at'[a] = "stopped"
    BY DEF Stop
<1> QED BY <1>1, <1>2, <1>3, <1>4, <1>5, <1>6, <1>7, <1>8, <1>9, <1>10, <1>11 DEF Acts, Resolves, Prints

\* What an act learns when it presents the root, and what it holds past the prompt.
LEMMA PresentSets ==
    ASSUME TypeOK, NEW a \in Act, Presents(a)
    PROVE  /\ ask'[a] = ask[a] \/ (at[a] = "idle" /\ ask'[a] \in Asks[a] /\ ask'[a].verb # "revoke")
           /\ at[a] = "idle" => ask'[a] \in Asks[a] /\ ask'[a].verb # "revoke"
           /\ list'[a] = Beside(a) /\ book'[a] = BookOf(Beside(a)) /\ began'[a] = now
<1>1. PICK want : Present(a, want)
    BY DEF Presents
<1>2. ask'[a] = want /\ (want = ask[a] \/ (at[a] = "idle" /\ want \in Asks[a] /\ want.verb # "revoke"))
    BY <1>1 DEF Present, TypeOK
<1>3. at[a] = "idle" => want \in Asks[a] /\ want.verb # "revoke"
    BY <1>1 DEF Present
<1>4. list'[a] = Beside(a) /\ book'[a] = BookOf(Beside(a)) /\ began'[a] = now
    BY <1>1 DEF Present, TypeOK
<1> QED BY <1>2, <1>3, <1>4

LEMMA UnlockSets ==
    ASSUME TypeOK, NEW a \in Act, Unlock(a)
    PROVE  /\ held'[a] = devices[Runs[a]] /\ fork'[a] = conflict[Runs[a]]
           /\ due'[a] = Nodes({r \in book'[a].rows : Due(r, began[a])})
BY DEF Unlock, TypeOK

\* What another machine says is folded into one home, whose lock no act has.
LEMMA Hears ==
    ASSUME TypeOK, NEW h \in Home, NEW g \in Home, Hear(h, g) \/ HearFork(h, g)
    PROVE  /\ lock[h] = None
           /\ \A x \in Home \ {h} : devices'[x] = devices[x] /\ conflict'[x] = conflict[x]
           /\ devices'[h] \in {devices[h], devices[g]}
           /\ conflict'[h] \in {conflict[h], None, devices[g], conflict[g]}
           /\ \A x \in Home : Own[x] \notin refused[x] => Own[x] \notin refused'[x]
           /\ refused' \in [Home -> SUBSET (Key \cup Standing)]
           /\ UNCHANGED <<now, copy, lock, stops, at, wanted, reads, signs, cut>>
<1>1. ASSUME NEW u, u \in Update, Refuse(h, u)
      PROVE  /\ \A x \in Home : Own[x] \notin refused[x] => Own[x] \notin refused'[x]
             /\ refused' \in [Home -> SUBSET (Key \cup Standing)]
    <2>1. Owed(u, now) \subseteq Key \cup Standing
        BY <1>1 DEF Owed, InForce, Update
    <2> QED BY <1>1, <2>1 DEF Refuse, TypeOK
<1>2. CASE Hear(h, g)
    <2>1. devices[g] \in Update /\ Refuse(h, devices[g])
        BY <1>2 DEF Hear, HoldNewer, KeepFork, TypeOK
    <2> QED BY <1>1, <1>2, <2>1 DEF Hear, HoldNewer, KeepFork, TypeOK
<1>3. CASE HearFork(h, g)
    <2>1. conflict[g] \in Update /\ Refuse(h, conflict[g])
        BY <1>3 DEF HearFork, KeepFork, TypeOK
    <2> QED BY <1>1, <1>3, <2>1 DEF HearFork, KeepFork, TypeOK
<1> QED BY <1>2, <1>3

\* The fold of an act's own cut.
LEMMA Folds ==
    ASSUME TypeOK, Locked, NEW a \in Act, FoldCut(a)
    PROVE  /\ cut[a] \in Update /\ lock[Runs[a]] = a /\ lock' = [lock EXCEPT ![Runs[a]] = None]
           /\ \A x \in Home \ {Runs[a]} : devices'[x] = devices[x] /\ conflict'[x] = conflict[x]
           /\ devices'[Runs[a]] \in {devices[Runs[a]], cut[a]}
           /\ conflict'[Runs[a]] \in {conflict[Runs[a]], None}
           /\ \A x \in Home : Own[x] \notin refused[x] => Own[x] \notin refused'[x]
           /\ refused' \in [Home -> SUBSET (Key \cup Standing)]
<1>1. Runs[a] \in Home
    BY OwnKeyType
<1>2. cut[a] \in Update /\ lock[Runs[a]] = a
    BY DEF FoldCut, Locked, TypeOK
<1>3. Owed(cut[a], now) \subseteq Key \cup Standing
    BY <1>2 DEF Owed, InForce, Update
<1> QED BY <1>1, <1>2, <1>3 DEF FoldCut, HoldNewer, Refuse, Locked, TypeOK, homes

\* The commit: what an act cuts is a list past its home's, with the keys its records revoke.
LEMMA Commits ==
    ASSUME IInv, NEW a \in Act, Commit(a)
    PROVE  /\ cut'[a] \in Update /\ IsList(cut'[a]) /\ cut'[a] # None
           /\ Brought(a).keys \subseteq cut'[a].keys
           /\ Cutting(a) => /\ cut'[a].number > devices[Runs[a]].number /\ cut'[a].keys = Brought(a).keys
                            /\ Nodes(cut'[a].rows) = Nodes(Brought(a).rows)
                            /\ Labels(cut'[a].rows) = Labels(Brought(a).rows)
           /\ Mentions(cut'[a]) \subseteq BookMentions(book[a]) \cup Mentions(devices[Runs[a]])
                                            \cup Mentions(conflict[Runs[a]]) \cup {OwnKey(a)}
           /\ \A d \in Dir : copy'[d] \in {copy[d], cut'[a]}
           /\ copy' \in [Dir -> Update]
           /\ lock[Runs[a]] = None
           /\ lock' = IF Cutting(a) THEN [lock EXCEPT ![Runs[a]] = a] ELSE lock
<1> DEFINE b == Brought(a)
           u == devices[Runs[a]]
           c == NextCut(a)
<1>1. /\ TypeOK /\ Lists /\ at[a] = "signed" /\ began[a] \in Nat
      /\ u \in Update /\ u # None /\ IsList(u) /\ u.number \in Nat /\ Runs[a] \in Home
    BY ActFacts, HomeFacts DEF IInv, Commit
<1>2. OnwardFrom(a, b) /\ b.number >= u.number
    BY <1>1, BroughtSound
<1>3. /\ cut'[a] = IF Cutting(a) THEN c ELSE u
      /\ lock[Runs[a]] = None
      /\ lock' = IF Cutting(a) THEN [lock EXCEPT ![Runs[a]] = a] ELSE lock
    BY <1>1 DEF Commit, TypeOK
<1>4. Cutting(a) => WellFormed(c)
    BY DEF Commit, Unbuilt
<1>5. ~ Cutting(a) => b.keys \subseteq u.keys
    BY DEF Cutting, Lacks
<1>6. c = Cut(b, b.number + 1, began[a])
    BY DEF NextCut, NextNumber
<1> HIDE DEF b, c, u
<1>7. IsBook(b) /\ b.number \in Nat
    BY <1>2 DEF OnwardFrom
<1>8. c \in Update /\ Sorted(c.rows) /\ c.number = b.number + 1 /\ c.keys = b.keys /\ Nodes(c.rows) = Nodes(b.rows)
      /\ Labels(c.rows) = Labels(b.rows)
    BY <1>1, <1>6, <1>7, CutParts
<1>9. c # None
    BY <1>8, KindsAssumption
<1>10. cut'[a] \in Update /\ IsList(cut'[a]) /\ cut'[a] # None /\ b.keys \subseteq cut'[a].keys
    BY <1>1, <1>3, <1>4, <1>5, <1>8, <1>9 DEF IsList
<1>11. Cutting(a) => /\ cut'[a].number > u.number /\ cut'[a].keys = b.keys
                     /\ Nodes(cut'[a].rows) = Nodes(b.rows) /\ Labels(cut'[a].rows) = Labels(b.rows)
    BY <1>1, <1>2, <1>3, <1>7, <1>8
<1>12. Mentions(c) \subseteq BookMentions(b)
    BY <1>8, <1>9 DEF Mentions, BookMentions, NodesIn, KeysIn
<1>13. Mentions(cut'[a]) \subseteq
          BookMentions(book[a]) \cup Mentions(u) \cup Mentions(conflict[Runs[a]]) \cup {OwnKey(a)}
    BY <1>2, <1>3, <1>12 DEF OnwardFrom, u
<1>14. WriteCopy(a, cut'[a])
    BY <1>1, <1>3 DEF Commit, c, u
<1>15. (\A d \in Dir : copy'[d] \in {copy[d], cut'[a]}) /\ copy' \in [Dir -> Update]
    BY <1>1, <1>10, <1>14 DEF WriteCopy, TypeOK
<1> QED BY <1>3, <1>10, <1>11, <1>13, <1>15 DEF b, u

-----------------------------------------------------------------------------
(* What the standings become that an act signs. *)

\* The records f are b and what a signed: a row's ids were its own, but where it passed to a new key.
SignedOnto(f, b, a, moved) ==
    /\ f.ids = b.ids
    /\ \A x \in f.rows : \A i \in x.ids :
          i = Signed(a, x.node) \/ \E r \in b.rows : i \in r.ids /\ (r.node = x.node \/ x.node \in moved)
    /\ \A x \in f.rows : x.standing = Signed(a, x.node) \/ \E r \in b.rows : x.standing = r.standing

\* The row that a signed for lists what was signed under the name.
ListsSigned(f, a, key, name) == \E x \in f.rows : x.node = key /\ x.label = name /\ Signed(a, key) \in x.ids

LEMMA WithRowIds ==
    ASSUME NEW a, NEW b \in Records, NEW key, NEW name, NEW seeded
    PROVE  /\ SignedOnto(WithRow(a, b, key, name, seeded), b, a, {})
           /\ ListsSigned(WithRow(a, b, key, name, seeded), a, key, name)
<1> DEFINE i == Signed(a, key)
           OffIt(r) == IF r.label = name THEN [r EXCEPT !.label = FreshName(b.rows)] ELSE r
           added == [node |-> key, label |-> name, standing |-> i, ids |-> {i}, seeded |-> seeded]
           rows == {OffIt(r) : r \in b.rows} \cup {added}
           f == WithRow(a, b, key, name, seeded)
<1>1. b.rows \in SUBSET Row
    BY DEF Records
<1>2. f = [b EXCEPT !.rows = rows]
    BY DEF WithRow
<1>3. \A r \in b.rows : OffIt(r).node = r.node /\ OffIt(r).ids = r.ids /\ OffIt(r).standing = r.standing
    BY <1>1 DEF Row
<1>4. added.node = key /\ added.label = name /\ added.ids = {i} /\ added.standing = i
    OBVIOUS
<1> HIDE DEF added, OffIt
<1>5. \A x \in rows : x = added \/ \E r \in b.rows : x = OffIt(r)
    OBVIOUS
<1>6. added \in rows
    OBVIOUS
<1> HIDE DEF rows, f
<1>7. f.ids = b.ids /\ f.rows = rows
    BY <1>2 DEF Records
<1>8. SignedOnto(f, b, a, {})
    BY <1>3, <1>4, <1>5, <1>7 DEF SignedOnto
<1>9. ListsSigned(f, a, key, name)
    BY <1>4, <1>6, <1>7 DEF ListsSigned
<1> QED BY <1>8, <1>9 DEF f

LEMMA WithRenewedIds ==
    ASSUME NEW a \in Act, began[a] \in Nat, NEW b \in Records, NEW keys
    PROVE  /\ SignedOnto(WithRenewed(a, b, keys), b, a, {})
           /\ \A r \in b.rows : r.node \in keys \/ Signed(a, r.node) \in r.ids =>
                 ListsSigned(WithRenewed(a, b, keys), a, r.node, r.label)
<1> DEFINE Renewed(r) == [r EXCEPT !.standing = Signed(a, r.node),
                                   !.ids = InForce(@, began[a]) \cup {Signed(a, r.node)}]
           Kept(r) == IF r.node \in keys THEN Renewed(r) ELSE r
           rows == {Kept(r) : r \in b.rows}
           f == WithRenewed(a, b, keys)
<1>1. b.rows \in SUBSET Row
    BY DEF Records
<1>2. f = [b EXCEPT !.rows = rows]
    BY DEF WithRenewed
<1>3. ASSUME NEW r \in b.rows
      PROVE  /\ Kept(r).node = r.node /\ Kept(r).label = r.label
             /\ Kept(r).ids \subseteq r.ids \cup {Signed(a, r.node)}
             /\ Kept(r).standing \in {r.standing, Signed(a, r.node)}
             /\ r.node \in keys \/ Signed(a, r.node) \in r.ids => Signed(a, r.node) \in Kept(r).ids
    <2>1. r \in Row
        BY <1>1
    <2> DEFINE i == Signed(a, r.node)
               ids == InForce(r.ids, began[a]) \cup {i}
    <2>2. CASE r.node \in keys
        <3>1. Kept(r) = [r EXCEPT !.standing = i, !.ids = ids]
            BY <2>2
        <3>2. ids \subseteq r.ids \cup {i} /\ i \in ids
            BY DEF InForce
        <3> HIDE DEF Kept, i, ids
        <3>3. /\ Kept(r).node = r.node /\ Kept(r).label = r.label /\ Kept(r).ids = ids /\ Kept(r).standing = i
            BY <2>1, <3>1 DEF Row
        <3> QED BY <3>2, <3>3 DEF i
    <2>3. CASE r.node \notin keys
        <3>1. Kept(r) = r
            BY <2>3
        <3> HIDE DEF Kept
        <3> QED BY <2>3, <3>1
    <2> QED BY <2>2, <2>3
<1> HIDE DEF Kept
<1>4. (\A x \in rows : \E r \in b.rows : x = Kept(r)) /\ \A r \in b.rows : Kept(r) \in rows
    OBVIOUS
<1> HIDE DEF rows, f
<1>5. f.ids = b.ids /\ f.rows = rows
    BY <1>2 DEF Records
<1>6. SignedOnto(f, b, a, {})
    BY <1>3, <1>4, <1>5 DEF SignedOnto
<1>7. \A r \in b.rows : r.node \in keys \/ Signed(a, r.node) \in r.ids => ListsSigned(f, a, r.node, r.label)
    BY <1>3, <1>4, <1>5 DEF ListsSigned
<1> QED BY <1>6, <1>7 DEF f

LEMMA RekeyedIds ==
    ASSUME NEW a \in Act, began[a] \in Nat, NEW b \in Records, NEW name \in Labels(b.rows), NEW key
    PROVE  /\ SignedOnto(Rekeyed(a, b, name, key), b, a, {key})
           /\ ListsSigned(Rekeyed(a, b, name, key), a, key, name)
<1> DEFINE r == RowNamed(b.rows, name)
           i == Signed(a, key)
           ids == InForce(r.ids, began[a]) \cup {i}
           moved == [r EXCEPT !.node = key, !.standing = i, !.ids = ids]
           rows == (b.rows \ {r}) \cup {moved}
           f == Rekeyed(a, b, name, key)
<1>1. r \in b.rows /\ r.label = name /\ r \in Row
    BY RowNamedIn DEF Records
<1>2. f = [b EXCEPT !.rows = rows]
    BY DEF Rekeyed
<1>3. ids \subseteq r.ids \cup {i} /\ i \in ids
    BY DEF InForce
<1> HIDE DEF r, i, ids
<1>4. moved.node = key /\ moved.label = name /\ moved.ids = ids /\ moved.standing = i
    BY <1>1 DEF Row
<1> HIDE DEF moved
<1>5. (\A x \in rows : x = moved \/ x \in b.rows) /\ moved \in rows
    OBVIOUS
<1> HIDE DEF rows, f
<1>6. f.ids = b.ids /\ f.rows = rows
    BY <1>2 DEF Records
<1>7. SignedOnto(f, b, a, {key})
    BY <1>1, <1>3, <1>4, <1>5, <1>6 DEF SignedOnto, i
<1>8. ListsSigned(f, a, key, name)
    BY <1>3, <1>4, <1>5, <1>6 DEF ListsSigned, i
<1> QED BY <1>7, <1>8 DEF f

\* Nobody but a signs what a signs.
LEMMA SignedBy ==
    ASSUME NEW a, NEW key
    PROVE  Signed(a, key).key = key /\ Signed(a, key).by = a /\ Signed(a, key).ends = began[a] + Term
BY DEF Signed

LEMMA OntoForeign ==
    ASSUME NEW a, NEW b, NEW f, NEW moved, SignedOnto(f, b, a, moved), NEW c, c # a, Foreign(Ids(b), c)
    PROVE  Foreign(Ids(f), c)
<1>1. ASSUME NEW i \in Ids(f) PROVE i \in Ids(b) \/ i.by = a
    <2>1. CASE i \in f.ids
        BY <2>1 DEF SignedOnto, Ids
    <2>2. ASSUME NEW x \in f.rows, i \in x.ids \cup {x.standing} PROVE i \in Ids(b) \/ i.by = a
        <3>1. i = Signed(a, x.node) \/ \E r \in b.rows : i \in r.ids \cup {r.standing}
            BY <2>2 DEF SignedOnto
        <3> QED BY <3>1, SignedBy DEF Ids
    <2> QED BY <2>1, <2>2 DEF Ids
<1> QED BY <1>1 DEF Foreign

\* Brought forward from lists that no act's standing is in, nor its refusals, the records speak of none.
LEMMA KeptForeign ==
    ASSUME NEW b, NEW f, NEW more, NEW own, NEW time, KeptFrom(f, b, more, own, time), NEW c,
           Foreign(Ids(b), c), Foreign(more, c)
    PROVE  Foreign(Ids(f), c)
<1>1. ASSUME NEW i \in Ids(f) PROVE i \in Ids(b) \cup more
    <2>1. CASE i \in f.ids
        BY <2>1 DEF KeptFrom, Ids
    <2>2. ASSUME NEW x \in f.rows, i \in x.ids \cup {x.standing} PROVE i \in Ids(b) \cup more
        BY <2>2 DEF KeptFrom, Ids
    <2> QED BY <2>1, <2>2 DEF Ids
<1> QED BY <1>1 DEF Foreign

-----------------------------------------------------------------------------
(* Every step keeps the invariant. *)

LEMMA TypeNext == ASSUME IInv, Next PROVE TypeOK'
<1>1. TypeOK /\ Lists /\ Books /\ Locked
    BY DEF IInv
<1>2. ASSUME NEW h \in Home, NEW g \in Home, Hear(h, g) \/ HearFork(h, g) PROVE TypeOK'
    <2>1. /\ UNCHANGED <<now, copy, lock, stops, at, wanted, reads, signs, cut>>
          /\ refused' \in [Home -> SUBSET (Key \cup Standing)]
        BY <1>1, <1>2, Hears
    <2>2. devices' \in [Home -> Update] /\ conflict' \in [Home -> Update \cup {None}]
        BY <1>1, <1>2 DEF Hear, HearFork, HoldNewer, KeepFork, TypeOK
    <2> QED BY <1>1, <2>1, <2>2 DEF TypeOK, wanted, reads, signs
<1>3. CASE Tick
    BY <1>1, <1>3, ActAssumption DEF Tick, TypeOK, homes, wanted, reads, signs
<1>4. ASSUME NEW a \in Act, Acts(a) PROVE TypeOK'
    <2>1. Runs[a] \in Home /\ began[a] \in Nat /\ now \in 0..MaxTime
        BY <1>1, ActFacts DEF TypeOK
    <2>2. CASE Resolves(a)
        <3>1. PICK want \in Asks[a] : Resolve(a, want)
            BY <2>2 DEF Resolves
        <3>2. want \in Ask /\ Source(a).rows \subseteq Row /\ Source(a).marked \subseteq Row
            <4>1. Source(a) \in Records
                BY <1>1, ActFacts, BookOfParts, ForwardedSound DEF Source, IInv, IsBook
            <4> QED BY <4>1, ActAssumption DEF Records
        <3> DEFINE found == Source(a)
                   live == {r \in found.rows : r.label = want.name}
                   marked == {r \in found.marked : r.label = want.name}
        <3>3. PICK r \in IF live # {} THEN live ELSE marked :
                 /\ ask' = [ask EXCEPT ![a] = [want EXCEPT !.key = r.node]]
                 /\ seen' = [seen EXCEPT ![a] = Nodes(live) \cup {r.node}]
                 /\ block' = [block EXCEPT ![a] = InForce(r.ids, now) \cup {r.node}]
            BY <3>1 DEF Resolve
        <3>4. r \in Row
            BY <3>2
        <3>5. [want EXCEPT !.key = r.node] \in Ask
            BY <3>2, <3>4 DEF Ask, Row
        <3>6. Nodes(live) \cup {r.node} \subseteq Key /\ InForce(r.ids, now) \cup {r.node} \subseteq Key \cup Standing
            BY <3>2, <3>4 DEF Row, Nodes, InForce
        <3>7. /\ ask' \in [Act -> Ask] /\ seen' \in [Act -> SUBSET Key]
              /\ block' \in [Act -> SUBSET (Key \cup Standing)] /\ at' \in [Act -> Places]
            <4>1. at' = [at EXCEPT ![a] = "found"]
                BY <3>1 DEF Resolve, Go
            <4> HIDE DEF live
            <4> QED BY <1>1, <3>3, <3>5, <3>6, <4>1 DEF TypeOK, Places
        <3>8. UNCHANGED <<now, homes, copy, lock, stops, reads, signs, cut>>
            BY <3>1 DEF Resolve
        <3> QED BY <1>1, <3>7, <3>8 DEF TypeOK, homes, reads, signs
    <2>3. CASE Prints(a)
        <3>1. PICK want \in Asks[a] : Unchanged(a, want)
            BY <2>3 DEF Prints
        <3>2. PICK r \in Settled(a, want) : given' = [given EXCEPT ![a] = r.standing]
            BY <3>1 DEF Unchanged
        <3>3. r.standing \in Standing /\ want \in Ask /\ devices[Runs[a]] \in Update
            <4>1. r \in BookOf(Beside(a)).rows
                BY DEF Settled
            <4>2. BookOf(Beside(a)) \in Records
                BY <1>1, ActFacts, BookOfParts DEF IsBook
            <4> QED BY <1>1, <2>1, <4>1, <4>2, ActAssumption DEF Records, Row, TypeOK
        <3> QED BY <1>1, <3>1, <3>2, <3>3 DEF Unchanged, TypeOK, homes, reads, Go, Places
    <2>4. CASE Presents(a)
        <3>1. PICK want \in Asks[a] \cup {ask[a]} : Present(a, want)
            BY <2>4 DEF Presents
        <3>2. want \in Ask /\ Beside(a) \in Update /\ BookOf(Beside(a)) \in Records
            <4>1. want \in Ask /\ Beside(a) \in Update
                BY <1>1, <2>1, ActAssumption DEF TypeOK, Beside
            <4>2. BookOf(Beside(a)) \in Records
                BY <1>1, ActFacts, BookOfParts DEF IsBook
            <4> QED BY <4>1, <4>2
        <3>3. /\ ask' \in [Act -> Ask] /\ began' \in [Act -> 0..MaxTime] /\ list' \in [Act -> Update \cup {None}]
              /\ book' \in [Act -> Records] /\ at' \in [Act -> Places]
            BY <1>1, <2>1, <3>1, <3>2 DEF Present, TypeOK, Go, Places
        <3>4. UNCHANGED <<now, homes, copy, lock, stops, seen, block, held, fork, due, made, touched, given, cut>>
            BY <3>1 DEF Present
        <3> QED BY <1>1, <3>3, <3>4 DEF TypeOK, homes
    <2>5. CASE Block(a)
        BY <1>1, <2>1, <2>5 DEF Block, TypeOK, wanted, reads, signs, Go, Places
    <2>6. CASE Unlock(a)
        <3>1. book'[a] \in Records
            BY <2>6, UnlockSound DEF OnwardFrom, IsBook
        <3>2. Nodes({r \in book'[a].rows : Due(r, began[a])}) \subseteq Key
            BY <3>1 DEF Records, Row, Nodes
        <3>3. book' \in [Act -> Records] /\ due' \in [Act -> SUBSET Key]
            <4>1. due'[a] \subseteq Key
                BY <1>1, <2>6, <3>2, UnlockSets
            <4> QED BY <1>1, <2>6, <3>1, <4>1 DEF Unlock, TypeOK
        <3>4. held' \in [Act -> Update \cup {None}] /\ fork' \in [Act -> Update \cup {None}] /\ at' \in [Act -> Places]
            BY <1>1, <2>1, <2>6 DEF Unlock, TypeOK, Go, Places
        <3>5. UNCHANGED <<now, homes, copy, lock, stops, wanted, began, list, made, touched, given, cut>>
            BY <2>6 DEF Unlock
        <3> QED BY <1>1, <3>3, <3>4, <3>5 DEF TypeOK, homes, wanted
    <2>7. CASE Signs(a)
        <3>1. book'[a] \in Records /\ UNCHANGED <<now, homes, copy, lock, stops, wanted, reads, cut>>
            BY <2>7, SignsSound DEF SignedFrom, IsBook
        <3>2. ASSUME NEW b, NEW new \in SUBSET Key, NEW old \in SUBSET Key,
                     NEW standing \in Standing \cup {None}, Sign(a, b, new, old, standing)
              PROVE  /\ book' \in [Act -> Records] /\ due' \in [Act -> SUBSET Key] /\ made' \in [Act -> SUBSET Key]
                     /\ touched' \in [Act -> SUBSET Key] /\ given' \in [Act -> Standing \cup {None}]
                     /\ at' \in [Act -> Places]
            <4>1. book' \in [Act -> Records]
                BY <1>1, <3>1, <3>2 DEF Sign, TypeOK
            <4>2. /\ due' = [due EXCEPT ![a] = {}] /\ made' = [made EXCEPT ![a] = new]
                  /\ touched' = [touched EXCEPT ![a] = old \cup ((due[a] \ old) \cap Nodes(b.rows))]
                  /\ given' = [given EXCEPT ![a] = standing] /\ at' = [at EXCEPT ![a] = "signed"]
                BY <3>2 DEF Sign, Go
            <4> QED BY <1>1, <3>2, <4>1, <4>2 DEF TypeOK, Places
        <3>3. /\ book' \in [Act -> Records] /\ due' \in [Act -> SUBSET Key] /\ made' \in [Act -> SUBSET Key]
              /\ touched' \in [Act -> SUBSET Key] /\ given' \in [Act -> Standing \cup {None}]
              /\ at' \in [Act -> Places]
            <4>1. ask[a].key \in Key /\ Signed(a, ask[a].key) \in Standing /\ book[a] \in Records
                BY <1>1, <2>1, ActFacts, SignedType DEF TypeOK
            <4> DEFINE k == ask[a].key
                       signed == Signed(a, k)
                       row == RowNamed(book[a].rows, ask[a].name)
            <4>2. CASE Add(a)
                <5>1. Sign(a, WithRow(a, book[a], k, ask[a].name, ask[a].verb = "new key"), {k}, {}, signed)
                    BY <4>2 DEF Add
                <5> HIDE DEF k, signed
                <5>2. {k} \in SUBSET Key /\ {} \in SUBSET Key /\ signed \in Standing \cup {None}
                    BY <4>1 DEF k, signed
                <5> QED BY <3>2, <5>1, <5>2
            <4>3. CASE Rekey(a)
                <5>1. Sign(a, Rekeyed(a, book[a], ask[a].name, k), {k}, {row.node}, signed)
                    BY <4>3 DEF Rekey
                <5>2. row \in book[a].rows
                    BY <4>3, RowNamedIn DEF Rekey, Rekeys, CanRekey
                <5> HIDE DEF k, signed, row
                <5>3. {k} \in SUBSET Key /\ {row.node} \in SUBSET Key /\ signed \in Standing \cup {None}
                    BY <4>1, <5>2 DEF k, signed, Records, Row
                <5> QED BY <3>2, <5>1, <5>3
            <4>4. CASE Renew(a)
                <5>1. PICK r \in book[a].rows :
                         IF Skips(book[a], r, began[a]) THEN Sign(a, book[a], {}, {}, None)
                         ELSE Sign(a, WithRenewed(a, book[a], {r.node}), {}, {r.node}, Signed(a, r.node))
                    BY <4>4 DEF Renew
                <5>2. {} \in SUBSET Key /\ {r.node} \in SUBSET Key /\ Signed(a, r.node) \in Standing
                    BY <2>1, <4>1, SignedType DEF Records, Row
                <5> QED BY <3>2, <5>1, <5>2
            <4>5. CASE RevokeDevice(a)
                BY <3>2, <4>5 DEF RevokeDevice
            <4> QED BY <2>7, <4>2, <4>3, <4>4, <4>5 DEF Signs
        <3> QED BY <1>1, <3>1, <3>3 DEF TypeOK, homes, wanted, reads
    <2>8. CASE Refused(a)
        BY <1>1, <2>8 DEF Refused, TypeOK, homes, wanted, reads, signs, Go, Places
    <2>9. CASE Overtake(a)
        BY <1>1, <2>9 DEF Overtake, TypeOK, homes, wanted, reads, signs, Go, Places
    <2>10. CASE Commit(a)
        <3>1. cut'[a] \in Update /\ copy' \in [Dir -> Update]
            BY <2>10, Commits
        <3>2. lock' \in [Home -> Act \cup {None}]
            BY <1>1, <2>10, Commits DEF TypeOK
        <3>3. cut' \in [Act -> Update \cup {None}] /\ at' \in [Act -> Places]
            BY <1>1, <2>10, <3>1 DEF Commit, TypeOK, Go, Places
        <3> QED BY <1>1, <2>10, <3>1, <3>2, <3>3 DEF Commit, TypeOK, homes, wanted, reads, signs
    <2>11. CASE FoldCut(a)
        <3>1. /\ cut[a] \in Update /\ refused' \in [Home -> SUBSET (Key \cup Standing)]
              /\ lock' = [lock EXCEPT ![Runs[a]] = None]
            BY <1>1, <2>11, Folds
        <3>2. /\ devices' \in [Home -> Update] /\ conflict' \in [Home -> Update \cup {None}]
              /\ at' \in [Act -> Places]
            BY <1>1, <2>11, <3>1 DEF FoldCut, HoldNewer, TypeOK, homes, Go, Places
        <3> QED BY <1>1, <2>11, <3>1, <3>2 DEF FoldCut, TypeOK, wanted, reads, signs
    <2>12. CASE Stop(a)
        <3>1. stops' \in 0..MaxStops /\ lock' \in [Home -> Act \cup {None}] /\ at' \in [Act -> Places]
            BY <1>1, <2>1, <2>12, ActAssumption DEF Stop, TypeOK, Go, Places
        <3> QED BY <1>1, <2>12, <3>1 DEF Stop, TypeOK, homes, wanted, reads, signs
    <2> QED BY <1>4, <2>2, <2>3, <2>4, <2>5, <2>6, <2>7, <2>8, <2>9, <2>10, <2>11, <2>12 DEF Acts, Resolves, Prints
<1> QED BY <1>2, <1>3, <1>4, NextSteps

\* A tick moves the clock alone.
LEMMA Ticks == ASSUME Tick PROVE UNCHANGED <<homes, copy, lock, stops, at, wanted, reads, signs, cut>>
BY DEF Tick

LEMMA ListsNext == ASSUME IInv, Next PROVE Lists'
<1>1. TypeOK /\ Lists /\ Locked
    BY DEF IInv
<1>2. ASSUME NEW h \in Home, NEW g \in Home, Hear(h, g) \/ HearFork(h, g) PROVE Lists'
    <2>1. \A x \in Home : IsList(devices'[x]) /\ IsList(conflict'[x])
        BY <1>1, <1>2, Hears DEF Lists, IsList
    <2>2. UNCHANGED <<copy, reads, cut>>
        BY <1>1, <1>2, Hears
    <2> QED BY <1>1, <2>1, <2>2 DEF Lists, reads
<1>3. CASE Tick
    BY <1>1, <1>3, Ticks DEF Lists, homes, reads
<1>4. ASSUME NEW a \in Act, Acts(a) PROVE Lists'
    <2>1. IsList(devices[Runs[a]]) /\ IsList(conflict[Runs[a]]) /\ IsList(Beside(a)) /\ IsList(cut[a])
        BY <1>1, ActFacts DEF Lists
    <2>2. ASSUME NEW h \in Home PROVE IsList(devices'[h]) /\ IsList(conflict'[h])
        <3>1. CASE FoldCut(a)
            BY <1>1, <2>1, <3>1, Folds DEF Lists, IsList
        <3>2. CASE ~ FoldCut(a)
            BY <1>1, <1>4, <3>2, Frame DEF Lists
        <3> QED BY <3>1, <3>2
    <2>3. ASSUME NEW d \in Dir PROVE IsList(copy'[d])
        BY <1>1, <1>4, Frame, Commits DEF Lists
    <2>4. ASSUME NEW b \in Act PROVE IsList(list'[b]) /\ IsList(held'[b]) /\ IsList(fork'[b])
        <3>1. CASE b # a
            BY <1>1, <1>4, <3>1, Apart DEF Lists, Still
        <3>2. IsList(list'[a])
            BY <1>1, <1>4, <2>1, Frame, PresentSets DEF Lists
        <3>3. IsList(held'[a]) /\ IsList(fork'[a])
            BY <1>1, <1>4, <2>1, Frame, UnlockSets DEF Lists
        <3> QED BY <3>1, <3>2, <3>3
    <2>5. ASSUME NEW b \in Act PROVE IsList(cut'[b])
        <3>1. CASE b # a
            BY <1>1, <1>4, <3>1, Apart DEF Lists, Still
        <3>2. CASE Prints(a)
            BY <1>1, <2>1, <3>1, <3>2 DEF Prints, Unchanged, Lists, TypeOK
        <3> QED BY <1>1, <1>4, <3>1, <3>2, Frame, Commits DEF Lists
    <2> QED BY <2>2, <2>3, <2>4, <2>5 DEF Lists
<1> QED BY <1>2, <1>3, <1>4, NextSteps

LEMMA BooksNext == ASSUME IInv, Next PROVE Books'
<1>1. TypeOK /\ Lists /\ Books
    BY DEF IInv
<1>2. CASE UNCHANGED book
    BY <1>1, <1>2 DEF Books, Sound
<1>3. ASSUME NEW a \in Act, Acts(a) PROVE Books'
    <2>1. ASSUME NEW b \in Act, b # a PROVE IsBook(book'[b]) /\ Sound(b, book'[b])
        BY <1>1, <1>3, <2>1, Apart DEF Still, Books
    <2>2. CASE Presents(a)
        <3>1. IsList(Beside(a)) /\ book'[a] = BookOf(Beside(a))
            BY <1>1, <2>2, ActFacts, PresentSets
        <3>2. IsBook(book'[a]) /\ Sound(a, book'[a])
            BY <3>1, BookOfParts DEF Sound, IsBook, Sorted, Parted
        <3> QED BY <2>1, <3>2 DEF Books, Sound
    <2>3. CASE Unlock(a)
        <3>1. IsBook(book'[a]) /\ Sound(a, book'[a])
            BY <2>3, UnlockSound DEF OnwardFrom
        <3> QED BY <2>1, <3>1 DEF Books, Sound
    <2>4. CASE Signs(a)
        <3>1. IsBook(book'[a]) /\ Sound(a, book'[a])
            BY <2>4, SignsSound DEF SignedFrom
        <3> QED BY <2>1, <3>1 DEF Books, Sound
    <2> QED BY <1>2, <1>3, <2>2, <2>3, <2>4, Frame
<1> QED BY <1>1, <1>2, <1>3, NextSteps, Hears, Ticks DEF signs

LEMMA RoomNext == ASSUME IInv, Next, TypeOK' PROVE Room'
<1>1. TypeOK /\ Lists /\ Room
    BY DEF IInv
<1>2. CASE UNCHANGED <<at, began, book, due>>
    BY <1>1, <1>2 DEF Room
<1>3. ASSUME NEW a \in Act, Acts(a), NEW b \in Act, at'[b] = "unlocked"
      PROVE  /\ due'[b] \subseteq Nodes(book'[b].rows)
             /\ \A r \in book'[b].rows :
                   r.node \in due'[b] => Cardinality(InForce(r.ids, began'[b])) < MaxIds
    <2>1. CASE b # a
        BY <1>1, <1>3, <2>1, Apart DEF Still, Room
    <2>2. CASE b = a
        <3>1. Unlock(a) /\ began'[a] = began[a]
            BY <1>1, <1>3, <2>2, Moves, Frame
        <3> DEFINE f == book'[a]
                   late == {r \in f.rows : Due(r, began[a])}
        <3>2. due'[a] = Nodes(late) /\ IsBook(f)
            BY <1>1, <3>1, UnlockSets, UnlockSound DEF OnwardFrom
        <3> HIDE DEF f
        <3>3. ASSUME NEW r \in f.rows, r.node \in due'[a] PROVE Cardinality(InForce(r.ids, began[a])) < MaxIds
            <4>1. PICK q \in f.rows : Due(q, began[a]) /\ q.node = r.node
                BY <3>2, <3>3 DEF Nodes
            <4>2. q = r
                BY <3>2, <4>1 DEF IsBook, Sorted, OneEach
            <4> QED BY <4>1, <4>2 DEF Due
        <3>4. due'[a] \subseteq Nodes(f.rows)
            BY <3>2 DEF Nodes
        <3> QED BY <2>2, <3>1, <3>3, <3>4 DEF f
    <2> QED BY <2>1, <2>2
<1>4. ASSUME NEW a \in Act, Acts(a) PROVE Room'
    BY <1>3, <1>4 DEF Room
<1> QED BY <1>1, <1>2, <1>4, NextSteps, Hears, Ticks DEF reads, signs

\* The one device a revoke resolves its name to is not this machine, and is all it saw of the name.
LEMMA ResolveSets ==
    ASSUME IInv, NEW a \in Act, Resolves(a)
    PROVE  /\ ask'[a].verb = "revoke" /\ ask'[a].key # OwnKey(a) /\ seen'[a] = {ask'[a].key}
           /\ OwnKey(a) \notin block'[a]
<1>1. TypeOK /\ Lists /\ Spared
    BY DEF IInv
<1>2. PICK want \in Asks[a] : Resolve(a, want)
    BY DEF Resolves
<1> DEFINE found == Source(a)
           live == {r \in found.rows : r.label = want.name}
           marked == {r \in found.marked : r.label = want.name}
<1>3. PICK r \in IF live # {} THEN live ELSE marked :
         /\ r.node # OwnKey(a)
         /\ ask' = [ask EXCEPT ![a] = [want EXCEPT !.key = r.node]]
         /\ seen' = [seen EXCEPT ![a] = Nodes(live) \cup {r.node}]
         /\ block' = [block EXCEPT ![a] = InForce(r.ids, now) \cup {r.node}]
    BY <1>2 DEF Resolve
<1>4. IsBook(found)
    BY <1>1, ActFacts, BookOfParts, ForwardedSound DEF Source
<1>5. want \in Ask /\ want.verb = "revoke"
    BY <1>2, ActAssumption DEF Resolve
<1> HIDE DEF found
<1>6. r \in Row /\ OneEach(found.rows)
    BY <1>4 DEF IsBook, Records, Sorted
<1>7. Nodes(live) \cup {r.node} = {r.node}
    BY <1>3, <1>6 DEF OneEach, Nodes
<1>8. OwnKey(a) \notin InForce(r.ids, now)
    BY <1>1, <1>6, ActFacts, KindsAssumption DEF InForce, Row
<1> HIDE DEF live
<1>9. ask'[a] = [want EXCEPT !.key = r.node] /\ seen'[a] = {r.node} /\ block'[a] = InForce(r.ids, now) \cup {r.node}
    BY <1>1, <1>3, <1>7 DEF TypeOK
<1>10. ask'[a].verb = "revoke" /\ ask'[a].key = r.node
    BY <1>5, <1>9 DEF Ask
<1> QED BY <1>3, <1>8, <1>9, <1>10

LEMMA AimsNext == ASSUME IInv, Next PROVE Aims'
<1>1. TypeOK /\ Aims
    BY DEF IInv
<1>2. CASE UNCHANGED <<at, wanted>>
    BY <1>1, <1>2 DEF Aims, wanted
<1>3. ASSUME NEW a \in Act, Acts(a), NEW b \in Act, at'[b] # "idle"
      PROVE  IF ask'[b].verb = "revoke" THEN ask'[b].key # OwnKey(b) /\ seen'[b] = {ask'[b].key}
             ELSE ask'[b] \in Asks[b]
    <2>1. CASE b # a
        BY <1>1, <1>3, <2>1, Apart DEF Still, Aims
    <2>2. CASE b = a /\ Resolves(a)
        BY <2>2, ResolveSets
    <2>3. CASE b = a /\ Prints(a)
        BY <1>1, <2>3 DEF Prints, Unchanged, TypeOK
    <2>4. CASE b = a /\ Presents(a)
        <3>1. CASE at[a] = "idle"
            BY <1>1, <2>4, <3>1, PresentSets
        <3>2. CASE at[a] # "idle"
            <4>1. ask'[a] = ask[a] /\ at[a] = "blocked"
                BY <1>1, <2>4, <3>2, PresentSets, Moves
            <4>2. seen'[a] = seen[a]
                BY <2>4 DEF Presents, Present
            <4> QED BY <1>1, <2>4, <4>1, <4>2 DEF Aims
        <3> QED BY <3>1, <3>2
    <2>5. CASE b = a /\ ~ Resolves(a) /\ ~ Prints(a) /\ ~ Presents(a)
        BY <1>1, <1>3, <2>5, Moves, Frame DEF Aims
    <2> QED BY <2>1, <2>2, <2>3, <2>4, <2>5
<1>4. ASSUME NEW a \in Act, Acts(a) PROVE Aims'
    BY <1>3, <1>4 DEF Aims, OwnKey
<1> QED BY <1>1, <1>2, <1>4, NextSteps, Hears, Ticks

LEMMA SparedNext == ASSUME IInv, Next PROVE Spared'
<1>1. TypeOK /\ Spared /\ Locked
    BY DEF IInv
<1>2. ASSUME NEW h \in Home, NEW g \in Home, Hear(h, g) \/ HearFork(h, g) PROVE Spared'
    BY <1>1, <1>2, Hears DEF Spared, wanted, OwnKey
<1>3. CASE Tick
    BY <1>1, <1>3, Ticks DEF Spared, homes, wanted, OwnKey
<1>4. ASSUME NEW a \in Act, Acts(a) PROVE Spared'
    <2>1. ASSUME NEW h \in Home PROVE Own[h] \notin refused'[h]
        <3>1. CASE FoldCut(a)
            BY <1>1, <3>1, Folds DEF Spared
        <3>2. CASE Block(a)
            BY <1>1, <3>2 DEF Block, Spared, OwnKey, TypeOK
        <3> QED BY <1>1, <1>4, <3>1, <3>2, Frame DEF Spared
    <2>2. ASSUME NEW b \in Act PROVE OwnKey(b) \notin block'[b]
        <3>1. CASE b # a
            BY <1>1, <1>4, <3>1, Apart DEF Still, Spared
        <3>2. CASE b = a
            BY <1>1, <1>4, <3>2, Frame, ResolveSets DEF Spared
        <3> QED BY <3>1, <3>2
    <2> QED BY <2>1, <2>2 DEF Spared, OwnKey
<1> QED BY <1>2, <1>3, <1>4, NextSteps

LEMMA LockedNext == ASSUME IInv, Next PROVE Locked'
<1>1. TypeOK /\ Locked /\ Lists
    BY DEF IInv
<1>2. CASE UNCHANGED <<lock, at, cut>>
    BY <1>1, <1>2 DEF Locked
<1>3. ASSUME NEW a \in Act, Acts(a), NEW b \in Act
      PROVE  /\ at'[b] = "folding" => lock'[Runs[b]] = b /\ cut'[b] # None
             /\ at'[b] \in Unsigned \cup {"signed"} => cut'[b] = None
    <2>1. CASE b # a
        <3>1. at'[b] = at[b] /\ cut'[b] = cut[b]
            BY <1>1, <1>3, <2>1, Apart DEF Still
        <3>2. ASSUME at[b] = "folding" PROVE lock'[Runs[b]] = b
            <4>1. lock[Runs[b]] = b /\ Runs[b] \in Home /\ b # None
                BY <1>1, <3>2, OwnKeyType DEF Locked
            <4>2. CASE Commit(a)
                BY <1>1, <4>1, <4>2, Commits DEF TypeOK
            <4>3. CASE FoldCut(a) \/ Stop(a)
                <5>1. lock[Runs[a]] = a /\ lock' = [lock EXCEPT ![Runs[a]] = None]
                    BY <1>1, <4>3 DEF FoldCut, Stop, Locked
                <5> QED BY <1>1, <2>1, <4>1, <5>1 DEF TypeOK
            <4> QED BY <1>3, <4>1, <4>2, <4>3, Frame
        <3> QED BY <1>1, <3>1, <3>2 DEF Locked
    <2>2. CASE b = a /\ Commit(a)
        <3>1. cut'[a] # None /\ lock' = IF Cutting(a) THEN [lock EXCEPT ![Runs[a]] = a] ELSE lock
            BY <2>2, Commits
        <3>2. at'[a] = IF Cutting(a) THEN "folding" ELSE "done"
            BY <1>1, <2>2, Moves
        <3> QED BY <1>1, <2>2, <3>1, <3>2, OwnKeyType DEF TypeOK, Unsigned
    <2>3. CASE b = a /\ Prints(a)
        BY <1>1, <2>3, Moves DEF Unsigned
    <2>4. CASE b = a /\ ~ Commit(a) /\ ~ Prints(a)
        <3>1. cut'[a] = cut[a]
            BY <1>3, <2>4, Frame
        <3>2. at'[a] # "folding" /\ (at'[a] \in Unsigned \cup {"signed"} => at[a] \in Unsigned \cup {"signed"})
            BY <1>1, <1>3, <2>4, Moves DEF Unsigned
        <3> QED BY <1>1, <2>4, <3>1, <3>2 DEF Locked
    <2> QED BY <2>1, <2>2, <2>3, <2>4
<1>4. ASSUME NEW a \in Act, Acts(a) PROVE Locked'
    BY <1>3, <1>4 DEF Locked
<1> QED BY <1>1, <1>2, <1>4, NextSteps, Hears, Ticks

LEMMA UnreadNext == ASSUME IInv, Next PROVE Unread'
<1>1. TypeOK /\ Unread
    BY DEF IInv
<1>2. CASE UNCHANGED <<at, reads>>
    BY <1>1, <1>2 DEF Unread, reads
<1>3. ASSUME NEW a \in Act, Acts(a), NEW b \in Act, at'[b] \in {"idle", "found", "blocked", "prompt"}
      PROVE  held'[b] = None /\ fork'[b] = None
    <2>1. CASE b # a
        BY <1>1, <1>3, <2>1, Apart DEF Still, Unread
    <2>2. CASE b = a
        BY <1>1, <1>3, <2>2, Frame, Moves DEF Unread
    <2> QED BY <2>1, <2>2
<1>4. ASSUME NEW a \in Act, Acts(a) PROVE Unread'
    BY <1>3, <1>4 DEF Unread
<1> QED BY <1>1, <1>2, <1>4, NextSteps, Hears, Ticks

LEMMA OwnKeptNext == ASSUME IInv, Next PROVE OwnKept'
<1>1. TypeOK /\ Lists /\ OwnKept /\ Unread /\ Aims
    BY DEF IInv
<1>2. CASE UNCHANGED <<reads, book>>
    BY <1>1, <1>2 DEF OwnKept, reads, OwnKey
<1>3. ASSUME NEW a \in Act, Acts(a), NEW b \in Act, OwnKey(b) \in book'[b].keys
      PROVE  OwnKey(b) \in KeysIn(list'[b]) \cup KeysIn(held'[b]) \cup KeysIn(fork'[b])
    <2>1. CASE b # a
        BY <1>1, <1>3, <2>1, Apart DEF Still, OwnKept
    <2>2. CASE b = a /\ Presents(a)
        BY <1>1, <1>3, <2>2, PresentSets, ActFacts, BookOfParts
    <2>3. CASE b = a /\ Unlock(a)
        <3>1. held[a] = None /\ fork[a] = None
            BY <1>1, <2>3, Moves DEF Unread
        <3>2. OwnKey(a) \in book[a].keys \cup KeysIn(devices[Runs[a]]) \cup KeysIn(conflict[Runs[a]])
            BY <1>3, <2>3, UnlockSound DEF OnwardFrom
        <3>3. list'[a] = list[a]
            BY <2>3 DEF Unlock
        <3> QED BY <1>1, <2>3, <3>1, <3>2, <3>3, UnlockSets DEF OwnKept, KeysIn
    <2>4. CASE b = a /\ Signs(a)
        <3>1. OwnKey(a) \in book[a].keys \/ (ask[a].verb = "revoke" /\ OwnKey(a) = ask[a].key)
            <4>1. SignedFrom(a, book'[a]) /\ OwnKey(a) \in book'[a].keys
                BY <1>3, <2>4, SignsSound
            <4> QED BY <4>1 DEF SignedFrom
        <3>2. OwnKey(a) \in book[a].keys /\ UNCHANGED reads
            BY <1>1, <2>4, <3>1, SignsSound DEF Aims
        <3> QED BY <1>1, <2>4, <3>2 DEF OwnKept, reads
    <2>5. CASE b = a /\ ~ Presents(a) /\ ~ Unlock(a) /\ ~ Signs(a)
        BY <1>1, <1>3, <2>5, Frame DEF OwnKept
    <2> QED BY <2>1, <2>2, <2>3, <2>4, <2>5
<1>4. ASSUME NEW a \in Act, Acts(a) PROVE OwnKept'
    BY <1>3, <1>4 DEF OwnKept, OwnKey
<1> QED BY <1>1, <1>2, <1>4, NextSteps, Hears, Ticks DEF signs

\* A key that no list here and no act's records speak of is k's alone.
Unheard(k) ==
    /\ \A h \in Home : k \notin Mentions(devices[h]) \cup Mentions(conflict[h])
    /\ \A d \in Dir : k \notin Mentions(copy[d])
    /\ \A b \in Act : k \notin BookMentions(book[b]) \cup Mentions(cut[b])

\* Only an act asked to add it speaks of such a key first.
LEMMA StaysUnheard ==
    ASSUME IInv, NEW k, Unheard(k), NEW a \in Act, Acts(a), k # OwnKey(a),
           Signs(a) /\ ask[a].verb \in {"add", "new key"} => k # ask[a].key
    PROVE  Unheard(k)'
<1>1. TypeOK /\ Lists /\ Locked /\ Mentions(None) = {}
    BY DEF IInv, Mentions, NodesIn, KeysIn
<1>2. /\ k \notin Mentions(devices[Runs[a]]) \cup Mentions(conflict[Runs[a]]) \cup Mentions(Beside(a))
      /\ k \notin BookMentions(book[a]) \cup Mentions(cut[a])
    BY <1>1, ActFacts DEF Unheard, Beside
<1>3. k \notin BookMentions(book'[a])
    <2>1. CASE Presents(a)
        <3>1. book'[a] = BookOf(Beside(a)) /\ IsList(Beside(a))
            BY <1>1, <2>1, PresentSets, ActFacts
        <3>2. BookMentions(BookOf(Beside(a))) \subseteq Mentions(Beside(a))
            BY <3>1, BookOfParts DEF BookMentions, Mentions, Nodes
        <3> QED BY <1>2, <3>1, <3>2
    <2>2. CASE Unlock(a)
        BY <1>2, <2>2, UnlockSound DEF OnwardFrom
    <2>3. CASE Signs(a)
        BY <1>2, <2>3, SignsSound DEF SignedFrom
    <2> QED BY <1>2, <2>1, <2>2, <2>3, Frame
<1>4. Commit(a) => k \notin Mentions(cut'[a])
    BY <1>2, Commits
<1>5. ASSUME NEW h \in Home PROVE k \notin Mentions(devices'[h]) \cup Mentions(conflict'[h])
    <2>1. CASE FoldCut(a)
        <3>1. devices'[h] \in {devices[h], cut[a]} /\ conflict'[h] \in {conflict[h], None}
            BY <1>1, <2>1, Folds
        <3> QED BY <1>1, <1>2, <3>1 DEF Unheard
    <2> QED BY <2>1, Frame DEF Unheard
<1>6. ASSUME NEW d \in Dir PROVE k \notin Mentions(copy'[d])
    BY <1>4, <1>6, Commits, Frame DEF Unheard
<1>7. ASSUME NEW b \in Act PROVE k \notin BookMentions(book'[b]) \cup Mentions(cut'[b])
    <2>1. CASE b # a
        BY <1>1, <2>1, Apart DEF Still, Unheard
    <2>2. CASE Prints(a)
        <3>1. cut'[a] = devices[Runs[a]]
            BY <1>1, <2>2 DEF Prints, Unchanged, TypeOK
        <3> QED BY <1>2, <1>3, <2>1, <3>1
    <2> QED BY <1>2, <1>3, <1>4, <2>1, <2>2, Frame
<1> QED BY <1>5, <1>6, <1>7 DEF Unheard

LEMMA FreshNext == ASSUME IInv, Next PROVE Fresh'
<1>1. TypeOK /\ Aims /\ \A a \in Act : at[a] \in Unsigned => \A k \in NewKey(a) : Unheard(k)
    BY DEF IInv, Fresh, Unheard
<1>2. ASSUME NEW h \in Home, NEW g \in Home, Hear(h, g) \/ HearFork(h, g), NEW k, Unheard(k) PROVE Unheard(k)'
    <2>1. k \notin Mentions(None)
        BY DEF Mentions, NodesIn, KeysIn
    <2>2. \A x \in Home : k \notin Mentions(devices'[x]) \cup Mentions(conflict'[x])
        BY <1>1, <1>2, <2>1, Hears DEF Unheard
    <2>3. UNCHANGED <<copy, book, cut>>
        BY <1>1, <1>2, Hears DEF signs
    <2> QED BY <1>2, <2>2, <2>3 DEF Unheard
<1>3. ASSUME NEW k, Unheard(k), Tick PROVE Unheard(k)'
    BY <1>3, Ticks DEF Unheard, homes, signs
<1>4. ASSUME NEW a \in Act, Acts(a), NEW b \in Act, at'[b] \in Unsigned, NEW k \in NewKey(b) PROVE Unheard(k)'
    <2>1. at[b] \in Unsigned /\ Unheard(k)
        BY <1>1, <1>4, Moves, Apart DEF Still, Unsigned
    <2>2. k # OwnKey(a)
        <3>1. OwnKey(a) \in {Own[h] : h \in Home}
            BY <1>4, OwnKeyType DEF OwnKey
        <3>2. k \notin {Own[h] : h \in Home}
            BY <1>4, NewKeyAssumption
        <3> QED BY <3>1, <3>2
    <2>3. ASSUME Signs(a), ask[a].verb \in {"add", "new key"} PROVE k # ask[a].key
        <3>1. a # b
            BY <1>1, <1>4, <2>3, Moves DEF Unsigned
        <3>2. ask[a] \in Asks[a]
            BY <1>1, <2>3, Moves DEF Aims
        <3> QED BY <1>4, <2>3, <3>1, <3>2, NewKeyAssumption
    <2> QED BY <1>4, <2>1, <2>2, <2>3, StaysUnheard
<1>5. \A a \in Act : at'[a] \in Unsigned => \A k \in NewKey(a) : Unheard(k)'
    BY <1>1, <1>2, <1>3, <1>4, NextSteps, Hears, Ticks
<1> QED BY <1>5 DEF Fresh, Unheard, NewKey

LEMMA NumberedNext == ASSUME IInv, Next PROVE Numbered'
<1>1. TypeOK /\ Lists /\ Numbered
    BY DEF IInv
<1>2. CASE UNCHANGED <<at, held, book>>
    BY <1>1, <1>2 DEF Numbered
<1>3. ASSUME NEW a \in Act, Acts(a), NEW b \in Act, at'[b] \in {"unlocked", "signed"}
      PROVE  book'[b].number >= Number(held'[b])
    <2>1. CASE b # a
        BY <1>1, <1>3, <2>1, Apart DEF Still, Numbered
    <2>2. CASE b = a
        <3>1. Unlock(a) \/ Signs(a)
            BY <1>1, <1>3, <2>2, Moves
        <3>2. CASE Unlock(a)
            <4>1. book'[a].number >= devices[Runs[a]].number
                BY <3>2, UnlockSound
            <4>2. held'[a] = devices[Runs[a]]
                BY <1>1, <3>2, UnlockSets
            <4>3. Runs[a] \in Home
                BY <1>1, ActFacts
            <4>4. Number(devices[Runs[a]]) = devices[Runs[a]].number
                BY <1>1, <4>3, HomeFacts
            <4> QED BY <2>2, <4>1, <4>2, <4>4
        <3>3. CASE Signs(a)
            <4>1. book'[a].number = book[a].number /\ held'[a] = held[a] /\ at[a] = "unlocked"
                BY <3>3, SignsSound DEF SignedFrom, reads
            <4> QED BY <1>1, <2>2, <4>1 DEF Numbered
        <3> QED BY <3>1, <3>2, <3>3
    <2> QED BY <2>1, <2>2
<1>4. ASSUME NEW a \in Act, Acts(a) PROVE Numbered'
    BY <1>3, <1>4 DEF Numbered, Number
<1> QED BY <1>1, <1>2, <1>4, NextSteps, Hears, Ticks DEF reads, signs

\* What another act or another machine does to the home of an act that folds its cut: nothing, for it has the lock.
LEMMA Undisturbed ==
    ASSUME IInv, NEW a \in Act, at[a] = "folding", NEW b \in Act, b # a, Acts(b)
    PROVE  devices'[Runs[a]] = devices[Runs[a]] /\ conflict'[Runs[a]] = conflict[Runs[a]]
<1>1. TypeOK /\ Locked /\ lock[Runs[a]] = a /\ Runs[a] \in Home /\ a # None
    BY OwnKeyType DEF IInv, Locked
<1>2. CASE FoldCut(b)
    <2>1. Runs[b] # Runs[a]
        BY <1>1, <1>2, Folds
    <2> QED BY <1>1, <1>2, <2>1, Folds
<1> QED BY <1>2, Frame

LEMMA CutIsNewestNext == ASSUME IInv, Next PROVE CutIsNewest'
<1>1. TypeOK /\ Locked /\ CutIsNewest
    BY DEF IInv
<1>2. ASSUME NEW h \in Home, NEW g \in Home, Hear(h, g) \/ HearFork(h, g) PROVE CutIsNewest'
    <2>1. /\ lock[h] = None /\ UNCHANGED <<at, cut>>
          /\ \A x \in Home \ {h} : devices'[x] = devices[x]
        BY <1>1, <1>2, Hears
    <2>2. ASSUME NEW a \in Act, at'[a] = "folding" PROVE devices'[Runs[a]] = devices[Runs[a]]
        BY <1>1, <2>1, <2>2, OwnKeyType DEF Locked
    <2> QED BY <1>1, <2>1, <2>2 DEF CutIsNewest, IsNewer
<1>3. CASE Tick
    BY <1>1, <1>3, Ticks DEF CutIsNewest, IsNewer, homes
<1>4. ASSUME NEW b \in Act, Acts(b), NEW a \in Act, at'[a] = "folding"
      PROVE  cut'[a].number > devices'[Runs[a]].number
    <2>1. CASE a # b
        <3>1. at[a] = "folding" /\ cut'[a] = cut[a]
            BY <1>1, <1>4, <2>1, Apart DEF Still
        <3> QED BY <1>1, <1>4, <2>1, <3>1, Undisturbed DEF CutIsNewest, IsNewer
    <2>2. CASE a = b
        <3>1. Commit(a) /\ Cutting(a)
            BY <1>1, <1>4, <2>2, Moves
        <3>2. devices' = devices
            BY <3>1 DEF Commit, homes
        <3> QED BY <3>1, <3>2, Commits
    <2> QED BY <2>1, <2>2
<1>5. ASSUME NEW b \in Act, Acts(b) PROVE CutIsNewest'
    BY <1>4, <1>5 DEF CutIsNewest, IsNewer
<1> QED BY <1>2, <1>3, <1>5, NextSteps

LEMMA OwnNotFirstNext == ASSUME IInv, Next PROVE OwnNotFirst'
<1> DEFINE Given(a) == KeysIn(list[a]) \cup KeysIn(held[a]) \cup KeysIn(fork[a])
                         \cup KeysIn(devices[Runs[a]]) \cup KeysIn(conflict[Runs[a]])
<1>1. TypeOK /\ Lists /\ Locked /\ OwnKept
    BY DEF IInv
<1>2. OwnNotFirst <=> \A a \in Act : at[a] = "folding" /\ OwnKey(a) \in cut[a].keys => OwnKey(a) \in Given(a)
    BY DEF OwnNotFirst, KeysIn
<1>3. OwnNotFirst' <=> \A a \in Act : at'[a] = "folding" /\ OwnKey(a) \in cut'[a].keys => OwnKey(a) \in Given(a)'
    BY DEF OwnNotFirst, KeysIn, OwnKey
<1>4. \A a \in Act : at[a] = "folding" /\ OwnKey(a) \in cut[a].keys => OwnKey(a) \in Given(a)
    BY <1>2 DEF IInv
<1>5. ASSUME NEW a \in Act, devices'[Runs[a]] = devices[Runs[a]], conflict'[Runs[a]] = conflict[Runs[a]],
             list'[a] = list[a], held'[a] = held[a], fork'[a] = fork[a]
      PROVE  Given(a)' = Given(a)
    BY <1>5 DEF KeysIn
<1> HIDE DEF Given
<1>6. ASSUME NEW h \in Home, NEW g \in Home, Hear(h, g) \/ HearFork(h, g), NEW a \in Act,
             at'[a] = "folding", OwnKey(a) \in cut'[a].keys
      PROVE  OwnKey(a) \in Given(a)'
    <2>1. /\ lock[h] = None /\ UNCHANGED <<at, cut, reads>>
          /\ \A x \in Home \ {h} : devices'[x] = devices[x] /\ conflict'[x] = conflict[x]
        BY <1>1, <1>6, Hears
    <2>2. Runs[a] \in Home \ {h}
        BY <1>1, <1>6, <2>1, OwnKeyType DEF Locked
    <2> QED BY <1>4, <1>5, <1>6, <2>1, <2>2 DEF reads
<1>7. ASSUME Tick, NEW a \in Act, at'[a] = "folding", OwnKey(a) \in cut'[a].keys PROVE OwnKey(a) \in Given(a)'
    BY <1>4, <1>5, <1>7, Ticks DEF homes, reads
<1>8. ASSUME NEW b \in Act, Acts(b), NEW a \in Act, at'[a] = "folding", OwnKey(a) \in cut'[a].keys
      PROVE  OwnKey(a) \in Given(a)'
    <2>1. CASE a # b
        <3>1. at[a] = "folding" /\ cut'[a] = cut[a] /\ list'[a] = list[a] /\ held'[a] = held[a] /\ fork'[a] = fork[a]
            BY <1>1, <1>8, <2>1, Apart DEF Still
        <3>2. devices'[Runs[a]] = devices[Runs[a]] /\ conflict'[Runs[a]] = conflict[Runs[a]]
            BY <1>8, <2>1, <3>1, Undisturbed
        <3> QED BY <1>4, <1>5, <1>8, <3>1, <3>2
    <2>2. CASE a = b
        <3>1. Commit(a) /\ Cutting(a) /\ at[a] = "signed"
            BY <1>1, <1>8, <2>2, Moves
        <3>2. UNCHANGED <<devices, conflict, list, held, fork>>
            BY <3>1 DEF Commit, homes, reads
        <3>3. OwnKey(a) \in book[a].keys \cup KeysIn(devices[Runs[a]]) \cup KeysIn(conflict[Runs[a]])
            BY <1>8, <3>1, Commits, BroughtSound DEF OnwardFrom
        <3>4. OwnKey(a) \in Given(a)
            BY <1>1, <3>3 DEF Given, OwnKept
        <3> QED BY <1>5, <3>2, <3>4
    <2> QED BY <2>1, <2>2
<1> QED BY <1>3, <1>6, <1>7, <1>8, NextSteps

LEMMA RevokingNext == ASSUME IInv, Next PROVE Revoking'
<1>1. TypeOK /\ Revoking
    BY DEF IInv
<1>2. CASE UNCHANGED <<at, ask, book>>
    BY <1>1, <1>2 DEF Revoking
<1>3. ASSUME NEW a \in Act, Acts(a), NEW b \in Act, at'[b] = "signed", ask'[b].verb = "revoke"
      PROVE  ask'[b].key \in book'[b].keys /\ ask'[b].name \notin Labels(book'[b].rows)
    <2>1. CASE b # a
        BY <1>1, <1>3, <2>1, Apart DEF Still, Revoking
    <2>2. CASE b = a
        <3>1. Signs(a)
            BY <1>1, <1>3, <2>2, Moves
        <3>2. SignedFrom(a, book'[a]) /\ ask' = ask
            BY <3>1, SignsSound DEF wanted
        <3> QED BY <1>3, <2>2, <3>2 DEF SignedFrom
    <2> QED BY <2>1, <2>2
<1>4. ASSUME NEW a \in Act, Acts(a) PROVE Revoking'
    BY <1>3, <1>4 DEF Revoking, Labels
<1> QED BY <1>1, <1>2, <1>4, NextSteps, Hears, Ticks DEF wanted, signs

\* A revoke that commits has its key revoked and its name gone, whatever its records were brought forward from.
LEMMA Nameless ==
    ASSUME IInv, NEW a \in Act, Commit(a), ask[a].verb = "revoke"
    PROVE  ask[a].key \in Brought(a).keys /\ ask[a].name \notin Labels(Brought(a).rows)
<1>1. TypeOK /\ Revoking /\ Aims /\ at[a] = "signed"
    BY DEF IInv, Commit
<1>2. ask[a].key \in book[a].keys /\ ask[a].name \notin Labels(book[a].rows)
    BY <1>1 DEF Revoking
<1>3. OnwardFrom(a, Brought(a))
    BY <1>1, BroughtSound
<1>4. Nodes(Brought(a).rows) \cap Brought(a).keys = {} /\ ask[a].key \in Brought(a).keys
    BY <1>2, <1>3 DEF OnwardFrom, Sound
<1>5. CASE Moved(a)
    <2>1. ~ NameMoved(a, Brought(a)) /\ seen[a] = {ask[a].key}
        BY <1>1, <1>5 DEF Commit, Overtaken, Aims
    <2> QED BY <1>4, <2>1 DEF NameMoved, Labels, Nodes
<1>6. CASE ~ Moved(a)
    BY <1>2, <1>4, <1>6 DEF Brought
<1> QED BY <1>5, <1>6

LEMMA KeyRevokedNext == ASSUME IInv, Next PROVE KeyRevoked'
<1>1. TypeOK /\ Revoking /\ KeyRevoked /\ Locked /\ Aims
    BY DEF IInv
<1>2. CASE UNCHANGED <<at, ask, cut>>
    BY <1>1, <1>2 DEF KeyRevoked, Committed
<1>3. ASSUME NEW a \in Act, Acts(a), NEW b \in Act,
             at'[b] \in {"folding", "done"}, cut'[b] # None, ask'[b].verb = "revoke"
      PROVE  ask'[b].key \in cut'[b].keys /\ (at'[b] = "folding" => ask'[b].name \notin Labels(cut'[b].rows))
    <2>1. CASE b # a
        BY <1>1, <1>3, <2>1, Apart DEF Still, KeyRevoked, Committed
    <2>2. CASE b = a /\ Commit(a)
        <3>1. ask' = ask /\ at[a] = "signed"
            BY <2>2 DEF Commit, wanted
        <3>2. ask[a].key \in Brought(a).keys
            BY <1>3, <2>2, <3>1, Nameless
        <3>3. ask'[a].key \in cut'[a].keys
            BY <2>2, <3>1, <3>2, Commits
        <3>4. ask[a].name \notin Labels(Brought(a).rows)
            BY <1>3, <2>2, <3>1, Nameless
        <3>5. at'[a] = "folding" => Cutting(a)
            BY <1>1, <2>2, Moves
        <3> QED BY <2>2, <3>1, <3>3, <3>4, <3>5, Commits
    <2>3. CASE b = a /\ Prints(a)
        BY <1>1, <1>3, <2>3 DEF Prints, Unchanged, TypeOK
    <2>4. CASE b = a /\ FoldCut(a)
        BY <1>1, <1>3, <2>4, Moves DEF FoldCut, wanted, KeyRevoked, Committed
    <2>5. CASE b = a /\ Block(a)
        BY <1>1, <1>3, <2>5 DEF Block, Locked, Unsigned
    <2> QED BY <1>1, <1>3, <2>1, <2>2, <2>3, <2>4, <2>5, Moves
<1>4. ASSUME NEW a \in Act, Acts(a) PROVE KeyRevoked'
    <2>1. Locked'
        BY LockedNext
    <2> QED BY <1>3, <1>4, <2>1 DEF KeyRevoked, Committed, Labels, Locked
<1> QED BY <1>1, <1>2, <1>4, NextSteps, Hears, Ticks DEF wanted

LEMMA HandingNext == ASSUME IInv, Next PROVE Handing'
<1>1. TypeOK /\ Handing
    BY DEF IInv
<1>2. CASE UNCHANGED <<at, signs>>
    BY <1>1, <1>2 DEF Handing, signs
<1>3. ASSUME NEW a \in Act, Acts(a), NEW b \in Act, at'[b] = "signed", given'[b] # None
      PROVE  given'[b].key \in made'[b] \cup touched'[b] /\ given'[b].key \in Nodes(book'[b].rows)
    <2>1. CASE b # a
        BY <1>1, <1>3, <2>1, Apart DEF Still, Handing
    <2>2. CASE b = a
        BY <1>1, <1>3, <2>2, Moves, SignsSound DEF HandsOut
    <2> QED BY <2>1, <2>2
<1>4. ASSUME NEW a \in Act, Acts(a) PROVE Handing'
    BY <1>3, <1>4 DEF Handing, Nodes
<1> QED BY <1>1, <1>2, <1>4, NextSteps, Hears, Ticks

LEMMA HandsListedNext == ASSUME IInv, Next PROVE HandsListed'
<1>1. TypeOK /\ Handing /\ HandsListed /\ Books
    BY DEF IInv
<1>2. CASE UNCHANGED <<at, given, cut>>
    BY <1>1, <1>2 DEF HandsListed
<1>3. ASSUME NEW a \in Act, Acts(a), NEW b \in Act, at'[b] = "folding", given'[b] # None
      PROVE  given'[b].key \notin cut'[b].keys /\ given'[b].key \in Nodes(cut'[b].rows)
    <2>1. CASE b # a
        BY <1>1, <1>3, <2>1, Apart DEF Still, HandsListed
    <2>2. CASE b = a
        <3>1. Commit(a) /\ Cutting(a) /\ at[a] = "signed" /\ given' = given
            BY <1>1, <1>3, <2>2, Moves DEF Commit, signs
        <3> DEFINE k == given[a].key
        <3>2. k \in made[a] \cup touched[a] /\ k \in Nodes(book[a].rows) /\ k \notin book[a].keys
            BY <1>1, <1>3, <2>2, <3>1 DEF Handing, Books, Sound
        <3>3. (made[a] \cup touched[a]) \cap (Brought(a).keys \ book[a].keys) = {}
            BY <3>1 DEF Commit, Overtaken
        <3>4. k \notin Brought(a).keys
            BY <3>2, <3>3
        <3>5. k \in Nodes(Brought(a).rows)
            BY <3>1, <3>2, <3>4, BroughtSound DEF OnwardFrom
        <3> HIDE DEF k
        <3>6. k \notin cut'[a].keys /\ k \in Nodes(cut'[a].rows)
            BY <3>1, <3>4, <3>5, Commits
        <3> QED BY <2>2, <3>1, <3>6 DEF k
    <2> QED BY <2>1, <2>2
<1>4. ASSUME NEW a \in Act, Acts(a) PROVE HandsListed'
    BY <1>3, <1>4 DEF HandsListed, Nodes
<1> QED BY <1>1, <1>2, <1>4, NextSteps, Hears, Ticks DEF signs

\* A home's update is only ever replaced by a higher one.
LEMMA HomeAdvances ==
    ASSUME IInv, Next, NEW h \in Home
    PROVE  devices'[h] = devices[h] \/ devices'[h].number > devices[h].number
<1>1. TypeOK
    BY DEF IInv
<1>2. ASSUME NEW x \in Home, NEW g \in Home, Hear(x, g) \/ HearFork(x, g)
      PROVE  devices'[h] = devices[h] \/ devices'[h].number > devices[h].number
    BY <1>1, <1>2 DEF Hear, HearFork, HoldNewer, KeepFork, IsNewer, TypeOK
<1>3. CASE Tick
    BY <1>3, Ticks DEF homes
<1>4. ASSUME NEW a \in Act, FoldCut(a)
      PROVE  devices'[h] = devices[h] \/ devices'[h].number > devices[h].number
    BY <1>1, <1>4 DEF FoldCut, HoldNewer, IsNewer, TypeOK, homes
<1> QED BY <1>2, <1>3, <1>4, NextSteps, Frame

LEMMA OpenedNext == ASSUME IInv, Next PROVE Opened'
<1>1. TypeOK /\ Opened
    BY DEF IInv
<1>2. CASE UNCHANGED <<at, list, book>>
    BY <1>1, <1>2 DEF Opened
<1>3. ASSUME NEW a \in Act, Acts(a), NEW b \in Act, at'[b] = "prompt"
      PROVE  book'[b] = BookOf(list'[b])
    <2>1. CASE b # a
        BY <1>1, <1>3, <2>1, Apart DEF Still, Opened
    <2>2. CASE b = a
        <3>1. Presents(a)
            BY <1>1, <1>3, <2>2, Moves
        <3> QED BY <1>1, <2>2, <3>1, PresentSets
    <2> QED BY <2>1, <2>2
<1>4. ASSUME NEW a \in Act, Acts(a) PROVE Opened'
    BY <1>3, <1>4 DEF Opened
<1> QED BY <1>1, <1>2, <1>4, NextSteps, Hears, Ticks DEF reads, signs

\* Brought forward at the prompt, the records speak of every device of the list beside the key, and of the update held
\* when it is ahead of that list.
LEMMA UnlockGathers ==
    ASSUME IInv, NEW a \in Act, Unlock(a)
    PROVE  /\ book'[a].number \in {Number(list[a]), Number(devices[Runs[a]]), Number(conflict[Runs[a]])}
           /\ NodesIn(list[a]) \subseteq Spoken(book'[a])
           /\ Number(devices[Runs[a]]) > Number(list[a]) => NodesIn(devices[Runs[a]]) \subseteq Spoken(book'[a])
<1> DEFINE b == book[a]
           f == Forwarded(a, b, began[a])
           g == CarryOwn(a, f)
           u == devices[Runs[a]]
           v == conflict[Runs[a]]
<1>1. TypeOK /\ Lists /\ Spared /\ began[a] \in Nat /\ IsBook(b) /\ Sound(a, b) /\ IsList(list[a])
    BY ActFacts DEF IInv, Books, Lists
<1>2. b = BookOf(list[a])
    BY DEF IInv, Opened, Unlock
<1>3. b.number = Number(list[a]) /\ Nodes(b.rows) = NodesIn(list[a])
    BY <1>1, <1>2, BookOfParts
<1>4. book'[a] = g
    BY <1>1 DEF Unlock, TypeOK
<1>5. ForwardedFrom(f, b, u, v, refused[Runs[a]], OwnKey(a))
    BY <1>1, ForwardedParts
<1>6. IsBook(f) /\ Sound(a, f)
    BY <1>1, ForwardedSound
<1> HIDE DEF b, f, u, v
<1>7. g.number = f.number /\ g.keys = f.keys /\ Nodes(f.rows) \subseteq Nodes(g.rows)
    BY <1>1, <1>6, CarryOwnSound
<1> HIDE DEF g
<1>8. /\ f.number \in {b.number, Number(u), Number(v)}
      /\ Nodes(b.rows) \subseteq Nodes(f.rows) \cup f.keys
      /\ Number(u) > b.number => NodesIn(u) \subseteq Nodes(f.rows) \cup f.keys
    BY <1>5 DEF ForwardedFrom
<1> QED BY <1>3, <1>4, <1>7, <1>8 DEF Spoken, u, v

LEMMA GatheredNext == ASSUME IInv, Next PROVE Gathered'
<1>1. TypeOK /\ Lists /\ Gathered
    BY DEF IInv
<1>2. ASSUME NEW b \in Act, at[b] \in {"unlocked", "signed"}, at'[b] \in {"unlocked", "signed"},
             ask'[b] = ask[b], list'[b] = list[b], held'[b] = held[b], fork'[b] = fork[b],
             book'[b].number = book[b].number, ask[b].verb = "revoke" => Spoken(book[b]) \subseteq Spoken(book'[b])
      PROVE  /\ book'[b].number \in {Number(list'[b]), Number(held'[b]), Number(fork'[b])}
             /\ devices'[Runs[b]] = held'[b] \/ devices'[Runs[b]].number > Number(held'[b])
             /\ ask'[b].verb = "revoke" =>
                   /\ NodesIn(list'[b]) \subseteq Spoken(book'[b])
                   /\ Number(held'[b]) > Number(list'[b]) => NodesIn(held'[b]) \subseteq Spoken(book'[b])
    <2>1. /\ book[b].number \in {Number(list[b]), Number(held[b]), Number(fork[b])}
          /\ devices[Runs[b]] = held[b] \/ devices[Runs[b]].number > Number(held[b])
          /\ ask[b].verb = "revoke" =>
                /\ NodesIn(list[b]) \subseteq Spoken(book[b])
                /\ Number(held[b]) > Number(list[b]) => NodesIn(held[b]) \subseteq Spoken(book[b])
        BY <1>1, <1>2 DEF Gathered
    <2>2. Runs[b] \in Home
        BY OwnKeyType
    <2>3. devices'[Runs[b]] = held[b] \/ devices'[Runs[b]].number > Number(held[b])
        <3>1. devices'[Runs[b]] = devices[Runs[b]] \/ devices'[Runs[b]].number > devices[Runs[b]].number
            BY <2>2, HomeAdvances
        <3>2. /\ devices[Runs[b]].number \in Nat /\ Number(devices[Runs[b]]) = devices[Runs[b]].number
              /\ IsList(held[b])
            BY <1>1, <2>2, HomeFacts DEF Lists
        <3>3. Number(held[b]) \in Nat
            BY <3>2 DEF IsList, Update, Number
        <3>4. devices'[Runs[b]] \in Update /\ devices'[Runs[b]].number \in Nat
            BY <2>2, TypeNext DEF TypeOK, Update
        <3> QED BY <2>1, <3>1, <3>2, <3>3, <3>4
    <2> QED BY <1>2, <2>1, <2>3
<1>3. ASSUME UNCHANGED <<at, ask, list, held, fork, book>> PROVE Gathered'
    BY <1>2, <1>3 DEF Gathered, Number, NodesIn, Spoken, Nodes
<1>4. ASSUME NEW a \in Act, Acts(a), NEW b \in Act, at'[b] \in {"unlocked", "signed"}
      PROVE  /\ book'[b].number \in {Number(list'[b]), Number(held'[b]), Number(fork'[b])}
             /\ devices'[Runs[b]] = held'[b] \/ devices'[Runs[b]].number > Number(held'[b])
             /\ ask'[b].verb = "revoke" =>
                   /\ NodesIn(list'[b]) \subseteq Spoken(book'[b])
                   /\ Number(held'[b]) > Number(list'[b]) => NodesIn(held'[b]) \subseteq Spoken(book'[b])
    <2>1. CASE b # a
        BY <1>1, <1>2, <1>4, <2>1, Apart DEF Still
    <2>2. CASE b = a /\ Signs(a)
        <3>1. at[a] = "unlocked" /\ UNCHANGED <<ask, list, held, fork>> /\ SignedFrom(a, book'[a])
            BY <2>2, SignsSound DEF wanted, reads
        <3>2. /\ book'[a].number = book[a].number
              /\ ask[a].verb = "revoke" => Spoken(book[a]) \subseteq Spoken(book'[a])
            BY <3>1 DEF SignedFrom, Spoken
        <3> QED BY <1>2, <1>4, <2>2, <3>1, <3>2
    <2>3. CASE b = a /\ Unlock(a)
        <3>1. held'[a] = devices[Runs[a]] /\ fork'[a] = conflict[Runs[a]] /\ list'[a] = list[a]
              /\ devices' = devices
            BY <1>1, <2>3, UnlockSets DEF Unlock, homes
        <3> QED BY <2>3, <3>1, UnlockGathers
    <2> QED BY <1>1, <1>4, <2>1, <2>2, <2>3, Moves
<1>5. ASSUME NEW a \in Act, Acts(a) PROVE Gathered'
    BY <1>4, <1>5 DEF Gathered, Number, NodesIn, Spoken, Nodes
<1> QED BY <1>1, <1>3, <1>5, NextSteps, Hears, Ticks DEF wanted, reads, signs

\* At its commit the records of a revoke speak of every device of the home's update, when that is past what the revoke
\* was given.
LEMMA SpeaksOfHome ==
    ASSUME IInv, NEW a \in Act, at[a] = "signed", ask[a].verb = "revoke",
           list[a] = devices[Runs[a]] \/ Number(list[a]) < devices[Runs[a]].number,
           fork[a] = None \/ held[a] = devices[Runs[a]] \/ Number(fork[a]) < devices[Runs[a]].number
    PROVE  Nodes(devices[Runs[a]].rows) \subseteq Spoken(Brought(a))
<1> DEFINE u == devices[Runs[a]]
<1>1. /\ TypeOK /\ Lists /\ u # None /\ u.number \in Nat /\ Number(u) = u.number
      /\ NodesIn(u) = Nodes(u.rows) /\ began[a] \in Nat /\ IsBook(book[a])
    BY ActFacts, HomeFacts DEF IInv, Books, NodesIn
<1>2. /\ book[a].number \in {Number(list[a]), Number(held[a]), Number(fork[a])}
      /\ u = held[a] \/ u.number > Number(held[a])
      /\ NodesIn(list[a]) \subseteq Spoken(book[a])
      /\ Number(held[a]) > Number(list[a]) => NodesIn(held[a]) \subseteq Spoken(book[a])
    BY DEF IInv, Gathered
<1>3. Number(list[a]) \in Nat /\ Number(held[a]) \in Nat
    BY <1>1 DEF Lists, IsList, Update, Number
<1> HIDE DEF u
<1>4. Spoken(book[a]) \subseteq Spoken(Brought(a))
    BY BroughtSound DEF OnwardFrom, Spoken
<1>5. CASE list[a] = u
    BY <1>1, <1>2, <1>4, <1>5 DEF u
<1>6. CASE Number(list[a]) < u.number /\ u = held[a]
    BY <1>1, <1>2, <1>4, <1>6 DEF u
<1>7. CASE Number(list[a]) < u.number /\ u # held[a]
    <2>1. Number(held[a]) < u.number
        BY <1>1, <1>2, <1>3, <1>7
    <2>2. Number(fork[a]) < u.number
        <3>1. CASE fork[a] = None
            BY <1>1, <1>3, <1>7, <3>1 DEF Number
        <3> QED BY <1>7, <3>1 DEF u
    <2>3. book[a].number < u.number
        BY <1>2, <1>7, <2>1, <2>2
    <2>4. Brought(a) = Forwarded(a, book[a], began[a])
        BY <1>7 DEF Brought, Moved, u
    <2>5. ForwardedFrom(Brought(a), book[a], u, conflict[Runs[a]], refused[Runs[a]], OwnKey(a))
        BY <1>1, <2>4, ForwardedParts DEF u
    <2>6. book[a].number \in Nat
        BY <1>1 DEF IsBook, Records
    <2> QED BY <1>1, <2>3, <2>5, <2>6 DEF ForwardedFrom, Spoken, u
<1> QED BY <1>5, <1>6, <1>7 DEF u

LEMMA NameGoneNext == ASSUME IInv, Next PROVE NameGone'
<1>1. TypeOK /\ Lists /\ KeyRevoked /\ NameGone /\ Locked /\ Aims
    BY DEF IInv
<1>2. CASE UNCHANGED <<at, ask, cut, list, held, fork>>
    BY <1>1, <1>2 DEF NameGone, Committed, Past, Number
<1>3. ASSUME NEW a \in Act, Acts(a), NEW b \in Act,
             at'[b] \in {"folding", "done"}, cut'[b] # None, ask'[b].verb = "revoke",
             list'[b] = cut'[b] \/ Number(list'[b]) < cut'[b].number,
             fork'[b] = None \/ held'[b] = cut'[b] \/ Number(fork'[b]) < cut'[b].number
      PROVE  ask'[b].name \notin Labels(cut'[b].rows)
    <2>1. CASE b # a
        BY <1>1, <1>3, <2>1, Apart DEF Still, NameGone, Committed, Past
    <2>2. CASE b = a /\ Commit(a)
        <3> DEFINE u == devices[Runs[a]]
                   c == Brought(a)
        <3>1. ask' = ask /\ at[a] = "signed" /\ list' = list /\ held' = held /\ fork' = fork
            BY <2>2 DEF Commit, wanted, reads
        <3>2. ask[a].name \notin Labels(c.rows)
            BY <1>3, <2>2, <3>1, Nameless
        <3>3. CASE Cutting(a)
            BY <2>2, <3>1, <3>2, <3>3, Commits
        <3>4. CASE ~ Cutting(a)
            <4>1. cut'[a] = u /\ u # None /\ IsList(u)
                BY <1>1, <2>2, <3>4, HomeFacts, ActFacts DEF Commit, TypeOK
            <4>2. Nodes(u.rows) \subseteq Spoken(c)
                BY <1>3, <2>2, <3>1, <4>1, SpeaksOfHome
            <4>3. c.keys \subseteq u.keys
                BY <3>4 DEF Cutting, Lacks
            <4>4. ASSUME NEW r \in c.rows PROVE \E m \in u.rows : m.node = r.node /\ m.label = r.label
                <5>1. PICK m \in u.rows : [m EXCEPT !.ids = {}] = [r EXCEPT !.ids = {}]
                    BY <3>4 DEF Cutting, Lacks
                <5>2. r \in Row /\ m \in Row
                    BY <3>1, <4>1, BroughtSound DEF OnwardFrom, IsBook, Records, IsList, Update
                <5> QED BY <5>1, <5>2 DEF Row
            <4> HIDE DEF u, c
            <4>5. ASSUME NEW m \in u.rows, m.label = ask[a].name PROVE FALSE
                <5>1. m.node \in Nodes(c.rows)
                    BY <4>1, <4>2, <4>3, <4>5 DEF Spoken, IsList, WellFormed, Nodes
                <5>2. PICK r \in c.rows : r.node = m.node
                    BY <5>1 DEF Nodes
                <5>3. PICK n \in u.rows : n.node = r.node /\ n.label = r.label
                    BY <4>4
                <5>4. n = m
                    BY <4>1, <5>2, <5>3 DEF IsList, WellFormed, OneEach
                <5> QED BY <3>2, <4>5, <5>3, <5>4 DEF Labels
            <4> QED BY <2>2, <3>1, <4>1, <4>5 DEF Labels
        <3> QED BY <3>3, <3>4
    <2>3. CASE b = a /\ Prints(a)
        BY <1>1, <1>3, <2>3 DEF Prints, Unchanged, TypeOK
    <2>4. CASE b = a /\ FoldCut(a)
        BY <1>1, <1>3, <2>4, Moves DEF FoldCut, wanted, KeyRevoked, Committed
    <2>5. CASE b = a /\ Block(a)
        BY <1>1, <1>3, <2>5 DEF Block, Locked, Unsigned
    <2> QED BY <1>1, <1>3, <2>1, <2>2, <2>3, <2>4, <2>5, Moves
<1>4. ASSUME NEW a \in Act, Acts(a) PROVE NameGone'
    BY <1>3, <1>4 DEF NameGone, Committed, Past, Labels, Number
<1> QED BY <1>1, <1>2, <1>4, NextSteps, Hears, Ticks DEF wanted, reads

\* The list beside the key, the home's lists and its refusals speak of no standing that a signed and nobody knows of.
LEMMA HomeForeign ==
    ASSUME TypeOK, Lists, NEW a \in Act, NEW c, Unspoken(c)
    PROVE  /\ Foreign(IdsIn(devices[Runs[a]]), c) /\ Foreign(IdsIn(Beside(a)), c)
           /\ Foreign(IdsIn(devices[Runs[a]]) \cup IdsIn(conflict[Runs[a]]) \cup refused[Runs[a]], c)
BY OwnKeyType, ForeignBoth DEF Unspoken, Beside

LEMMA ForwardedKeeps ==
    ASSUME TypeOK, Lists, NEW a \in Act, NEW b, IsBook(b), NEW time \in Nat
    PROVE  KeptFrom(Forwarded(a, b, time), b,
                    IdsIn(devices[Runs[a]]) \cup IdsIn(conflict[Runs[a]]) \cup refused[Runs[a]], OwnKey(a), time)
BY ActFacts, ForwardKeeps DEF Forwarded

\* Nor do the records brought forward from them, or opened from one.
LEMMA ForwardedForeign ==
    ASSUME TypeOK, Lists, NEW a \in Act, NEW b, IsBook(b), NEW time \in Nat, NEW c, Unspoken(c), Foreign(Ids(b), c)
    PROVE  /\ Foreign(Ids(Forwarded(a, b, time)), c)
           /\ b.marked = {} => \A r \in Forwarded(a, b, time).marked : Foreign(r.ids, c)
<1> DEFINE f == Forwarded(a, b, time)
           more == IdsIn(devices[Runs[a]]) \cup IdsIn(conflict[Runs[a]]) \cup refused[Runs[a]]
<1>1. KeptFrom(f, b, more, OwnKey(a), time) /\ Foreign(more, c)
    BY ForwardedKeeps, HomeForeign
<1> HIDE DEF f, more
<1>2. Foreign(Ids(f), c)
    BY <1>1, KeptForeign
<1>3. ASSUME b.marked = {}, NEW r \in f.marked, NEW i \in r.ids PROVE i \in more \cup Ids(b)
    BY <1>1, <1>3 DEF KeptFrom, Ids
<1>4. Foreign(more \cup Ids(b), c)
    BY <1>1, ForeignBoth
<1>5. ASSUME b.marked = {}, NEW r \in f.marked PROVE Foreign(r.ids, c)
    <2>1. r.ids \subseteq more \cup Ids(b)
        BY <1>3, <1>5
    <2> QED BY <1>4, <2>1, ForeignPart
<1> QED BY <1>2, <1>5 DEF f

LEMMA ListForeign ==
    ASSUME NEW u, NEW c, Foreign(IdsIn(u), c)
    PROVE  Foreign(Ids(BookOf(u)), c) /\ BookOf(u).marked = {}
BY NoneForeign DEF BookOf, IdsIn, Ids

\* What a revoke refuses here before it presents the root is nothing that nobody knows of.
LEMMA ResolveForeign ==
    ASSUME TypeOK, Lists, NEW a \in Act, Resolves(a), NEW c, Unspoken(c)
    PROVE  Foreign(block'[a], c)
<1>1. PICK want \in Asks[a] : Resolve(a, want)
    BY DEF Resolves
<1> DEFINE found == Source(a)
<1>2. PICK r \in found.rows \cup found.marked : block' = [block EXCEPT ![a] = InForce(r.ids, now) \cup {r.node}]
    BY <1>1 DEF Resolve
<1>3. now \in Nat /\ IsList(devices[Runs[a]]) /\ IsList(Beside(a))
    BY ActFacts
<1>4. IsBook(found)
    BY <1>3, BookOfParts, ForwardedParts DEF Source, ForwardedFrom
<1>5. Foreign(Ids(found), c) /\ \A q \in found.marked : Foreign(q.ids, c)
    <2>1. CASE From[a] = NoRoot
        <3>1. found = BookOf(devices[Runs[a]])
            BY <2>1 DEF Source
        <3>2. found.marked = {} /\ Foreign(Ids(found), c)
            BY <3>1, HomeForeign, ListForeign
        <3> QED BY <3>2
    <2>2. CASE From[a] # NoRoot
        <3> DEFINE b == BookOf(Beside(a))
        <3>1. found = Forwarded(a, b, now)
            BY <2>2 DEF Source
        <3>2. IsBook(b) /\ b.marked = {} /\ Foreign(Ids(b), c)
            BY <1>3, HomeForeign, ListForeign, BookOfParts
        <3> QED BY <1>3, <3>1, <3>2, ForwardedForeign
    <2> QED BY <2>1, <2>2
<1> HIDE DEF found
<1>6. Foreign(r.ids, c)
    <2>1. CASE r \in found.rows
        <3>1. r.ids \subseteq Ids(found)
            BY <2>1 DEF Ids
        <3> QED BY <1>5, <3>1, ForeignPart
    <2> QED BY <1>2, <1>5, <2>1
<1>7. r.node \notin Standing
    BY <1>2, <1>4, KindsAssumption DEF IsBook, Records, Row
<1>8. block'[a] = InForce(r.ids, now) \cup {r.node}
    BY <1>2 DEF TypeOK
<1> QED BY <1>6, <1>7, <1>8 DEF Foreign, InForce

\* carry_own signs for this machine's own row alone.
LEMMA CarryOwnIds ==
    ASSUME NEW a \in Act, began[a] \in Nat, NEW b \in Records
    PROVE  SignedOnto(CarryOwn(a, b), b, a, {})
<1> DEFINE own == OwnKey(a)
           name == FreshName(b.rows)
           no == FALSE
<1>1. SignedOnto(b, b, a, {})
    BY DEF SignedOnto
<1>2. SignedOnto(WithRenewed(a, b, {own}), b, a, {})
    BY WithRenewedIds
<1>3. SignedOnto(WithRow(a, b, own, name, no), b, a, {})
    <2> HIDE DEF own, name, no
    <2> QED BY WithRowIds
<1>4. CarryOwn(a, b) \in {b, WithRenewed(a, b, {own}), WithRow(a, b, own, name, no)}
    BY DEF CarryOwn
<1> QED BY <1>1, <1>2, <1>3, <1>4

LEMMA SignIds ==
    ASSUME TypeOK, Lists, NEW a \in Act, NEW b \in Records, NEW new, NEW old, NEW standing,
           Sign(a, b, new, old, standing)
    PROVE  /\ SignedOnto(book'[a], b, a, {}) /\ given'[a] = standing
           /\ \A r \in b.rows : Signed(a, r.node) \in r.ids => ListsSigned(book'[a], a, r.node, r.label)
<1> DEFINE late == (due[a] \ old) \cap Nodes(b.rows)
<1>1. book'[a] = WithRenewed(a, b, late) /\ given'[a] = standing /\ began[a] \in Nat
    BY ActFacts DEF Sign, TypeOK
<1> HIDE DEF late
<1> QED BY <1>1, WithRenewedIds

\* The records f are what an invite made of b's: it signed for the key it handed out a standing for.
InvitedTo(a, f, b, standing) ==
    \E c \in Records, moved \in SUBSET Key :
        /\ SignedOnto(c, b, a, moved) /\ SignedOnto(f, c, a, {})
        /\ standing # None =>
              /\ standing = Signed(a, standing.key) /\ moved \subseteq {standing.key}
              /\ ListsSigned(f, a, standing.key, ask[a].name)

LEMMA InviteIds ==
    ASSUME IInv, NEW a \in Act, Add(a) \/ Rekey(a) \/ Renew(a)
    PROVE  InvitedTo(a, book'[a], book[a], given'[a])
<1> DEFINE k == ask[a].key
           n == ask[a].name
           b == book[a]
<1>1. /\ TypeOK /\ Lists /\ k \in Key /\ n \in Name /\ began[a] \in Nat /\ IsBook(b)
      /\ b \in Records
    BY ActFacts DEF IInv, Books, IsBook
<1>2. ASSUME NEW c \in Records, NEW new, NEW old, NEW key \in Key, NEW moved \in SUBSET Key, moved \subseteq {key},
             Sign(a, c, new, old, Signed(a, key)), SignedOnto(c, b, a, moved), ListsSigned(c, a, key, n)
      PROVE  InvitedTo(a, book'[a], b, given'[a])
    <2>1. PICK r \in c.rows : r.node = key /\ r.label = n /\ Signed(a, key) \in r.ids
        BY <1>2 DEF ListsSigned
    <2>2. SignedOnto(book'[a], c, a, {}) /\ given'[a] = Signed(a, key) /\ ListsSigned(book'[a], a, key, n)
        BY <1>1, <1>2, <2>1, SignIds
    <2>3. given'[a].key = key
        BY <2>2, SignedBy
    <2> HIDE DEF b, n
    <2> QED BY <1>2, <2>2, <2>3 DEF InvitedTo, n
<1>3. CASE Add(a)
    <2> DEFINE seeded == ask[a].verb = "new key"
               c == WithRow(a, b, k, n, seeded)
    <2>1. Sign(a, c, {k}, {}, Signed(a, k)) /\ k \notin Nodes(b.rows)
        BY <1>3 DEF Add, Adds, CanAdd
    <2>2. PICK s \in BOOLEAN : s = seeded
        OBVIOUS
    <2> HIDE DEF seeded, b, k, n
    <2>3. AddedTo(c, b, k)
        BY <1>1, <2>1, <2>2, WithRowParts
    <2>4. SignedOnto(c, b, a, {}) /\ ListsSigned(c, a, k, n)
        BY <1>1, WithRowIds
    <2>5. c \in Records
        BY <2>3 DEF AddedTo, IsBook
    <2> HIDE DEF c
    <2> QED BY <1>1, <1>2, <2>1, <2>4, <2>5 DEF b
<1>4. CASE Rekey(a)
    <2> DEFINE c == Rekeyed(a, b, n, k)
    <2>1. Sign(a, c, {k}, {RowNamed(b.rows, n).node}, Signed(a, k))
        BY <1>4 DEF Rekey
    <2>2. /\ at[a] = "unlocked" /\ ask[a].verb = "new key" /\ n \in Labels(b.rows)
          /\ Cardinality(InForce(RowNamed(b.rows, n).ids, began[a])) < MaxIds
        BY <1>4 DEF Rekey, Rekeys, Asked, CanRekey
    <2>3. k \notin Nodes(b.rows)
        BY <2>2, NewKeyFresh DEF IInv, BookMentions
    <2> HIDE DEF b, k, n
    <2>4. RekeyedFrom(c, b, k)
        BY <1>1, <2>2, <2>3, RekeyedParts
    <2>5. SignedOnto(c, b, a, {k}) /\ ListsSigned(c, a, k, n)
        BY <1>1, <2>2, RekeyedIds
    <2>6. c \in Records
        BY <2>4 DEF RekeyedFrom, IsBook
    <2> HIDE DEF c
    <2> QED BY <1>1, <1>2, <2>1, <2>5, <2>6 DEF b
<1>5. CASE Renew(a)
    <2>1. PICK r \in b.rows :
             /\ Renews(a, r)
             /\ IF Skips(b, r, began[a]) THEN Sign(a, b, {}, {}, None)
                ELSE Sign(a, WithRenewed(a, b, {r.node}), {}, {r.node}, Signed(a, r.node))
        BY <1>5 DEF Renew
    <2>2. r.label = n /\ r.node \in Key
        BY <1>1, <2>1 DEF Renews, Records, Row
    <2>3. CASE Skips(b, r, began[a])
        <3>1. SignedOnto(book'[a], b, a, {}) /\ given'[a] = None
            BY <1>1, <2>1, <2>3, SignIds
        <3>2. SignedOnto(b, b, a, {})
            BY DEF SignedOnto
        <3> QED BY <1>1, <3>1, <3>2 DEF InvitedTo
    <2>4. CASE ~ Skips(b, r, began[a])
        <3> DEFINE j == r.node
                   c == WithRenewed(a, b, {j})
        <3>1. Sign(a, c, {}, {j}, Signed(a, j))
            BY <2>1, <2>4
        <3>2. SignedOnto(c, b, a, {}) /\ ListsSigned(c, a, j, n) /\ j \in Key
            BY <1>1, <2>2, WithRenewedIds
        <3>3. c \in Records
            BY <1>1, WithRenewedParts DEF IsBook
        <3> HIDE DEF c, j
        <3> QED BY <1>1, <1>2, <3>1, <3>2, <3>3
    <2> QED BY <2>3, <2>4
<1> QED BY <1>3, <1>4, <1>5

\* What an act signs is its own.
LEMMA SignsForeign ==
    ASSUME IInv, NEW a \in Act, Signs(a), NEW c, c # a, Foreign(Ids(book[a]), c)
    PROVE  Foreign(Ids(book'[a]), c)
<1>1. CASE Add(a) \/ Rekey(a) \/ Renew(a)
    <2>1. PICK b \in Records, moved \in SUBSET Key :
             SignedOnto(b, book[a], a, moved) /\ SignedOnto(book'[a], b, a, {})
        BY <1>1, InviteIds DEF InvitedTo
    <2>2. Foreign(Ids(b), c)
        BY <2>1, OntoForeign
    <2> QED BY <2>1, <2>2, OntoForeign
<1>2. CASE RevokeDevice(a)
    <2> DEFINE k == ask[a].key
               with == [book[a] EXCEPT !.keys = @ \cup {k}]
               b == FollowKeys(with, began[a])
    <2>1. TypeOK /\ Lists /\ k \in Key /\ began[a] \in Nat /\ book[a] \in Records
        BY ActFacts DEF IInv, Books, IsBook
    <2>2. Sign(a, b, {}, {}, None)
        BY <1>2 DEF RevokeDevice
    <2>3. with \in Records /\ with.rows = book[a].rows /\ with.ids = book[a].ids
        <3> HIDE DEF k
        <3> QED BY <2>1 DEF Records
    <2> HIDE DEF with
    <2>4. b \in Records /\ KeptFrom(b, with, {}, OwnKey(a), began[a])
        BY <2>1, <2>3, FollowKeysParts, FollowKeysKeeps
    <2>5. Ids(with) = Ids(book[a])
        BY <2>3 DEF Ids
    <2> HIDE DEF b
    <2>6. Foreign(Ids(b), c)
        BY <2>4, <2>5, KeptForeign, NoneForeign
    <2>7. SignedOnto(book'[a], b, a, {})
        BY <2>1, <2>2, <2>4, SignIds
    <2> QED BY <2>6, <2>7, OntoForeign
<1> QED BY <1>1, <1>2 DEF Signs

\* The standing an act signs is the device's alone.
LEMMA SignsGiven ==
    ASSUME IInv, NEW a \in Act, Signs(a), given'[a] # None
    PROVE  GivenTo(a)'
<1>1. TypeOK /\ Lists /\ SignsOwn(a) /\ began' = began /\ ask' = ask /\ began[a] \in Nat
    BY SignsSound, ActFacts DEF IInv, Unsaid, Unsigned, wanted, reads
<1>2. given'[a] \in Standing
    <2>1. TypeOK'
        BY TypeNext DEF Next, Signs, Invite, Publish
    <2> QED BY <1>1, <2>1 DEF TypeOK
<1>3. Add(a) \/ Rekey(a) \/ Renew(a)
    <2>1. ASSUME RevokeDevice(a) PROVE given'[a] = None
        BY <1>1, <2>1 DEF RevokeDevice, Sign, TypeOK
    <2> QED BY <2>1 DEF Signs
<1> DEFINE i == given'[a]
           k == i.key
           f == book'[a]
           n == ask[a].name
<1>4. PICK c \in Records, moved \in SUBSET Key :
         /\ SignedOnto(c, book[a], a, moved) /\ SignedOnto(f, c, a, {})
         /\ i = Signed(a, k) /\ moved \subseteq {k} /\ ListsSigned(f, a, k, n)
    BY <1>3, InviteIds DEF InvitedTo
<1>5. i.by = a /\ i \in Standing
    BY <1>2, <1>4, SignedBy
<1> HIDE DEF i, f
<1>6. i \notin f.ids
    BY <1>1, <1>4, <1>5 DEF SignedOnto, SignsOwn, Foreign
<1>7. ASSUME NEW x \in f.rows, i \in x.ids PROVE x.node = k
    <2>1. ASSUME NEW j, i = Signed(a, j) PROVE j = k
        BY <2>1, SignedBy
    <2>2. i = Signed(a, x.node) \/ \E y \in c.rows : i \in y.ids /\ y.node = x.node
        BY <1>4, <1>7 DEF SignedOnto
    <2>3. ASSUME NEW y \in c.rows, i \in y.ids PROVE y.node = k
        <3>1. \/ i = Signed(a, y.node)
              \/ \E r \in book[a].rows : i \in r.ids /\ (r.node = y.node \/ y.node \in moved)
            BY <1>4, <2>3 DEF SignedOnto
        <3> QED BY <1>1, <1>4, <1>5, <2>1, <3>1 DEF SignsOwn
    <2> QED BY <2>1, <2>2, <2>3
<1>8. \E r \in f.rows : r.node = k /\ r.label = n /\ i \in r.ids
    BY <1>4 DEF ListsSigned
<1>9. i = [key |-> k, ends |-> began'[a] + Term, by |-> a]
    BY <1>1, <1>4 DEF Signed
<1> QED BY <1>1, <1>6, <1>7, <1>8, <1>9 DEF GivenTo, Signed, i, f, k, n

\* The records of an act speak of no other act's standing that nobody knows of.
LEMMA BookForeign ==
    ASSUME IInv, NEW a \in Act, Acts(a), NEW c, c # a, Unspoken(c), Foreign(Ids(book[a]), c)
    PROVE  Foreign(Ids(book'[a]), c)
<1>1. TypeOK /\ Lists /\ began[a] \in Nat /\ IsBook(book[a])
    BY ActFacts DEF IInv, Books
<1>2. CASE Presents(a)
    <2>1. book'[a] = BookOf(Beside(a)) /\ Foreign(IdsIn(Beside(a)), c)
        BY <1>1, <1>2, PresentSets, HomeForeign
    <2> QED BY <2>1, ListForeign
<1>3. CASE Unlock(a)
    <2> DEFINE f == Forwarded(a, book[a], began[a])
    <2>1. book'[a] = CarryOwn(a, f)
        BY <1>1, <1>3 DEF Unlock, TypeOK
    <2>2. f \in Records
        BY <1>1, ForwardedParts DEF ForwardedFrom, IsBook
    <2>3. Foreign(Ids(f), c)
        BY <1>1, ForwardedForeign
    <2> HIDE DEF f
    <2> QED BY <1>1, <2>1, <2>2, <2>3, CarryOwnIds, OntoForeign
<1>4. CASE Signs(a)
    BY <1>4, SignsForeign
<1> QED BY <1>2, <1>3, <1>4, Frame

\* Past its prompt an act has signed at most for its machine's own row.
LEMMA UnlockOwn ==
    ASSUME IInv, NEW a \in Act, Unlock(a)
    PROVE  SignsOwn(a)'
<1> DEFINE f == Forwarded(a, book[a], began[a])
           g == CarryOwn(a, f)
<1>1. TypeOK /\ Lists /\ began[a] \in Nat /\ IsBook(book[a]) /\ at[a] = "prompt"
    BY ActFacts, Moves DEF IInv, Books
<1>2. book'[a] = g
    BY <1>1 DEF Unlock, TypeOK
<1>3. Unspoken(a) /\ Foreign(Ids(book[a]), a)
    BY <1>1 DEF IInv, Unsaid, Unsigned
<1>4. f \in Records /\ Foreign(Ids(f), a)
    BY <1>1, <1>3, ForwardedParts, ForwardedForeign DEF ForwardedFrom, IsBook
<1> HIDE DEF f
<1>5. SignedOnto(g, f, a, {})
    BY <1>1, <1>4, CarryOwnIds
<1> HIDE DEF g
<1>6. Foreign(g.ids, a)
    BY <1>4, <1>5 DEF SignedOnto, Foreign, Ids
<1>7. ASSUME NEW x \in g.rows, NEW i \in x.ids, i.by = a PROVE i.key = x.node
    <2>1. ASSUME NEW r \in f.rows, i \in r.ids PROVE FALSE
        <3>1. i \in Standing /\ i \in Ids(f)
            BY <1>4, <2>1 DEF Records, Row, Ids
        <3> QED BY <1>4, <1>7, <3>1 DEF Foreign
    <2> QED BY <1>5, <1>7, <2>1, SignedBy DEF SignedOnto
<1> QED BY <1>2, <1>6, <1>7 DEF SignsOwn, Foreign

\* What the cut of the records lists is theirs, with the ids in force.
LEMMA CutIds ==
    ASSUME NEW b \in Records, NEW number, NEW time
    PROVE  LET c == Cut(b, number, time)
           IN  /\ c.ids = InForce(b.ids, time) /\ c.keys = b.keys
               /\ \A r \in b.rows : \E x \in c.rows :
                     x.node = r.node /\ x.label = r.label /\ x.ids = InForce(r.ids, time)
               /\ Ids(c) \subseteq Ids(b)
<1> DEFINE Pruned(r) == [r EXCEPT !.ids = InForce(@, time)]
           c == Cut(b, number, time)
<1>1. \A r \in b.rows : /\ Pruned(r).node = r.node /\ Pruned(r).label = r.label
                        /\ Pruned(r).standing = r.standing /\ Pruned(r).ids = InForce(r.ids, time)
    BY DEF Records, Row
<1>2. c.rows = {Pruned(r) : r \in b.rows} /\ c.ids = InForce(b.ids, time) /\ c.keys = b.keys
    BY DEF Cut
<1> HIDE DEF c, Pruned
<1>3. \A x \in c.rows : \E r \in b.rows : x.standing = r.standing /\ x.ids \subseteq r.ids
    BY <1>1, <1>2 DEF InForce
<1>4. Ids(c) \subseteq Ids(b)
    BY <1>2, <1>3 DEF Ids, InForce
<1> QED BY <1>1, <1>2, <1>4 DEF c

\* What an act brings forward at its commit it kept, with nothing of a standing that nobody knows of.
LEMMA BroughtKeeps ==
    ASSUME IInv, NEW a \in Act, NEW c, Unspoken(c)
    PROVE  \E more : Foreign(more, c) /\ KeptFrom(Brought(a), book[a], more, OwnKey(a), began[a])
<1>1. TypeOK /\ Lists /\ began[a] \in Nat /\ IsBook(book[a])
    BY ActFacts DEF IInv, Books
<1>2. CASE Moved(a)
    <2>1. Brought(a) = Forwarded(a, book[a], began[a])
        BY <1>2 DEF Brought
    <2> QED BY <1>1, <2>1, ForwardedKeeps, HomeForeign
<1>3. CASE ~ Moved(a)
    <2>1. Brought(a) = book[a]
        BY <1>3 DEF Brought
    <2>2. KeptFrom(book[a], book[a], {}, OwnKey(a), began[a])
        BY KeptSame
    <2> QED BY <2>1, <2>2, NoneForeign
<1> QED BY <1>2, <1>3

LEMMA CommitForeign ==
    ASSUME IInv, NEW a \in Act, Commit(a), NEW c, Unspoken(c), Foreign(Ids(book[a]), c)
    PROVE  Foreign(IdsIn(cut'[a]), c)
<1>1. TypeOK /\ Lists /\ at[a] = "signed"
    BY DEF IInv, Commit
<1>2. cut'[a] = IF Cutting(a) THEN NextCut(a) ELSE devices[Runs[a]]
    BY <1>1 DEF Commit, TypeOK
<1>3. CASE ~ Cutting(a)
    BY <1>1, <1>2, <1>3, HomeForeign
<1>4. CASE Cutting(a)
    <2> DEFINE b == Brought(a)
               n == NextNumber(a)
               x == Cut(b, n, began[a])
    <2>1. PICK more : Foreign(more, c) /\ KeptFrom(b, book[a], more, OwnKey(a), began[a])
        BY BroughtKeeps
    <2>2. b \in Records
        BY <1>1, BroughtSound DEF OnwardFrom, IsBook
    <2>3. cut'[a] = x
        BY <1>2, <1>4 DEF NextCut
    <2> HIDE DEF b, n
    <2>4. Foreign(Ids(b), c) /\ Ids(x) \subseteq Ids(b)
        BY <2>1, <2>2, KeptForeign, CutIds
    <2>5. Foreign(Ids(x), c)
        BY <2>4, ForeignPart
    <2> QED BY <2>3, <2>5, NoneForeign DEF IdsIn
<1> QED BY <1>3, <1>4

\* Only an act's own commit tells of what it signed.
LEMMA StaysUnspoken ==
    ASSUME IInv, NEW c \in Act, Unspoken(c), NEW a \in Act, Acts(a), Commit(a) => a # c
    PROVE  Unspoken(c)'
<1>1. TypeOK /\ Lists /\ Locked
    BY DEF IInv
<1>2. Commit(a) => Foreign(IdsIn(cut'[a]), c)
    BY CommitForeign DEF Unspoken
<1>3. FoldCut(a) => Foreign(Owed(cut[a], now), c)
    BY <1>1, Folds, OwedForeign DEF Unspoken
<1>4. ASSUME NEW h \in Home
      PROVE  /\ Foreign(IdsIn(devices'[h]), c) /\ Foreign(IdsIn(conflict'[h]), c) /\ Foreign(refused'[h], c)
    <2>1. Foreign(IdsIn(devices'[h]), c) /\ Foreign(IdsIn(conflict'[h]), c)
        <3>1. CASE FoldCut(a)
            <4>1. devices'[h] \in {devices[h], cut[a]} /\ conflict'[h] \in {conflict[h], None}
                BY <1>1, <3>1, Folds
            <4> QED BY <4>1, NoneForeign DEF Unspoken
        <3> QED BY <3>1, Frame DEF Unspoken
    <2>2. Foreign(refused'[h], c)
        <3>1. CASE FoldCut(a)
            <4>1. refused'[h] \subseteq refused[h] \cup Owed(cut[a], now)
                BY <1>1, <3>1 DEF FoldCut, HoldNewer, Refuse, TypeOK, homes
            <4>2. Foreign(refused[h] \cup Owed(cut[a], now), c)
                BY <1>3, <3>1, ForeignBoth DEF Unspoken
            <4> QED BY <4>1, <4>2, ForeignPart
        <3>2. CASE Block(a)
            <4>1. refused'[h] \subseteq refused[h] \cup block[a]
                BY <1>1, <3>2 DEF Block, TypeOK
            <4>2. Foreign(refused[h] \cup block[a], c)
                BY ForeignBoth DEF Unspoken
            <4> QED BY <4>1, <4>2, ForeignPart
        <3> QED BY <3>1, <3>2, Frame DEF Unspoken
    <2> QED BY <2>1, <2>2
<1>5. ASSUME NEW d \in Dir PROVE Foreign(IdsIn(copy'[d]), c)
    <2>1. CASE Commit(a)
        BY <1>2, <2>1, Commits DEF Unspoken
    <2> QED BY <2>1, Frame DEF Unspoken
<1>6. ASSUME NEW b \in Act PROVE Foreign(IdsIn(cut'[b]), c) /\ Foreign(block'[b], c)
    <2>1. CASE b # a
        BY <1>1, <2>1, Apart DEF Still, Unspoken
    <2>2. CASE b = a
        <3>1. Prints(a) => Foreign(IdsIn(cut'[a]), c)
            <4>1. Prints(a) => cut'[a] = devices[Runs[a]]
                BY <1>1 DEF Prints, Unchanged, TypeOK
            <4> QED BY <1>1, <4>1, HomeForeign
        <3>2. Foreign(IdsIn(cut'[a]), c)
            BY <1>2, <3>1, Frame DEF Unspoken
        <3>3. Foreign(block'[a], c)
            BY <1>1, Frame, ResolveForeign DEF Unspoken
        <3> QED BY <2>2, <3>2, <3>3
    <2> QED BY <2>1, <2>2
<1>7. ASSUME NEW b \in Act \ {c} PROVE Foreign(Ids(book'[b]), c)
    <2>1. CASE b # a
        BY <1>1, <2>1, Apart DEF Still, Unspoken
    <2>2. CASE b = a
        BY <2>2, BookForeign DEF Unspoken
    <2> QED BY <2>1, <2>2
<1> QED BY <1>4, <1>5, <1>6, <1>7 DEF Unspoken, Foreign, IdsIn, Ids

\* What is heard was known.
LEMMA HearUnspoken ==
    ASSUME TypeOK, Lists, NEW c \in Act, Unspoken(c), NEW h \in Home, NEW g \in Home, Hear(h, g) \/ HearFork(h, g)
    PROVE  Unspoken(c)'
<1>1. \A x \in Home : Foreign(IdsIn(devices'[x]), c) /\ Foreign(IdsIn(conflict'[x]), c)
    BY Hears, NoneForeign DEF Unspoken
<1>2. UNCHANGED <<copy, cut, block, book>>
    BY Hears DEF wanted, signs
<1>3. ASSUME NEW u \in Update, Foreign(IdsIn(u), c), Refuse(h, u), NEW x \in Home PROVE Foreign(refused'[x], c)
    <2>1. Foreign(Owed(u, now), c)
        BY <1>3, OwedForeign
    <2>2. refused'[x] \subseteq refused[x] \cup Owed(u, now)
        BY <1>3 DEF Refuse, TypeOK
    <2>3. Foreign(refused[x] \cup Owed(u, now), c)
        BY <2>1, ForeignBoth DEF Unspoken
    <2> QED BY <2>2, <2>3, ForeignPart
<1>4. \E u \in {devices[g], conflict[g]} : u \in Update /\ Refuse(h, u)
    BY DEF Hear, HearFork, HoldNewer, KeepFork, TypeOK
<1>5. \A x \in Home : Foreign(refused'[x], c)
    BY <1>3, <1>4 DEF Unspoken
<1> QED BY <1>1, <1>2, <1>5 DEF Unspoken, Foreign, IdsIn, Ids

LEMMA UnsaidNext == ASSUME IInv, Next PROVE Unsaid'
<1>1. TypeOK /\ Lists /\ Unsaid
    BY DEF IInv
<1>2. ASSUME NEW c \in Act, Unspoken(c), Tick PROVE Unspoken(c)'
    BY <1>2, Ticks DEF Unspoken, homes, wanted, signs
<1>3. CASE UNCHANGED <<at, book>> /\ \A c \in Act : Unspoken(c) => Unspoken(c)'
    BY <1>1, <1>3 DEF Unsaid, SignsOwn, Foreign, Ids
<1>4. ASSUME NEW a \in Act, Acts(a), NEW c \in Act, at'[c] \in Unsigned \cup {"signed"}
      PROVE  /\ Unspoken(c)'
             /\ at'[c] \in {"idle", "found", "blocked", "prompt"} => Foreign(Ids(book'[c]), c)
             /\ at'[c] = "unlocked" => SignsOwn(c)'
    <2>1. at[c] \in Unsigned \cup {"signed"} /\ (Commit(a) => a # c)
        BY <1>1, <1>4, Moves, Apart DEF Still, Unsigned
    <2>2. Unspoken(c) /\ Unspoken(c)'
        BY <1>1, <1>4, <2>1, StaysUnspoken DEF Unsaid
    <2>3. CASE c # a
        <3>1. at'[c] = at[c] /\ book'[c] = book[c]
            BY <1>1, <1>4, <2>3, Apart DEF Still
        <3> QED BY <1>1, <2>1, <2>2, <3>1 DEF Unsaid, SignsOwn, Foreign
    <2>4. CASE c = a /\ Presents(a)
        <3>1. book'[a] = BookOf(Beside(a)) /\ at'[a] = "prompt" /\ Foreign(IdsIn(Beside(a)), a)
            BY <1>1, <2>2, <2>4, PresentSets, Moves, HomeForeign
        <3> QED BY <2>2, <2>4, <3>1, ListForeign
    <2>5. CASE c = a /\ Unlock(a)
        BY <1>1, <2>2, <2>5, UnlockOwn, Moves
    <2>6. CASE c = a /\ ~ Presents(a) /\ ~ Unlock(a)
        <3>1. ASSUME at'[a] \in {"idle", "found", "blocked", "prompt"} PROVE Foreign(Ids(book'[a]), a)
            <4>1. at[a] \in {"idle", "found", "blocked", "prompt"} /\ book' = book
                BY <1>1, <1>4, <2>6, <3>1, Moves, Frame
            <4> QED BY <1>1, <2>1, <2>6, <4>1 DEF Unsaid
        <3>2. at'[a] # "unlocked"
            BY <1>1, <1>4, <2>6, Moves
        <3> QED BY <2>2, <2>6, <3>1, <3>2
    <2> QED BY <2>3, <2>4, <2>5, <2>6
<1>5. ASSUME NEW a \in Act, Acts(a) PROVE Unsaid'
    BY <1>4, <1>5 DEF Unsaid, Foreign, Ids
<1> QED BY <1>1, <1>2, <1>3, <1>5, NextSteps, Hears, HearUnspoken, Ticks DEF signs

LEMMA GivenListedNext == ASSUME IInv, Next PROVE GivenListed'
<1>1. TypeOK /\ GivenListed
    BY DEF IInv
<1>2. CASE UNCHANGED <<at, ask, began, book, given>>
    BY <1>1, <1>2 DEF GivenListed, GivenTo, Signed
<1>3. ASSUME NEW a \in Act, Acts(a), NEW b \in Act, at'[b] = "signed", given'[b] # None
      PROVE  GivenTo(b)'
    <2>1. CASE b # a
        BY <1>1, <1>3, <2>1, Apart DEF Still, GivenListed, GivenTo, Signed
    <2>2. CASE b = a
        BY <1>1, <1>3, <2>2, Moves, SignsGiven
    <2> QED BY <2>1, <2>2
<1>4. ASSUME NEW a \in Act, Acts(a) PROVE GivenListed'
    BY <1>3, <1>4 DEF GivenListed, GivenTo, Signed
<1> QED BY <1>1, <1>2, <1>4, NextSteps, Hears, Ticks DEF wanted, reads, signs

\* The list u keeps what a handed out.
Keeps(a, u) ==
    /\ given[a].key \notin u.keys
    /\ \E r \in u.rows :
          /\ r.node = given[a].key
          /\ r.label = ask[a].name \/ r.node = OwnKey(a)
          /\ (given[a] \in r.ids /\ given[a] \notin u.ids) \/ Cardinality(r.ids) >= MaxIds

\* The device an act signed for is in what it commits.
LEMMA CommitKeeps ==
    ASSUME IInv, NEW a \in Act, Commit(a), given[a] # None
    PROVE  Keeps(a, cut'[a])
<1> DEFINE f == Brought(a)
           b == book[a]
           i == given[a]
           k == i.key
           u == devices[Runs[a]]
           t == began[a]
           own == OwnKey(a)
           n == ask[a].name
<1>1. /\ TypeOK /\ Lists /\ at[a] = "signed" /\ t \in Nat /\ IsBook(b) /\ Sound(a, b) /\ IsList(u) /\ u # None
      /\ IsBook(f) /\ Sound(a, f)
    BY ActFacts, HomeFacts, BroughtSound DEF IInv, Books, Commit, OnwardFrom
<1>2. Unspoken(a)
    BY <1>1 DEF IInv, Unsaid
<1>3. /\ i = Signed(a, k) /\ i \notin b.ids
      /\ \E r \in b.rows : r.node = k /\ r.label = n /\ i \in r.ids
      /\ \A r \in b.rows : i \in r.ids => r.node = k
    BY <1>1 DEF IInv, GivenListed, GivenTo
<1>4. k \in made[a] \cup touched[a] /\ k \notin b.keys
    BY <1>1 DEF IInv, Handing, Sound
<1>5. (made[a] \cup touched[a]) \cap (f.keys \ b.keys) = {}
    BY DEF Commit, Overtaken
<1>6. k \notin f.keys
    BY <1>4, <1>5
<1>7. i \in Standing /\ i.by = a /\ i.ends > t
    <2>1. i \in Standing
        BY <1>1 DEF TypeOK
    <2>2. i.ends = t + Term /\ i.by = a
        BY <1>3, SignedBy
    <2> HIDE DEF i, t
    <2> QED BY <1>1, <2>1, <2>2, BookAssumption
<1>8. PICK more : Foreign(more, a) /\ KeptFrom(f, b, more, own, t)
    BY <1>2, BroughtKeeps
<1>9. i \notin more
    BY <1>7, <1>8 DEF Foreign
<1>10. cut'[a] = IF Cutting(a) THEN NextCut(a) ELSE u
    BY <1>1 DEF Commit, TypeOK
<1>11. NextCut(a) = Cut(f, NextNumber(a), t)
    BY DEF NextCut
<1>12. ~ Cutting(a) => ~ Lacks(f, u, t)
    BY DEF Cutting
<1>13. i \notin IdsIn(u)
    BY <1>1, <1>2, <1>7, HomeForeign DEF Foreign
<1> HIDE DEF f, b, i, k, u, t, own, n
<1>14. PICK x \in f.rows : /\ x.node = k /\ (x.label = n \/ x.node = own)
                           /\ i \in x.ids \/ Full(x.ids, t)
    <2>1. PICK r \in b.rows : r.node = k /\ r.label = n /\ i \in r.ids
        BY <1>3
    <2>2. PICK x \in f.rows : KeepsRow(x, r, own, t)
        BY <1>6, <1>8, <2>1 DEF KeptFrom
    <2>3. i \in InForce(r.ids, t)
        BY <1>7, <2>1 DEF InForce
    <2> QED BY <2>1, <2>2, <2>3 DEF KeepsRow
<1>15. i \in f.ids => Full(x.ids, t)
    <2>1. SUFFICES ASSUME i \in f.ids PROVE Full(x.ids, t)
        OBVIOUS
    <2>2. PICK r \in b.rows : i \in r.ids /\ (r.node \in f.keys \/ \E y \in f.rows : y.node = r.node /\ Full(y.ids, t))
        BY <1>3, <1>8, <1>9, <2>1 DEF KeptFrom
    <2>3. PICK y \in f.rows : y.node = k /\ Full(y.ids, t)
        BY <1>3, <1>6, <2>2
    <2>4. y = x
        BY <1>1, <1>14, <2>3 DEF IsBook, Sorted, OneEach
    <2> QED BY <2>3, <2>4
<1>16. CASE Cutting(a)
    <2> DEFINE number == NextNumber(a)
               c == Cut(f, number, t)
    <2>1. cut'[a] = c
        BY <1>10, <1>11, <1>16
    <2> HIDE DEF number
    <2>2. c.ids = InForce(f.ids, t) /\ c.keys = f.keys
        BY <1>1, CutIds DEF IsBook
    <2>3. PICK y \in c.rows : y.node = x.node /\ y.label = x.label /\ y.ids = InForce(x.ids, t)
        BY <1>1, CutIds DEF IsBook
    <2> HIDE DEF c
    <2>4. i \in x.ids => i \in y.ids
        BY <1>7, <2>3 DEF InForce
    <2>5. Full(x.ids, t) => Cardinality(y.ids) >= MaxIds
        BY <2>3 DEF Full
    <2>6. (i \in y.ids /\ i \notin c.ids) \/ Cardinality(y.ids) >= MaxIds
        BY <1>14, <1>15, <2>2, <2>4, <2>5 DEF InForce
    <2> QED BY <1>6, <1>14, <2>1, <2>2, <2>3, <2>6 DEF Keeps, i, k, own, n
<1>17. CASE ~ Cutting(a)
    <2>1. cut'[a] = u
        BY <1>10, <1>17
    <2>2. PICK m \in u.rows : [m EXCEPT !.ids = {}] = [x EXCEPT !.ids = {}] /\ InForce(x.ids, t) \subseteq m.ids
        BY <1>12, <1>17 DEF Lacks
    <2>3. m \in Row /\ x \in Row /\ IsFiniteSet(m.ids)
        BY <1>1 DEF IsList, Update, Sorted, IsBook, Records
    <2>4. m.node = x.node /\ m.label = x.label
        BY <2>2, <2>3 DEF Row
    <2>5. k \notin u.keys
        BY <1>1, <1>14, <2>4 DEF IsList, WellFormed, Nodes
    <2>6. i \notin x.ids
        <3>1. i \in x.ids => i \in m.ids
            BY <1>7, <2>2 DEF InForce
        <3> QED BY <1>1, <1>13, <3>1 DEF IdsIn, Ids
    <2>7. Cardinality(m.ids) >= MaxIds
        <3> DEFINE ids == InForce(x.ids, t)
        <3>1. Cardinality(ids) >= MaxIds
            BY <1>14, <2>6 DEF Full
        <3> HIDE DEF ids
        <3>2. Cardinality(ids) <= Cardinality(m.ids) /\ Cardinality(ids) \in Nat /\ Cardinality(m.ids) \in Nat
            BY <2>2, <2>3, FS_Subset, FS_CardinalityType DEF ids
        <3> QED BY <3>1, <3>2, BookAssumption
    <2> QED BY <1>14, <2>1, <2>4, <2>5, <2>7 DEF Keeps, i, k, own, n
<1> QED BY <1>16, <1>17

LEMMA HandedKeptNext == ASSUME IInv, Next PROVE HandedKept'
<1>1. TypeOK /\ Lists /\ Unsaid /\ Locked /\ HandedKept
    BY DEF IInv
<1>2. CASE UNCHANGED <<at, ask, given, cut>>
    BY <1>1, <1>2 DEF HandedKept, Committed, OwnKey
<1>3. ASSUME NEW a \in Act, Acts(a), NEW b \in Act,
             at'[b] \in {"folding", "done"}, cut'[b] # None, given'[b] # None, given'[b].by = b
      PROVE  Keeps(b, cut[b])'
    <2>1. CASE b # a
        BY <1>1, <1>3, <2>1, Apart DEF Still, HandedKept, Committed, Keeps, OwnKey
    <2>2. CASE b = a /\ Commit(a)
        <3>1. ask' = ask /\ given' = given
            BY <2>2 DEF Commit, wanted, signs
        <3>2. Keeps(a, cut'[a])
            BY <1>3, <2>2, <3>1, CommitKeeps
        <3> QED BY <2>2, <3>1, <3>2 DEF Keeps, OwnKey
    <2>3. CASE b = a /\ Prints(a)
        <3>1. PICK r \in BookOf(Beside(a)).rows : given'[a] = r.standing
            BY <1>1, <2>3 DEF Prints, Unchanged, Settled, TypeOK
        <3>2. at[a] = "idle" /\ IsBook(BookOf(Beside(a)))
            BY <1>1, <2>3, Moves, ActFacts, BookOfParts
        <3>3. Foreign(Ids(BookOf(Beside(a))), a)
            BY <1>1, <3>2, HomeForeign, ListForeign DEF Unsaid, Unsigned
        <3>4. r.standing \in Ids(BookOf(Beside(a))) /\ r.standing \in Standing
            BY <3>1, <3>2 DEF Ids, IsBook, Records, Row
        <3> QED BY <1>3, <2>3, <3>1, <3>3, <3>4 DEF Foreign
    <2>4. CASE b = a /\ FoldCut(a)
        <3>1. ask' = ask /\ given' = given /\ cut' = cut /\ at[a] = "folding"
            BY <2>4 DEF FoldCut, wanted, signs
        <3> QED BY <1>1, <1>3, <2>4, <3>1 DEF HandedKept, Committed, Keeps, OwnKey
    <2>5. CASE b = a /\ Block(a)
        BY <1>1, <1>3, <2>5 DEF Block, Locked, Unsigned
    <2> QED BY <1>1, <1>3, <2>1, <2>2, <2>3, <2>4, <2>5, Moves
<1>4. ASSUME NEW a \in Act, Acts(a) PROVE HandedKept'
    BY <1>3, <1>4 DEF HandedKept, Committed, Keeps, OwnKey
<1> QED BY <1>1, <1>2, <1>4, NextSteps, Hears, Ticks DEF wanted, signs

LEMMA NextInv == ASSUME IInv, [Next]_vars PROVE IInv'
<1>1. CASE Next
    <2>1. TypeOK'
        BY <1>1, TypeNext
    <2> QED BY <1>1, <2>1, ListsNext, BooksNext, RoomNext, AimsNext, SparedNext, OwnKeptNext, FreshNext, LockedNext,
               UnreadNext, NumberedNext, CutIsNewestNext, OwnNotFirstNext, RevokingNext, KeyRevokedNext, HandingNext,
               HandsListedNext, OpenedNext, GatheredNext, NameGoneNext, UnsaidNext, GivenListedNext,
               HandedKeptNext DEF IInv
<1>2. CASE UNCHANGED vars
    <2> USE <1>2 DEF vars, homes, wanted, reads, signs, IInv
    <2>1. TypeOK' /\ Lists' /\ Room' /\ Unread' /\ Numbered' /\ Locked'
        BY DEF TypeOK, Lists, Room, Unread, Numbered, Locked
    <2>2. Books'
        BY DEF Books, Sound
    <2>3. Aims' /\ Spared' /\ OwnKept' /\ Fresh'
        BY DEF Aims, Spared, OwnKept, Fresh, OwnKey
    <2>4. CutIsNewest' /\ OwnNotFirst' /\ Revoking' /\ KeyRevoked'
        BY DEF CutIsNewest, IsNewer, OwnNotFirst, OwnKey, Revoking, KeyRevoked, Committed
    <2>5. Handing' /\ HandsListed'
        BY DEF Handing, HandsListed
    <2>6. Opened' /\ Gathered' /\ NameGone'
        BY DEF Opened, Gathered, Spoken, NameGone, Committed, Past
    <2>7. Unsaid' /\ GivenListed' /\ HandedKept'
        BY DEF Unsaid, Unspoken, SignsOwn, GivenListed, GivenTo, Signed, HandedKept, Committed, OwnKey, Foreign, IdsIn,
               Ids
    <2> QED BY <2>1, <2>2, <2>3, <2>4, <2>5, <2>6, <2>7
<1> QED BY <1>1, <1>2

LEMMA Invariance == Spec => []IInv
BY InitInv, NextInv, PTL DEF Spec

-----------------------------------------------------------------------------

\* Whatever two copies of the root do to one name, one key or one device, and whatever is heard meanwhile, the records
\* an act signs from and commits list one row for a key and one for a name, none of a revoked key, and no row with more
\* ids than an update holds but this machine's own; and no machine's root is the first to revoke its own machine.
THEOREM RecordsSound == Spec => []ActsSound
<1>1. ASSUME IInv PROVE SoundBooks
    BY <1>1, BroughtSound DEF IInv, Books, SoundBooks, OnwardFrom
<1>2. IInv => ActsSound
    BY <1>1 DEF IInv, ActsSound
<1> QED BY Invariance, <1>2, PTL

\* The cut an act folds is past all its home holds, whatever was folded while the act waited at its prompt: the fold
\* under the same lock keeps it, and ListChanged after the fold is never met.
THEOREM CutPastAll == Spec => []CutIsNewest
<1>1. IInv => CutIsNewest
    BY DEF IInv
<1> QED BY Invariance, <1>1, PTL

\* A revoke that committed revoked the key its name had, and the list it cuts has no device of the name, under that key
\* or another handed out meanwhile.
THEOREM RevokeEnds == Spec => []KeyRevoked
<1>1. IInv => KeyRevoked
    BY DEF IInv
<1> QED BY Invariance, <1>1, PTL

\* A revoke that committed ended the device: the name is not left live under another key in the list it committed, if
\* that is past the list the revoke read beside the key and the fork it was given.
THEOREM NameEnds == Spec => []NameGone
<1>1. IInv => NameGone
    BY DEF IInv
<1> QED BY Invariance, <1>1, PTL

\* So where the list committed is always past those, as it is while a copy of the root stays at one machine, a revoke
\* that committed ended the device for good.
THEOREM RevokeIsForGood ==
    Spec => []((\A a \in Act : Committed(a) /\ ask[a].verb = "revoke" => Past(a)) => RevokedForGood)
<1>1. IInv => ((\A a \in Act : Committed(a) /\ ask[a].verb = "revoke" => Past(a)) => RevokedForGood)
    BY DEF IInv, KeyRevoked, NameGone, RevokedForGood
<1> QED BY Invariance, <1>1, PTL

\* The list an act cuts names the device it signed for, and does not revoke it, whatever another copy of the root did to
\* that device meanwhile.
THEOREM HandedIsListed == Spec => []HandsListed
<1>1. IInv => HandsListed
    BY DEF IInv
<1> QED BY Invariance, <1>1, PTL

\* Whatever another copy of the root did to the device meanwhile, the standing an act signed and hands out at the end is
\* in the list it committed, under the name asked for, and not revoked there by its id or its key; unless as many
\* standings are listed for that device as an update has room for, of which it may be the one left out.
THEOREM HandedStays == Spec => []HandedKept
<1>1. IInv => HandedKept
    BY DEF IInv
<1> QED BY Invariance, <1>1, PTL

\* So where an act handed out what it signed itself, and the device it is for has room left in the list committed, what
\* was handed out is good.
THEOREM HandedIsGood ==
    Spec => []((\A a \in Act : Committed(a) /\ given[a] # None =>
                   /\ given[a].by = a
                   /\ \A r \in cut[a].rows : r.node = given[a].key => ~ Cardinality(r.ids) >= MaxIds)
               => Handed)
<1>1. ASSUME IInv,
             \A a \in Act : Committed(a) /\ given[a] # None =>
                /\ given[a].by = a
                /\ \A r \in cut[a].rows : r.node = given[a].key => ~ Cardinality(r.ids) >= MaxIds
      PROVE  Handed
    BY <1>1 DEF IInv, HandedKept, Handed
<1>2. IInv => ((\A a \in Act : Committed(a) /\ given[a] # None =>
                   /\ given[a].by = a
                   /\ \A r \in cut[a].rows : r.node = given[a].key => ~ Cardinality(r.ids) >= MaxIds)
               => Handed)
    BY <1>1
<1> QED BY Invariance, <1>2, PTL

\* No machine refuses its own key, whatever it hears, cuts or blocks.
THEOREM OwnSpared == Spec => []Spared
<1>1. IInv => Spared
    BY DEF IInv
<1> QED BY Invariance, <1>1, PTL

-----------------------------------------------------------------------------
(* What an act signs, and the standings it had. *)

\* The records f are b with what a signed: but for the row of key, each keeps what was in force of it.
SignedAs(f, b, a, key) ==
    /\ f.ids = b.ids /\ f.keys = b.keys /\ f.marked = b.marked /\ Bears(f, b, began[a])
    /\ \A x \in f.rows : x.node # key =>
          \E r \in b.rows : /\ r.node = x.node /\ x.ids \subseteq r.ids \cup {Signed(a, x.node)}
                            /\ InForce(r.ids, began[a]) \subseteq x.ids

\* The row of key has what a signed alone.
SignedAnew(f, a, key) == \A x \in f.rows : x.node = key => x.ids \subseteq {Signed(a, key)}

LEMMA WithRowAs ==
    ASSUME NEW a, NEW b \in Records, NEW key, key \notin Nodes(b.rows), NEW name, NEW seeded
    PROVE  LET f == WithRow(a, b, key, name, seeded)
           IN  SignedAs(f, b, a, key) /\ SignedAnew(f, a, key)
<1> DEFINE i == Signed(a, key)
           OffIt(r) == IF r.label = name THEN [r EXCEPT !.label = FreshName(b.rows)] ELSE r
           added == [node |-> key, label |-> name, standing |-> i, ids |-> {i}, seeded |-> seeded]
           rows == {OffIt(r) : r \in b.rows} \cup {added}
           f == WithRow(a, b, key, name, seeded)
<1>1. b.rows \in SUBSET Row
    BY DEF Records
<1>2. f = [b EXCEPT !.rows = rows]
    BY DEF WithRow
<1>3. \A r \in b.rows : OffIt(r).node = r.node /\ OffIt(r).ids = r.ids
    BY <1>1 DEF Row
<1>4. added.node = key /\ added.ids = {i}
    OBVIOUS
<1> HIDE DEF added, OffIt
<1>5. (\A x \in rows : x = added \/ \E r \in b.rows : x = OffIt(r)) /\ \A r \in b.rows : OffIt(r) \in rows
    OBVIOUS
<1> HIDE DEF rows, f
<1>6. f.rows = rows /\ f.ids = b.ids /\ f.keys = b.keys /\ f.marked = b.marked
    BY <1>2 DEF Records
<1>7. \A r \in b.rows : r.node # key
    BY DEF Nodes
<1>8. AllIds(b) \subseteq AllIds(f)
    BY <1>3, <1>5, <1>6 DEF AllIds
<1>9. Bears(f, b, began[a])
    BY <1>6, <1>8 DEF Bears, InForce
<1>10. SignedAs(f, b, a, key)
    BY <1>3, <1>4, <1>5, <1>6, <1>9 DEF SignedAs, InForce
<1>11. SignedAnew(f, a, key)
    BY <1>3, <1>4, <1>5, <1>6, <1>7 DEF SignedAnew
<1> QED BY <1>10, <1>11 DEF f

LEMMA WithRenewedAs ==
    ASSUME NEW a, NEW b \in Records, NEW keys
    PROVE  SignedAs(WithRenewed(a, b, keys), b, a, None)
<1> DEFINE Renewed(r) == [r EXCEPT !.standing = Signed(a, r.node),
                                   !.ids = InForce(@, began[a]) \cup {Signed(a, r.node)}]
           Kept(r) == IF r.node \in keys THEN Renewed(r) ELSE r
           rows == {Kept(r) : r \in b.rows}
           f == WithRenewed(a, b, keys)
<1>1. f = [b EXCEPT !.rows = rows]
    BY DEF WithRenewed
<1>2. ASSUME NEW r \in b.rows
      PROVE  /\ Kept(r).node = r.node /\ Kept(r).ids \subseteq r.ids \cup {Signed(a, r.node)}
             /\ InForce(r.ids, began[a]) \subseteq Kept(r).ids
    <2>1. r \in Row
        BY DEF Records
    <2> DEFINE i == Signed(a, r.node)
               ids == InForce(r.ids, began[a]) \cup {i}
    <2>2. CASE r.node \in keys
        <3>1. Kept(r) = [r EXCEPT !.standing = i, !.ids = ids]
            BY <2>2
        <3>2. ids \subseteq r.ids \cup {i} /\ InForce(r.ids, began[a]) \subseteq ids
            BY DEF InForce
        <3> HIDE DEF Kept, i, ids
        <3>3. Kept(r).node = r.node /\ Kept(r).ids = ids
            BY <2>1, <3>1 DEF Row
        <3> QED BY <3>2, <3>3 DEF i
    <2>3. CASE r.node \notin keys
        <3>1. Kept(r) = r
            BY <2>3
        <3> HIDE DEF Kept
        <3> QED BY <3>1 DEF InForce
    <2> QED BY <2>2, <2>3
<1> HIDE DEF Kept
<1>3. (\A x \in rows : \E r \in b.rows : x = Kept(r)) /\ \A r \in b.rows : Kept(r) \in rows
    OBVIOUS
<1> HIDE DEF rows, f
<1>4. f.rows = rows /\ f.ids = b.ids /\ f.keys = b.keys /\ f.marked = b.marked
    BY <1>1 DEF Records
<1>5. ASSUME NEW i \in InForce(AllIds(b), began[a]) PROVE i \in AllIds(f)
    <2>1. CASE i \in b.ids
        BY <1>4, <2>1 DEF AllIds
    <2>2. ASSUME NEW r \in b.rows, i \in r.ids PROVE i \in AllIds(f)
        <3>1. i \in Kept(r).ids /\ Kept(r) \in f.rows
            BY <1>2, <1>3, <1>4, <2>2 DEF InForce
        <3> QED BY <3>1 DEF AllIds
    <2> QED BY <2>1, <2>2 DEF AllIds, InForce
<1>6. Bears(f, b, began[a])
    BY <1>4, <1>5 DEF Bears, InForce
<1>7. SignedAs(f, b, a, None)
    BY <1>2, <1>3, <1>4, <1>6 DEF SignedAs
<1> QED BY <1>7 DEF f

LEMMA RekeyedAs ==
    ASSUME NEW a, NEW b \in Records, NEW name \in Labels(b.rows), NEW key
    PROVE  SignedAs(Rekeyed(a, b, name, key), b, a, key)
<1> DEFINE r == RowNamed(b.rows, name)
           i == Signed(a, key)
           ids == InForce(r.ids, began[a]) \cup {i}
           moved == [r EXCEPT !.node = key, !.standing = i, !.ids = ids]
           rows == (b.rows \ {r}) \cup {moved}
           f == Rekeyed(a, b, name, key)
<1>1. r \in b.rows /\ r \in Row
    BY RowNamedIn DEF Records
<1>2. f = [b EXCEPT !.rows = rows]
    BY DEF Rekeyed
<1>3. InForce(r.ids, began[a]) \subseteq ids
    OBVIOUS
<1> HIDE DEF r, i, ids
<1>4. moved.node = key /\ moved.ids = ids
    BY <1>1 DEF Row
<1> HIDE DEF moved
<1>5. (\A x \in rows : x = moved \/ x \in b.rows) /\ moved \in rows /\ \A x \in b.rows : x = r \/ x \in rows
    OBVIOUS
<1> HIDE DEF rows, f
<1>6. f.rows = rows /\ f.ids = b.ids /\ f.keys = b.keys /\ f.marked = b.marked
    BY <1>2 DEF Records
<1>7. ASSUME NEW j \in InForce(AllIds(b), began[a]) PROVE j \in AllIds(f)
    <2>1. CASE j \in b.ids
        BY <1>6, <2>1 DEF AllIds
    <2>2. ASSUME NEW x \in b.rows, j \in x.ids PROVE j \in AllIds(f)
        <3>1. CASE x = r
            <4>1. j \in moved.ids /\ moved \in f.rows
                BY <1>3, <1>4, <1>5, <1>6, <2>2, <3>1 DEF InForce
            <4> QED BY <4>1 DEF AllIds
        <3>2. CASE x # r
            BY <1>5, <1>6, <2>2, <3>2 DEF AllIds
        <3> QED BY <3>1, <3>2
    <2> QED BY <2>1, <2>2 DEF AllIds, InForce
<1>8. Bears(f, b, began[a])
    BY <1>6, <1>7 DEF Bears, InForce
<1>9. SignedAs(f, b, a, key)
    BY <1>4, <1>5, <1>6, <1>8 DEF SignedAs, InForce
<1> QED BY <1>9 DEF f

\* What is due is renewed after it.
LEMMA SignedTwice ==
    ASSUME NEW a, NEW b, NEW c, NEW f, f.rows \in SUBSET Row, NEW key, SignedAs(c, b, a, key), SignedAs(f, c, a, None)
    PROVE  SignedAs(f, b, a, key) /\ (SignedAnew(c, a, key) => SignedAnew(f, a, key))
<1>1. ASSUME NEW x \in f.rows
      PROVE  \E y \in c.rows : /\ y.node = x.node /\ x.ids \subseteq y.ids \cup {Signed(a, x.node)}
                               /\ InForce(y.ids, began[a]) \subseteq x.ids
    <2>1. x.node # None
        BY BookAssumption DEF Row
    <2> QED BY <2>1 DEF SignedAs
<1>2. ASSUME NEW x \in f.rows, x.node # key
      PROVE  \E r \in b.rows : /\ r.node = x.node /\ x.ids \subseteq r.ids \cup {Signed(a, x.node)}
                               /\ InForce(r.ids, began[a]) \subseteq x.ids
    <2>1. PICK y \in c.rows : /\ y.node = x.node /\ x.ids \subseteq y.ids \cup {Signed(a, x.node)}
                              /\ InForce(y.ids, began[a]) \subseteq x.ids
        BY <1>1
    <2>2. PICK r \in b.rows : /\ r.node = y.node /\ y.ids \subseteq r.ids \cup {Signed(a, y.node)}
                              /\ InForce(r.ids, began[a]) \subseteq y.ids
        BY <1>2, <2>1 DEF SignedAs
    <2>3. InForce(r.ids, began[a]) \subseteq InForce(y.ids, began[a])
        BY <2>2 DEF InForce
    <2> QED BY <2>1, <2>2, <2>3
<1>3. Bears(f, b, began[a])
    BY BearsBoth DEF SignedAs
<1>4. SignedAs(f, b, a, key)
    BY <1>2, <1>3 DEF SignedAs
<1>5. SignedAnew(c, a, key) => SignedAnew(f, a, key)
    BY <1>1 DEF SignedAnew
<1> QED BY <1>4, <1>5

\* The row of key aside, what an act signs leaves the records traced.
LEMMA SignedTraced ==
    ASSUME NEW a \in Act, NEW b \in Records, NEW f \in Records, NEW key, SignedAs(f, b, a, key),
           began[a] \in Nat, NEW time \in Nat, began[a] <= time, NEW W \in SUBSET Standing, NEW O, NEW P,
           \A k \in Key : O[k] \in SUBSET Standing,
           Traced(b, W, O, time), key \notin f.keys, \A k \in Key : k # key => P[k] = O[k],
           \A x \in f.rows : x.node = key => /\ \A i \in x.ids : i.key = key \/ i \in P[key]
                                             /\ InForce(P[key], time) \subseteq x.ids
    PROVE  Traced(f, W, P, time)
<1>1. ASSUME NEW S \in SUBSET Standing, NEW T, InForce(S, began[a]) \subseteq T PROVE InForce(S, time) \subseteq T
    BY <1>1 DEF InForce, Standing
<1>2. InForce(W, time) \subseteq AllIds(f)
    <2>1. AllIds(b) \in SUBSET Standing
        BY DEF AllIds, Records, Row
    <2>2. InForce(AllIds(b), time) \subseteq AllIds(f)
        BY <1>1, <2>1 DEF SignedAs, Bears
    <2> QED BY <2>2 DEF Traced, InForce
<1>3. ASSUME NEW x \in f.rows, x.node # key
      PROVE  /\ \A i \in x.ids : i.key = x.node \/ i \in W \cup P[x.node]
             /\ InForce(P[x.node], time) \subseteq f.ids \cup x.ids
    <2>1. PICK r \in b.rows : /\ r.node = x.node /\ x.ids \subseteq r.ids \cup {Signed(a, x.node)}
                              /\ InForce(r.ids, began[a]) \subseteq x.ids
        BY <1>3 DEF SignedAs
    <2>2. x.node \in Key /\ r.ids \in SUBSET Standing
        BY DEF Records, Row
    <2>3. P[x.node] = O[r.node]
        BY <1>3, <2>1, <2>2
    <2>4. InForce(r.ids, time) \subseteq x.ids
        BY <1>1, <2>1, <2>2
    <2>5. InForce(O[r.node], time) \subseteq b.ids \cup InForce(r.ids, time)
        BY DEF Traced, InForce
    <2>6. b.ids = f.ids
        BY DEF SignedAs
    <2>7. \A i \in r.ids : i.key = r.node \/ i \in W \cup O[r.node]
        BY DEF Traced
    <2> QED BY <2>1, <2>3, <2>4, <2>5, <2>6, <2>7, SignedBy
<1>4. ASSUME NEW k \in f.keys PROVE InForce(P[k], time) \subseteq f.ids
    <2>1. k \in Key /\ k # key /\ k \in b.keys /\ f.ids = b.ids
        BY DEF Records, SignedAs
    <2> QED BY <2>1 DEF Traced
<1> QED BY <1>2, <1>3, <1>4 DEF Traced

LEMMA CarryOwnAs ==
    ASSUME NEW a \in Act, NEW b \in Records
    PROVE  LET f == CarryOwn(a, b)
           IN  \/ SignedAs(f, b, a, None)
               \/ SignedAs(f, b, a, OwnKey(a)) /\ SignedAnew(f, a, OwnKey(a)) /\ OwnKey(a) \notin b.keys
<1> DEFINE own == OwnKey(a)
           name == FreshName(b.rows)
           no == FALSE
           f == CarryOwn(a, b)
<1>1. SignedAs(b, b, a, None)
    <2>1. Bears(b, b, began[a])
        BY BearsSame
    <2> QED BY <2>1 DEF SignedAs, InForce
<1>2. SignedAs(WithRenewed(a, b, {own}), b, a, None)
    BY WithRenewedAs
<1>3. CASE ~ LacksOwn(a, b, began[a])
    BY <1>1, <1>3 DEF CarryOwn
<1>4. CASE LacksOwn(a, b, began[a]) /\ own \in Nodes(b.rows)
    BY <1>2, <1>4 DEF CarryOwn
<1>5. CASE LacksOwn(a, b, began[a]) /\ own \notin Nodes(b.rows)
    <2>1. f = WithRow(a, b, own, name, no) /\ own \notin b.keys
        BY <1>5 DEF CarryOwn, LacksOwn
    <2> HIDE DEF own, name, no, f
    <2>2. SignedAs(f, b, a, own) /\ SignedAnew(f, a, own)
        BY <1>5, <2>1, WithRowAs
    <2> QED BY <2>1, <2>2 DEF f, own
<1> QED BY <1>3, <1>4, <1>5

\* Sign renews what is due after what it signs.
LEMMA SignAs ==
    ASSUME TypeOK, Lists, NEW a \in Act, NEW b, NEW c \in Records, NEW key, SignedAs(c, b, a, key),
           NEW new, NEW old, NEW standing, Sign(a, c, new, old, standing), book'[a].rows \in SUBSET Row
    PROVE  /\ SignedAs(book'[a], b, a, key) /\ made'[a] = new
           /\ SignedAnew(c, a, key) => SignedAnew(book'[a], a, key)
<1> DEFINE late == (due[a] \ old) \cap Nodes(c.rows)
<1>1. book'[a] = WithRenewed(a, c, late) /\ made'[a] = new
    BY DEF Sign, TypeOK
<1> HIDE DEF late
<1>2. SignedAs(book'[a], c, a, None)
    BY <1>1, WithRenewedAs
<1> QED BY <1>1, <1>2, SignedTwice

\* What an invite adds to the records: a key that it made, or none.
InvitedAs(a, f, new) ==
    \/ new = {} /\ SignedAs(f, book[a], a, None)
    \/ /\ new = {ask[a].key} /\ SignedAs(f, book[a], a, ask[a].key)
       /\ ask[a].verb \in {"add", "new key"} /\ ask[a].key \notin f.keys
       /\ SignedAnew(f, a, ask[a].key) \/ ask[a].key \in NewKey(a)

LEMMA InvitesAs ==
    ASSUME IInv, NEW a \in Act, Add(a) \/ Rekey(a) \/ Renew(a)
    PROVE  InvitedAs(a, book'[a], made'[a])
<1> DEFINE k == ask[a].key
           n == ask[a].name
           b == book[a]
<1>1. /\ TypeOK /\ Lists /\ Aims /\ k \in Key /\ n \in Name /\ began[a] \in Nat /\ IsBook(b) /\ b \in Records
      /\ book'[a].rows \in SUBSET Row
    BY ActFacts, SignsSound DEF IInv, Books, IsBook, Signs, SignedFrom, Records
<1>2. CASE Add(a)
    <2> DEFINE seeded == ask[a].verb = "new key"
               c == WithRow(a, b, k, n, seeded)
    <2>1. Sign(a, c, {k}, {}, Signed(a, k)) /\ k \notin Nodes(b.rows) /\ k \notin b.keys
        BY <1>2 DEF Add, Adds, CanAdd
    <2>6. ask[a].verb \in {"add", "new key"} /\ book'[a].keys = b.keys
        BY <1>2, SignsSound DEF Add, Adds, Asked, Signs, SignedFrom
    <2>2. PICK s \in BOOLEAN : s = seeded
        OBVIOUS
    <2> HIDE DEF seeded, b, k, n
    <2>3. c \in Records
        <3>1. AddedTo(c, b, k)
            BY <1>1, <2>1, <2>2, WithRowParts
        <3> QED BY <3>1 DEF AddedTo, IsBook
    <2>4. SignedAs(c, b, a, k) /\ SignedAnew(c, a, k)
        BY <1>1, <2>1, WithRowAs
    <2> HIDE DEF c
    <2>5. SignedAs(book'[a], b, a, k) /\ SignedAnew(book'[a], a, k) /\ made'[a] = {k}
        BY <1>1, <2>1, <2>3, <2>4, SignAs
    <2> QED BY <2>1, <2>5, <2>6 DEF InvitedAs, b, k
<1>3. CASE Rekey(a)
    <2> DEFINE c == Rekeyed(a, b, n, k)
    <2>1. Sign(a, c, {k}, {RowNamed(b.rows, n).node}, Signed(a, k))
        BY <1>3 DEF Rekey
    <2>2. /\ at[a] = "unlocked" /\ ask[a].verb = "new key" /\ n \in Labels(b.rows)
          /\ Cardinality(InForce(RowNamed(b.rows, n).ids, began[a])) < MaxIds
        BY <1>3 DEF Rekey, Rekeys, Asked, CanRekey
    <2>7. book'[a].keys = b.keys
        BY <1>3, <2>2, SignsSound DEF Signs, SignedFrom
    <2>3. k \notin Nodes(b.rows) /\ k \notin b.keys /\ k \in NewKey(a)
        <3>1. ask[a] \in Asks[a]
            BY <1>1, <2>2 DEF Aims
        <3> QED BY <2>2, <3>1, NewKeyFresh DEF IInv, BookMentions, NewKey
    <2> HIDE DEF b, k, n
    <2>4. c \in Records
        <3>1. RekeyedFrom(c, b, k)
            BY <1>1, <2>2, <2>3, RekeyedParts
        <3> QED BY <3>1 DEF RekeyedFrom, IsBook
    <2>5. SignedAs(c, b, a, k)
        BY <1>1, <2>2, RekeyedAs
    <2> HIDE DEF c
    <2>6. SignedAs(book'[a], b, a, k) /\ made'[a] = {k}
        BY <1>1, <2>1, <2>4, <2>5, SignAs
    <2> QED BY <2>2, <2>3, <2>6, <2>7 DEF InvitedAs, b, k
<1>4. CASE Renew(a)
    <2>1. PICK r \in b.rows :
             IF Skips(b, r, began[a]) THEN Sign(a, b, {}, {}, None)
             ELSE Sign(a, WithRenewed(a, b, {r.node}), {}, {r.node}, Signed(a, r.node))
        BY <1>4 DEF Renew
    <2>2. CASE Skips(b, r, began[a])
        <3>1. SignedAs(b, b, a, None)
            <4>1. Bears(b, b, began[a])
                BY BearsSame
            <4> QED BY <4>1 DEF SignedAs, InForce
        <3>2. Sign(a, b, {}, {}, None)
            BY <2>1, <2>2
        <3> HIDE DEF b
        <3> QED BY <1>1, <3>1, <3>2, SignAs DEF InvitedAs, b
    <2>3. CASE ~ Skips(b, r, began[a])
        <3> DEFINE j == r.node
                   c == WithRenewed(a, b, {j})
        <3>1. Sign(a, c, {}, {j}, Signed(a, j))
            BY <2>1, <2>3
        <3>2. SignedAs(c, b, a, None)
            BY <1>1, WithRenewedAs
        <3>3. c \in Records
            BY <1>1, WithRenewedParts DEF IsBook
        <3> HIDE DEF c, j, b
        <3> QED BY <1>1, <3>1, <3>2, <3>3, SignAs DEF InvitedAs, b
    <2> QED BY <2>2, <2>3
<1> QED BY <1>2, <1>3, <1>4

\* The records a device is revoked from, which its ids and its key are added to.
RevokedFrom(a) == FollowKeys([book[a] EXCEPT !.keys = @ \cup {ask[a].key}], began[a])

LEMMA RevokesAs ==
    ASSUME IInv, NEW a \in Act, RevokeDevice(a), Marks(book[a])
    PROVE  LET c == RevokedFrom(a)
           IN  /\ IsBook(c) /\ Over(c, book[a], {}, {}, began[a]) /\ c.marked \in SUBSET Row /\ Marks(c)
               /\ SignedAs(book'[a], c, a, None) /\ made'[a] = {}
<1> DEFINE k == ask[a].key
           b == book[a]
           with == [b EXCEPT !.keys = @ \cup {k}]
           c == FollowKeys(with, began[a])
<1>1. TypeOK /\ Lists /\ k \in Key /\ began[a] \in Nat /\ IsBook(b) /\ book'[a].rows \in SUBSET Row
    BY ActFacts, SignsSound DEF IInv, Books, IsBook, Signs, SignedFrom, Records
<1>2. k \in Nodes(b.rows) \cup b.keys
    <2>1. k \in Nodes(b.rows \cup b.marked)
        BY DEF RevokeDevice, Revokes
    <2> QED BY <2>1 DEF Nodes, Marks
<1>3. Sign(a, c, {}, {}, None)
    BY DEF RevokeDevice
<1>4. RevokedFrom(a) = c
    BY DEF RevokedFrom
<1>5. CarryForward(b, None, {k}) = with
    <2> DEFINE known == UNION {r.ids : r \in b.rows}
    <2>1. k \notin known
        <3>1. known \in SUBSET Standing
            BY <1>1 DEF IsBook, Records, Row
        <3> QED BY <1>1, <3>1, KindsAssumption
    <2>2. CarryForward(b, None, {k}) =
             [b EXCEPT !.ids = @ \cup (({} \cup known) \cap {k}), !.keys = @ \cup (Nodes(b.rows) \cap {k})]
        BY DEF CarryForward
    <2>3. b.ids \cup (({} \cup known) \cap {k}) = b.ids
        BY <2>1
    <2>4. b.keys \cup (Nodes(b.rows) \cap {k}) = b.keys \cup {k}
        BY <1>2
    <2>5. b = [b EXCEPT !.ids = b.ids]
        BY <1>1 DEF IsBook, Records
    <2> HIDE DEF known, k
    <2> QED BY <1>1, <2>2, <2>3, <2>4, <2>5 DEF IsBook, Records
<1>6. Over(c, b, {}, {}, began[a])
    <2>1. IsList(None)
        BY DEF IsList
    <2> HIDE DEF with, k, b
    <2> QED BY <1>1, <1>5, <2>1, CarryForwardOver
<1>7. IsBook(with) /\ Marks(with) /\ DOMAIN with = Fields
    <2> HIDE DEF k
    <2> QED BY <1>1 DEF IsBook, Records, Marks, Fields
<1> HIDE DEF with
<1>8. IsBook(c)
    BY <1>1, <1>7, FollowedBook
<1>9. Marks(c)
    BY <1>7, FollowKeysMarks
<1> HIDE DEF c
<1>10. c \in Records
    BY <1>8 DEF IsBook
<1>11. SignedAs(c, c, a, None)
    <2>1. Bears(c, c, began[a])
        BY BearsSame
    <2> QED BY <2>1 DEF SignedAs, InForce
<1>12. SignedAs(book'[a], c, a, None) /\ made'[a] = {}
    BY <1>1, <1>3, <1>10, <1>11, SignAs
<1> QED BY <1>4, <1>6, <1>8, <1>9, <1>10, <1>12 DEF Records, b

-----------------------------------------------------------------------------
(* What becomes of every standing that is in force. *)

\* What a key that an act made for a device takes over: of its row, the standings of other keys.
Replaced ==
    [k \in Key |-> {i \in Standing : \E a \in Act :
        k \in made[a] \cap NewKey(a) /\ \E r \in book[a].rows : r.node = k /\ i \in r.ids /\ i.key # k}]

\* Of the standings in force, u has all that every list started from, and in the row of a key that replaced another all
\* that the row had, or revokes them; any other that it lists is of the key that lists it.
Stays(u) == TracedIn(u, AllIds(Start), Replaced, now)

Reads == {"prompt", "unlocked", "signed"}

\* Every list, and the records of every act that read one, are traced so.
Tracked ==
    /\ \A h \in Home : Stays(devices[h]) /\ Stays(conflict[h])
    /\ \A d \in Dir : Stays(copy[d])
    /\ \A a \in Act : Stays(cut[a]) /\ (at[a] \in Reads => Traced(book[a], AllIds(Start), Replaced, now))

\* An act has made a key only once it has signed; it read its list in the past; and it marked no key but a revoked one.
MadeLate == \A a \in Act : made[a] # {} => at[a] \notin Unsigned
Timely == \A a \in Act : began[a] <= now
MarkedGone == \A a \in Act : Marks(book[a])

\* The records of an act speak of the lists it read: of the one beside the key, of the one its home held at the prompt
\* if that was ahead, and of what the fork kept there revokes.
ListsSpoken ==
    \A a \in Act :
        /\ at[a] \in Reads /\ list[a] # None => Speaks(book[a], list[a], began[a])
        /\ at[a] \in {"unlocked", "signed"} =>
              /\ held[a] # None /\ Number(held[a]) > Number(list[a]) => Speaks(book[a], held[a], began[a])
              /\ fork[a] # None => Tells(book[a], fork[a], began[a])

LEMMA ReplacedType ==
    ASSUME TRUE
    PROVE  /\ AllIds(Start) \subseteq Standing
           /\ \A k \in Key : Replaced[k] \subseteq Standing /\ Replaced'[k] \subseteq Standing
<1>1. AllIds(Start) \subseteq Standing
    BY ActAssumption DEF AllIds, Update, Row
<1>2. \A k \in Key : Replaced[k] \subseteq Standing /\ Replaced'[k] \subseteq Standing
    BY DEF Replaced
<1> QED BY <1>1, <1>2

\* A machine's own key is no new one.
LEMMA OwnReplaces ==
    ASSUME NEW a \in Act
    PROVE  Replaced[OwnKey(a)] = {} /\ Replaced'[OwnKey(a)] = {}
<1>1. \A b \in Act : OwnKey(a) \notin NewKey(b)
    <2>1. OwnKey(a) \in {Own[h] : h \in Home}
        BY OwnKeyType DEF OwnKey
    <2> QED BY <2>1, NewKeyAssumption
<1>2. OwnKey(a) \in Key
    BY OwnKeyType
<1> QED BY <1>1, <1>2 DEF Replaced

LEMMA ReplacedStill ==
    ASSUME UNCHANGED <<made, book>>
    PROVE  Replaced' = Replaced
BY DEF Replaced

\* Only the act that makes a key gives it what it replaces, and nobody heard of the key before.
LEMMA ReplacedSteps ==
    ASSUME IInv, MadeLate, NEW a \in Act, Acts(a), NEW k \in Key
    PROVE  \/ Replaced'[k] = Replaced[k]
           \/ Signs(a) /\ k \in made'[a] /\ k = ask[a].key /\ Unheard(k)
<1>1. TypeOK
    BY DEF IInv
<1>2. ASSUME \A b \in Act : k \in made'[b] \cap NewKey(b) <=> k \in made[b] \cap NewKey(b),
             \A b \in Act : k \in made[b] => book'[b] = book[b]
      PROVE  Replaced'[k] = Replaced[k]
    BY <1>2 DEF Replaced
<1>3. ASSUME NEW b \in Act, b # a PROVE made'[b] = made[b] /\ book'[b] = book[b]
    BY <1>1, <1>3, Apart DEF Still
<1>4. CASE ~ Signs(a)
    <2>1. made' = made
        BY <1>4, Frame
    <2>2. k \in made[a] => book'[a] = book[a]
        <3>1. k \in made[a] => at[a] \notin {"idle", "blocked", "prompt"}
            BY DEF MadeLate, Unsigned
        <3> QED BY <1>1, <1>4, <3>1, Frame, Moves
    <2> QED BY <1>2, <1>3, <2>1, <2>2
<1>5. CASE Signs(a)
    <2>1. at[a] = "unlocked" /\ made[a] = {}
        BY <1>5, SignsSound DEF MadeLate, Unsigned
    <2>2. made'[a] = {} \/ made'[a] = {ask[a].key}
        <3>1. RevokeDevice(a) => made'[a] = {}
            BY <1>1 DEF RevokeDevice, Sign, TypeOK
        <3> QED BY <1>5, <3>1, InvitesAs DEF Signs, InvitedAs
    <2>3. CASE k \notin made'[a] \cap NewKey(a)
        BY <1>2, <1>3, <2>1, <2>3
    <2>4. CASE k \in made'[a] \cap NewKey(a)
        <3>1. Unheard(k)
            BY <2>1, <2>4 DEF IInv, Fresh, Unheard, Unsigned
        <3> QED BY <1>5, <2>2, <2>4, <3>1
    <2> QED BY <2>3, <2>4
<1> QED BY <1>4, <1>5

\* Time goes by, and keys that a list does not mention are made.
LEMMA TracedOn ==
    ASSUME NEW b, b.rows \subseteq Row, NEW W, W \subseteq Standing, NEW O, NEW P, NEW time \in Nat, NEW later \in Nat,
           time <= later, Traced(b, W, O, time),
           \A k \in Nodes(b.rows) \cup b.keys : P[k] = O[k] /\ O[k] \subseteq Standing
    PROVE  Traced(b, W, P, later)
<1>1. ASSUME NEW S, S \subseteq Standing, NEW T, InForce(S, time) \subseteq T PROVE InForce(S, later) \subseteq T
    BY <1>1 DEF InForce, Standing
<1>2. InForce(W, later) \subseteq AllIds(b)
    BY <1>1 DEF Traced
<1>3. \A k \in b.keys : InForce(P[k], later) \subseteq b.ids
    BY <1>1 DEF Traced
<1>4. ASSUME NEW r \in b.rows
      PROVE  /\ \A i \in r.ids : i.key = r.node \/ i \in W \cup P[r.node]
             /\ InForce(P[r.node], later) \subseteq b.ids \cup r.ids
    <2>1. P[r.node] = O[r.node] /\ O[r.node] \subseteq Standing
        BY DEF Nodes
    <2>2. InForce(O[r.node], time) \subseteq b.ids \cup r.ids
        BY DEF Traced
    <2>3. InForce(O[r.node], later) \subseteq b.ids \cup r.ids
        BY <1>1, <2>1, <2>2
    <2> QED BY <2>1, <2>3 DEF Traced
<1> QED BY <1>2, <1>3, <1>4 DEF Traced

LEMMA ReplacedNext ==
    ASSUME IInv, MadeLate, Next
    PROVE  now \in Nat /\ now' \in Nat /\ now <= now' /\ \A k \in Key : Replaced'[k] = Replaced[k] \/ Unheard(k)
<1>1. TypeOK /\ now \in Nat /\ MaxTime \in Nat
    BY ActAssumption DEF IInv, TypeOK
<1>2. ASSUME NEW h \in Home, NEW g \in Home, Hear(h, g) \/ HearFork(h, g) PROVE now' = now /\ Replaced' = Replaced
    BY <1>1, <1>2, Hears, ReplacedStill DEF signs
<1>3. CASE Tick
    BY <1>1, <1>3, ReplacedStill DEF Tick, signs
<1>4. ASSUME NEW a \in Act, Acts(a) PROVE now' = now /\ \A k \in Key : Replaced'[k] = Replaced[k] \/ Unheard(k)
    BY <1>4, Frame, ReplacedSteps
<1> QED BY <1>1, <1>2, <1>3, <1>4, NextSteps

LEMMA KeptOn ==
    ASSUME IInv, MadeLate, Next, NEW u, IsList(u), Stays(u), \A k : Unheard(k) => k \notin Mentions(u)
    PROVE  TracedIn(u, AllIds(Start), Replaced', now')
<1>1. CASE u = None
    BY <1>1 DEF TracedIn
<1>2. CASE u # None
    <2>1. u.rows \subseteq Row /\ u.keys \subseteq Key /\ Traced(u, AllIds(Start), Replaced, now)
        BY <1>2 DEF IsList, Update, Stays, TracedIn
    <2>2. Nodes(u.rows) \cup u.keys = Mentions(u) /\ Nodes(u.rows) \cup u.keys \subseteq Key
        BY <1>2, <2>1 DEF Mentions, NodesIn, KeysIn, Nodes, Row
    <2>3. \A k \in Nodes(u.rows) \cup u.keys : Replaced'[k] = Replaced[k] /\ Replaced[k] \subseteq Standing
        BY <2>2, ReplacedNext, ReplacedType
    <2>4. Traced(u, AllIds(Start), Replaced', now')
        BY <2>1, <2>3, ReplacedNext, ReplacedType, TracedOn
    <2> QED BY <2>4 DEF TracedIn
<1> QED BY <1>1, <1>2

LEMMA BookOn ==
    ASSUME IInv, MadeLate, Next, NEW a \in Act, Traced(book[a], AllIds(Start), Replaced, now)
    PROVE  Traced(book[a], AllIds(Start), Replaced', now')
<1> DEFINE b == book[a]
<1>1. b.rows \subseteq Row /\ b.keys \subseteq Key
    BY DEF IInv, Books, IsBook, Records
<1>2. \A k : Unheard(k) => k \notin Nodes(b.rows) \cup b.keys
    BY DEF Unheard, BookMentions
<1>3. Nodes(b.rows) \cup b.keys \subseteq Key
    BY <1>1 DEF Nodes, Row
<1> HIDE DEF b
<1>4. \A k \in Nodes(b.rows) \cup b.keys : Replaced'[k] = Replaced[k] /\ Replaced[k] \subseteq Standing
    BY <1>2, <1>3, ReplacedNext, ReplacedType
<1> QED BY <1>1, <1>4, ReplacedNext, ReplacedType, TracedOn DEF b

\* What an act of the home brings forward is traced, as what it had and what its home holds are.
LEMMA ForwardedTraced ==
    ASSUME IInv, Timely, Tracked, NEW a \in Act, at[a] \in Reads
    PROVE  Traced(Forwarded(a, book[a], began[a]), AllIds(Start), Replaced, now)
<1>1. /\ IsBook(book[a]) /\ IsList(devices[Runs[a]]) /\ IsList(conflict[Runs[a]]) /\ OwnKey(a) \in Key
      /\ began[a] \in Nat /\ now \in Nat /\ began[a] <= now
    BY ActFacts DEF IInv, Books, Timely
<1>2. /\ TracedIn(devices[Runs[a]], AllIds(Start), Replaced, now)
      /\ TracedIn(conflict[Runs[a]], AllIds(Start), Replaced, now)
    BY OwnKeyType DEF Tracked, Stays
<1>3. Traced(book[a], AllIds(Start), Replaced, now)
    BY DEF Tracked
<1> QED BY <1>1, <1>2, <1>3, ReplacedType, ForwardTraced DEF Forwarded

LEMMA BroughtTraced ==
    ASSUME IInv, Timely, Tracked, NEW a \in Act, at[a] = "signed"
    PROVE  Traced(Brought(a), AllIds(Start), Replaced, now)
<1>1. Traced(book[a], AllIds(Start), Replaced, now)
    BY DEF Tracked, Reads
<1>2. Traced(Forwarded(a, book[a], began[a]), AllIds(Start), Replaced, now)
    BY ForwardedTraced DEF Reads
<1> QED BY <1>1, <1>2 DEF Brought

LEMMA UnlockTraced ==
    ASSUME IInv, Timely, Tracked, NEW a \in Act, Unlock(a)
    PROVE  Traced(book'[a], AllIds(Start), Replaced, now)
<1> DEFINE b == Forwarded(a, book[a], began[a])
           f == CarryOwn(a, b)
           own == OwnKey(a)
<1>1. TypeOK /\ Lists /\ Spared /\ at[a] = "prompt" /\ IsBook(book[a]) /\ Sound(a, book[a])
    BY DEF IInv, Books, Unlock
<1>2. began[a] \in Nat /\ now \in Nat /\ began[a] <= now
    BY <1>1, ActFacts DEF Timely
<1>3. book'[a] = f
    BY <1>1 DEF Unlock, TypeOK
<1>4. IsBook(b) /\ Sound(a, b)
    BY <1>1, <1>2, ForwardedSound
<1>5. Traced(b, AllIds(Start), Replaced, now)
    BY <1>1, ForwardedTraced DEF Reads
<1> HIDE DEF b
<1>6. IsBook(f) /\ f.keys = b.keys
    BY <1>1, <1>4, CarryOwnSound
<1>7. b \in Records /\ f \in Records
    BY <1>4, <1>6 DEF IsBook
<1>8. CASE SignedAs(f, b, a, None)
    <2>1. None \notin f.keys /\ \A x \in f.rows : x.node # None
        BY <1>7, BookAssumption DEF Records, Row
    <2> HIDE DEF f
    <2> QED BY <1>2, <1>3, <1>5, <1>7, <1>8, <2>1, ReplacedType, SignedTraced
<1>9. CASE SignedAs(f, b, a, own) /\ SignedAnew(f, a, own) /\ own \notin b.keys
    <2>1. \A x \in f.rows : x.node = own => /\ \A i \in x.ids : i.key = own \/ i \in Replaced[own]
                                            /\ InForce(Replaced[own], now) \subseteq x.ids
        <3>1. Replaced[own] = {}
            BY OwnReplaces
        <3> QED BY <1>9, <3>1, SignedBy DEF SignedAnew, InForce
    <2> HIDE DEF f, own
    <2>2. own \notin f.keys
        BY <1>6, <1>9
    <2> QED BY <1>2, <1>3, <1>5, <1>7, <1>9, <2>1, <2>2, ReplacedType, SignedTraced
<1>10. \/ SignedAs(f, b, a, None)
       \/ SignedAs(f, b, a, own) /\ SignedAnew(f, a, own) /\ own \notin b.keys
    BY <1>7, CarryOwnAs
<1> QED BY <1>8, <1>9, <1>10

\* A new key takes on what it replaces as it is signed.
LEMMA MadeReplaces ==
    ASSUME IInv, MadeLate, NEW a \in Act, Signs(a), ask[a].key \in made'[a], ask[a].verb \in {"add", "new key"},
           SignedAnew(book'[a], a, ask[a].key) \/ ask[a].key \in NewKey(a),
           NEW x \in book'[a].rows, x.node = ask[a].key
    PROVE  /\ \A i \in x.ids : i.key = ask[a].key \/ i \in Replaced'[ask[a].key]
           /\ Replaced'[ask[a].key] \subseteq x.ids
<1> DEFINE k == ask[a].key
<1>1. TypeOK /\ k \in Key /\ IsBook(book'[a]) /\ at[a] = "unlocked"
    BY ActFacts, SignsSound DEF IInv, SignedFrom
<1>2. OneEach(book'[a].rows) /\ x.ids \subseteq Standing
    BY <1>1 DEF IsBook, Sorted, Records, Row
<1>3. \A i \in x.ids : i.key = k \/ i \in Replaced'[k]
    <2>1. CASE SignedAnew(book'[a], a, k)
        <3>1. Signed(a, k).key = k
            BY DEF Signed
        <3>2. x.ids \subseteq {Signed(a, k)}
            BY <2>1 DEF SignedAnew
        <3> QED BY <3>1, <3>2
    <2>2. CASE k \in NewKey(a)
        BY <1>1, <1>2, <2>2 DEF Replaced
    <2> QED BY <2>1, <2>2
<1>4. ASSUME NEW b \in Act, k \in NewKey(b) PROVE b = a
    <2>1. ask[a] \in Asks[a]
        BY <1>1 DEF IInv, Aims
    <2> QED BY <1>4, <2>1, NewKeyAssumption
<1>5. ASSUME NEW i \in Replaced'[k] PROVE i \in x.ids
    <2>1. PICK b \in Act : k \in made'[b] \cap NewKey(b) /\ \E r \in book'[b].rows : r.node = k /\ i \in r.ids
        BY <1>1 DEF Replaced
    <2>2. PICK r \in book'[a].rows : r.node = k /\ i \in r.ids
        BY <1>4, <2>1
    <2>3. r = x
        BY <1>2, <2>2 DEF OneEach
    <2> QED BY <2>2, <2>3
<1> QED BY <1>3, <1>5

LEMMA SignsTraced ==
    ASSUME IInv, MadeLate, Timely, MarkedGone, Tracked, NEW a \in Act, Signs(a)
    PROVE  Traced(book'[a], AllIds(Start), Replaced', now)
<1> DEFINE f == book'[a]
           W == AllIds(Start)
<1> SUFFICES Traced(f, W, Replaced', now)
    OBVIOUS
<1>1. /\ TypeOK /\ IsBook(book[a]) /\ IsBook(f) /\ at[a] = "unlocked"
      /\ began[a] \in Nat /\ now \in Nat /\ began[a] <= now
    BY ActFacts, SignsSound DEF IInv, Books, SignedFrom, Timely
<1>2. book[a] \in Records /\ f \in Records
    BY <1>1 DEF IsBook
<1>3. Traced(book[a], W, Replaced, now)
    BY <1>1 DEF Tracked, Reads
<1>4. \A k \in Key : Replaced'[k] = Replaced[k] \/ (k \in made'[a] /\ k = ask[a].key)
    BY ReplacedSteps DEF Acts
<1>5. None \notin f.keys /\ \A x \in f.rows : x.node # None
    BY <1>2, BookAssumption DEF Records, Row
<1>6. W \in SUBSET Standing /\ \A k \in Key : Replaced[k] \in SUBSET Standing
    BY ReplacedType
<1> HIDE DEF W
<1>7. CASE RevokeDevice(a)
    <2> DEFINE c == RevokedFrom(a)
    <2>1. IsBook(c) /\ Over(c, book[a], {}, {}, began[a]) /\ SignedAs(f, c, a, None) /\ made'[a] = {}
        BY <1>7, RevokesAs DEF MarkedGone
    <2>2. Traced(c, W, Replaced, now)
        <3>1. IsList(None) /\ {} \in SUBSET RowsIn(None) /\ {} \subseteq KeysIn(None)
            BY DEF IsList
        <3>2. c.rows \in SUBSET Row /\ OneEach(c.rows) /\ c.keys \subseteq Key
            BY <2>1 DEF IsBook, Sorted, Records
        <3>3. TracedIn(None, W, Replaced, now)
            BY DEF TracedIn
        <3> HIDE DEF c
        <3> QED BY <1>1, <1>3, <1>6, <2>1, <3>1, <3>2, <3>3, OverTraced
    <2>3. c \in Records /\ \A k \in Key : Replaced'[k] = Replaced[k]
        BY <1>4, <2>1 DEF IsBook
    <2> HIDE DEF c, f
    <2> QED BY <1>1, <1>2, <1>5, <1>6, <2>1, <2>2, <2>3, SignedTraced
<1>8. CASE Add(a) \/ Rekey(a) \/ Renew(a)
    <2> DEFINE key == ask[a].key
    <2>1. InvitedAs(a, f, made'[a])
        BY <1>8, InvitesAs
    <2>2. CASE made'[a] = {} /\ SignedAs(f, book[a], a, None)
        <3>1. \A k \in Key : Replaced'[k] = Replaced[k]
            BY <1>4, <2>2
        <3> HIDE DEF f
        <3> QED BY <1>1, <1>2, <1>3, <1>5, <1>6, <2>2, <3>1, SignedTraced
    <2>3. CASE /\ made'[a] = {key} /\ SignedAs(f, book[a], a, key)
               /\ ask[a].verb \in {"add", "new key"} /\ key \notin f.keys
               /\ SignedAnew(f, a, key) \/ key \in NewKey(a)
        <3>1. \A x \in f.rows : x.node = key => /\ \A i \in x.ids : i.key = key \/ i \in Replaced'[key]
                                                /\ InForce(Replaced'[key], now) \subseteq x.ids
            BY <2>3, MadeReplaces DEF InForce
        <3>2. \A k \in Key : k # key => Replaced'[k] = Replaced[k]
            BY <1>4
        <3>3. SignedAs(f, book[a], a, key) /\ key \notin f.keys
            BY <2>3
        <3> HIDE DEF f, key
        <3> QED BY <1>1, <1>2, <1>3, <1>6, <3>1, <3>2, <3>3, SignedTraced
    <2> QED BY <2>1, <2>2, <2>3 DEF InvitedAs
<1> QED BY <1>7, <1>8 DEF Signs

LEMMA CommitTraced ==
    ASSUME IInv, Timely, Tracked, NEW a \in Act, Commit(a)
    PROVE  TracedIn(cut'[a], AllIds(Start), Replaced, now)
<1> DEFINE b == Brought(a)
           u == devices[Runs[a]]
           W == AllIds(Start)
<1>1. /\ TypeOK /\ Lists /\ at[a] = "signed" /\ began[a] \in Nat /\ now \in Nat /\ began[a] <= now
      /\ Runs[a] \in Home /\ IsBook(b)
    BY ActFacts, OwnKeyType, BroughtSound DEF IInv, Timely, Commit, OnwardFrom
<1>2. cut'[a] = IF Cutting(a) THEN NextCut(a) ELSE u
    BY <1>1 DEF Commit, TypeOK
<1>3. Traced(b, W, Replaced, now)
    BY <1>1, BroughtTraced
<1>4. TracedIn(u, W, Replaced, now)
    BY <1>1 DEF Tracked, Stays
<1>5. CASE Cutting(a)
    <2> DEFINE c == Cut(b, NextNumber(a), began[a])
    <2>1. cut'[a] = c
        BY <1>2, <1>5 DEF NextCut
    <2>2. Over(c, b, {}, {}, began[a])
        BY <1>1, CutOver DEF IsBook
    <2>3. c.rows \in SUBSET Row /\ OneEach(c.rows) /\ c.keys \subseteq Key
        <3>1. IsList(cut'[a]) /\ cut'[a] # None
            BY Commits
        <3> QED BY <2>1, <3>1 DEF IsList, Update, WellFormed
    <2>4. IsList(None) /\ {} \in SUBSET RowsIn(None) /\ {} \subseteq KeysIn(None) /\ TracedIn(None, W, Replaced, now)
        BY DEF IsList, TracedIn
    <2>5. W \subseteq Standing /\ \A k \in Key : Replaced[k] \subseteq Standing
        BY ReplacedType
    <2> HIDE DEF b, c, W
    <2>6. Traced(c, W, Replaced, now)
        BY <1>1, <1>3, <2>2, <2>3, <2>4, <2>5, OverTraced
    <2> QED BY <2>1, <2>6 DEF TracedIn, W
<1> QED BY <1>2, <1>4, <1>5

LEMMA TrackedNext == ASSUME IInv, MadeLate, Timely, MarkedGone, Tracked, Next PROVE Tracked'
<1> DEFINE T(u) == TracedIn(u, AllIds(Start), Replaced', now')
           B(b) == Traced(b, AllIds(Start), Replaced', now')
<1>1. TypeOK /\ Lists /\ Locked
    BY DEF IInv
<1>2. /\ \A h \in Home : T(devices[h]) /\ T(conflict[h])
      /\ \A d \in Dir : T(copy[d])
      /\ \A a \in Act : T(cut[a])
      /\ T(None)
    <2>1. /\ \A h \in Home : Stays(devices[h]) /\ Stays(conflict[h])
          /\ \A d \in Dir : Stays(copy[d])
          /\ \A a \in Act : Stays(cut[a])
        BY DEF Tracked
    <2>2. T(None)
        BY DEF TracedIn
    <2> QED BY <1>1, <2>1, <2>2, KeptOn DEF Lists, Unheard
<1>3. \A a \in Act : at[a] \in Reads => B(book[a])
    BY BookOn DEF Tracked
<1>4. SUFFICES /\ \A h \in Home : T(devices'[h]) /\ T(conflict'[h])
               /\ \A d \in Dir : T(copy'[d])
               /\ \A a \in Act : T(cut'[a]) /\ (at'[a] \in Reads => B(book'[a]))
    BY DEF Tracked, Stays, AllIds, Reads, TracedIn, Traced, InForce
<1> HIDE DEF T, B
<1>5. ASSUME NEW h \in Home, NEW g \in Home, Hear(h, g) \/ HearFork(h, g)
      PROVE  /\ \A x \in Home : T(devices'[x]) /\ T(conflict'[x])
             /\ \A d \in Dir : T(copy'[d])
             /\ \A a \in Act : T(cut'[a]) /\ (at'[a] \in Reads => B(book'[a]))
    <2>1. /\ \A x \in Home \ {h} : devices'[x] = devices[x] /\ conflict'[x] = conflict[x]
          /\ devices'[h] \in {devices[h], devices[g]}
          /\ conflict'[h] \in {conflict[h], None, devices[g], conflict[g]}
          /\ UNCHANGED <<copy, at, book, cut>>
        BY <1>1, <1>5, Hears DEF signs
    <2> QED BY <1>2, <1>3, <2>1
<1>6. CASE Tick
    BY <1>2, <1>3, <1>6, Ticks DEF homes, signs
<1>7. ASSUME NEW a \in Act, Acts(a)
      PROVE  /\ \A h \in Home : T(devices'[h]) /\ T(conflict'[h])
             /\ \A d \in Dir : T(copy'[d])
             /\ \A b \in Act : T(cut'[b]) /\ (at'[b] \in Reads => B(book'[b]))
    <2>1. now' = now
        BY <1>7, Frame
    <2>2. ASSUME ~ Signs(a) PROVE Replaced' = Replaced
        <3>1. \A k \in Key : Replaced'[k] = Replaced[k]
            BY <1>7, <2>2, ReplacedSteps
        <3>2. DOMAIN Replaced = Key /\ DOMAIN Replaced' = Key
            BY DEF Replaced
        <3>3. Replaced = [k \in Key |-> Replaced[k]] /\ Replaced' = [k \in Key |-> Replaced'[k]]
            BY DEF Replaced
        <3> QED BY <3>1, <3>3
    <2>3. Commit(a) => T(cut'[a])
        <3>1. Commit(a) => ~ Signs(a)
            BY <1>1, Moves
        <3> QED BY <2>1, <2>2, <3>1, CommitTraced DEF T
    <2>4. ASSUME NEW h \in Home PROVE T(devices'[h]) /\ T(conflict'[h])
        <3>1. CASE FoldCut(a)
            <4>1. devices'[h] \in {devices[h], cut[a]} /\ conflict'[h] \in {conflict[h], None}
                BY <1>1, <3>1, Folds
            <4> QED BY <1>2, <4>1
        <3> QED BY <1>2, <1>7, <3>1, Frame
    <2>5. ASSUME NEW d \in Dir PROVE T(copy'[d])
        BY <1>2, <1>7, <2>3, Commits, Frame
    <2>6. T(cut'[a])
        <3>1. CASE Prints(a)
            <4>1. cut'[a] = devices[Runs[a]]
                BY <1>1, <3>1 DEF Prints, Unchanged, TypeOK
            <4> QED BY <1>2, <4>1, OwnKeyType
        <3> QED BY <1>2, <1>7, <2>3, <3>1, Frame
    <2>7. ASSUME at'[a] \in Reads PROVE B(book'[a])
        <3>1. CASE Presents(a)
            <4>1. T(Beside(a)) /\ Beside(a) # None
                BY <1>1, <1>2, OwnKeyType, BookAssumption, KindsAssumption DEF Beside, TypeOK
            <4>2. B(Beside(a))
                BY <4>1 DEF T, B, TracedIn
            <4>3. book'[a] = BookOf(Beside(a))
                BY <1>1, <3>1, PresentSets
            <4> QED BY <4>1, <4>2, <4>3 DEF B, BookOf, Traced, AllIds
        <3>2. CASE Unlock(a)
            <4>1. ~ Signs(a)
                BY <1>1, <3>2, Moves
            <4> QED BY <2>1, <2>2, <3>2, <4>1, UnlockTraced DEF B
        <3>3. CASE Signs(a)
            BY <2>1, <3>3, SignsTraced DEF B
        <3>4. CASE ~ (Presents(a) \/ Unlock(a) \/ Signs(a))
            <4>1. book' = book /\ at[a] \in Reads
                BY <1>1, <1>7, <2>7, <3>4, Frame, Moves DEF Reads
            <4> QED BY <1>3, <4>1
        <3> QED BY <3>1, <3>2, <3>3, <3>4
    <2>8. ASSUME NEW b \in Act, b # a PROVE T(cut'[b]) /\ (at'[b] \in Reads => B(book'[b]))
        BY <1>1, <1>2, <1>3, <1>7, <2>8, Apart DEF Still
    <2> QED BY <2>4, <2>5, <2>6, <2>7, <2>8
<1> QED BY <1>5, <1>6, <1>7, NextSteps

LEMMA MadeLateNext == ASSUME IInv, MadeLate, Next PROVE MadeLate'
<1>1. TypeOK
    BY DEF IInv
<1>2. CASE UNCHANGED <<at, made>>
    BY <1>2 DEF MadeLate
<1>3. ASSUME NEW a \in Act, Acts(a), NEW b \in Act, made'[b] # {} PROVE at'[b] \notin Unsigned
    <2>1. CASE b # a
        BY <1>1, <1>3, <2>1, Apart DEF Still, MadeLate
    <2>2. CASE b = a /\ Signs(a)
        BY <1>1, <2>2, Moves DEF Unsigned
    <2>3. CASE b = a /\ ~ Signs(a)
        <3>1. made' = made /\ at[a] \notin Unsigned
            BY <1>3, <2>3, Frame DEF MadeLate
        <3> QED BY <1>1, <1>3, <2>3, <3>1, Moves DEF Unsigned
    <2> QED BY <2>1, <2>2, <2>3
<1>4. ASSUME NEW a \in Act, Acts(a) PROVE MadeLate'
    BY <1>3, <1>4 DEF MadeLate
<1> QED BY <1>1, <1>2, <1>4, NextSteps, Hears, Ticks DEF signs

LEMMA TimelyNext == ASSUME IInv, Timely, Next PROVE Timely'
<1>1. TypeOK /\ now \in Nat /\ \A a \in Act : began[a] \in Nat
    BY ActFacts, ActAssumption DEF IInv, TypeOK
<1>2. ASSUME now' = now, began' = began PROVE Timely'
    BY <1>2 DEF Timely
<1>3. CASE Tick
    BY <1>1, <1>3 DEF Tick, reads, Timely
<1>4. ASSUME NEW a \in Act, Acts(a) PROVE Timely'
    <2>1. now' = now
        BY <1>4, Frame
    <2>2. ASSUME NEW b \in Act PROVE began'[b] <= now'
        <3>1. CASE Presents(a) /\ b = a
            BY <1>1, <2>1, <3>1, PresentSets
        <3>2. CASE b # a
            BY <1>1, <1>4, <2>1, <3>2, Apart DEF Still, Timely
        <3> QED BY <1>4, <2>1, <3>1, <3>2, Frame DEF Timely
    <2> QED BY <2>2 DEF Timely
<1> QED BY <1>1, <1>2, <1>3, <1>4, NextSteps, Hears DEF reads

LEMMA MarkedGoneNext == ASSUME IInv, MarkedGone, Next PROVE MarkedGone'
<1>1. TypeOK /\ Lists
    BY DEF IInv
<1>2. CASE UNCHANGED book
    BY <1>2 DEF MarkedGone, Marks, Nodes
<1>3. ASSUME NEW a \in Act, Acts(a) PROVE Marks(book'[a])
    <2>1. Marks(book[a]) /\ IsBook(book[a]) /\ Sound(a, book[a]) /\ began[a] \in Nat
        BY <1>1, ActFacts DEF MarkedGone, IInv, Books
    <2>2. CASE Presents(a)
        <3>1. book'[a] = BookOf(Beside(a))
            BY <1>1, <2>2, PresentSets
        <3> QED BY <3>1 DEF BookOf, Marks, Nodes
    <2>3. CASE Unlock(a)
        <3> DEFINE f == Forwarded(a, book[a], began[a])
        <3>1. Marks(f)
            BY <1>1, <2>1, ActFacts, ForwardMarks DEF Forwarded
        <3>2. IsBook(f)
            BY <1>1, <2>1, ForwardedSound DEF IInv
        <3>3. book'[a] = CarryOwn(a, f)
            BY <1>1, <2>3 DEF Unlock, TypeOK
        <3> HIDE DEF f
        <3>4. CarryOwn(a, f).keys = f.keys /\ CarryOwn(a, f).marked = f.marked
            BY <3>2, CarryOwnAs DEF SignedAs, IsBook
        <3> QED BY <3>1, <3>3, <3>4 DEF Marks
    <2>4. CASE RevokeDevice(a)
        BY <2>1, <2>4, RevokesAs DEF SignedAs, Marks
    <2>5. CASE Add(a) \/ Rekey(a) \/ Renew(a)
        BY <2>1, <2>5, InvitesAs DEF InvitedAs, SignedAs, Marks
    <2> QED BY <1>3, <2>1, <2>2, <2>3, <2>4, <2>5, Frame DEF Signs
<1>4. ASSUME NEW a \in Act, Acts(a) PROVE MarkedGone'
    <2>1. \A b \in Act \ {a} : book'[b] = book[b]
        BY <1>1, <1>4, Apart DEF Still
    <2> QED BY <1>3, <1>4, <2>1 DEF MarkedGone, Marks, Nodes
<1> QED BY <1>1, <1>2, <1>4, NextSteps, Hears, Ticks DEF signs

LEMMA SignsBears ==
    ASSUME IInv, MarkedGone, NEW a \in Act, Signs(a)
    PROVE  Bears(book'[a], book[a], began[a])
<1>1. CASE RevokeDevice(a)
    BY <1>1, RevokesAs, OverBears, BearsBoth DEF MarkedGone, SignedAs
<1>2. CASE Add(a) \/ Rekey(a) \/ Renew(a)
    BY <1>2, InvitesAs DEF InvitedAs, SignedAs
<1> QED BY <1>1, <1>2 DEF Signs

\* What the records of an act speak of once they are brought forward from what its home holds.
LEMMA ForwardedSpeaks ==
    ASSUME IInv, NEW a \in Act
    PROVE  LET f == Forwarded(a, book[a], began[a])
               u == devices[Runs[a]]
           IN  /\ Bears(f, book[a], began[a])
               /\ conflict[Runs[a]] # None => Tells(f, conflict[Runs[a]], began[a])
               /\ u.number > book[a].number => Speaks(f, u, began[a])
<1>1. /\ IsBook(book[a]) /\ IsList(devices[Runs[a]]) /\ IsList(conflict[Runs[a]]) /\ OwnKey(a) \in Key
      /\ began[a] \in Nat /\ devices[Runs[a]] # None /\ Number(devices[Runs[a]]) = devices[Runs[a]].number
    BY ActFacts, HomeFacts DEF IInv, Books
<1> QED BY <1>1, ForwardSpeaks DEF Forwarded

LEMMA UnlockSpeaks ==
    ASSUME IInv, ListsSpoken, NEW a \in Act, Unlock(a)
    PROVE  /\ list[a] # None => Speaks(book'[a], list[a], began[a])
           /\ Number(devices[Runs[a]]) > Number(list[a]) => Speaks(book'[a], devices[Runs[a]], began[a])
           /\ conflict[Runs[a]] # None => Tells(book'[a], conflict[Runs[a]], began[a])
<1> DEFINE b == book[a]
           f == Forwarded(a, b, began[a])
           g == CarryOwn(a, f)
           u == devices[Runs[a]]
           time == began[a]
<1>1. /\ TypeOK /\ Lists /\ Spared /\ IsBook(b) /\ Sound(a, b) /\ at[a] = "prompt" /\ time \in Nat
      /\ Number(u) = u.number
    BY ActFacts, HomeFacts DEF IInv, Books, Unlock
<1>2. b.number = Number(list[a])
    <2>1. b = BookOf(list[a])
        BY <1>1 DEF IInv, Opened
    <2> QED BY <1>1, <2>1, BookOfParts DEF Lists
<1>3. list[a] # None => Speaks(b, list[a], time)
    BY <1>1 DEF ListsSpoken, Reads
<1>4. /\ Bears(f, b, time)
      /\ conflict[Runs[a]] # None => Tells(f, conflict[Runs[a]], time)
      /\ u.number > b.number => Speaks(f, u, time)
    BY ForwardedSpeaks
<1>5. book'[a] = g
    BY <1>1 DEF Unlock, TypeOK
<1>6. Bears(g, f, time)
    <2>1. f \in Records
        BY <1>1, ForwardedSound DEF IsBook
    <2> HIDE DEF f
    <2> QED BY <2>1, CarryOwnAs DEF SignedAs
<1> HIDE DEF b, f, g, u, time
<1>7. Bears(g, b, time)
    BY <1>4, <1>6, BearsBoth
<1>8. list[a] # None => Speaks(g, list[a], time)
    BY <1>3, <1>7, SpeaksOn
<1>9. u.number > b.number => Speaks(g, u, time)
    BY <1>4, <1>6, SpeaksOn
<1>10. conflict[Runs[a]] # None => Tells(g, conflict[Runs[a]], time)
    BY <1>4, <1>6, TellsOn
<1> QED BY <1>1, <1>2, <1>5, <1>8, <1>9, <1>10 DEF time, u

LEMMA ListsSpokenNext == ASSUME IInv, MarkedGone, ListsSpoken, Next PROVE ListsSpoken'
<1> DEFINE Spoke(a, f, l, h, v, time, place) ==
              /\ place \in Reads /\ l # None => Speaks(f, l, time)
              /\ place \in {"unlocked", "signed"} =>
                    /\ h # None /\ Number(h) > Number(l) => Speaks(f, h, time)
                    /\ v # None => Tells(f, v, time)
           S(a) == Spoke(a, book[a], list[a], held[a], fork[a], began[a], at[a])
           N(a) == Spoke(a, book'[a], list'[a], held'[a], fork'[a], began'[a], at'[a])
<1>1. TypeOK /\ Lists
    BY DEF IInv
<1>2. \A a \in Act : S(a)
    BY DEF ListsSpoken
<1>3. ASSUME NEW a \in Act, UNCHANGED <<book[a], list[a], held[a], fork[a], began[a], at[a]>> PROVE N(a)
    BY <1>2, <1>3
<1>4. ASSUME NEW a \in Act, Acts(a) PROVE N(a)
    <2>1. CASE Presents(a)
        <3> DEFINE u == Beside(a)
        <3>1. book'[a] = BookOf(u) /\ list'[a] = u /\ at'[a] = "prompt"
            BY <1>1, <2>1, PresentSets, Moves
        <3>2. u # None => Speaks(BookOf(u), u, began'[a])
            <4> HIDE DEF u
            <4> QED BY DEF BookOf, Speaks, Tells, InForce, AllIds
        <3> QED BY <3>1, <3>2
    <2>2. CASE Unlock(a)
        <3>1. /\ at'[a] = "unlocked" /\ list'[a] = list[a] /\ began'[a] = began[a]
              /\ held'[a] = devices[Runs[a]] /\ fork'[a] = conflict[Runs[a]]
            BY <1>1, <2>2, UnlockSets, Moves DEF Unlock
        <3> QED BY <2>2, <3>1, UnlockSpeaks
    <2>3. CASE Signs(a)
        <3>1. /\ at[a] = "unlocked" /\ at'[a] = "signed"
              /\ list'[a] = list[a] /\ began'[a] = began[a] /\ held'[a] = held[a] /\ fork'[a] = fork[a]
            BY <2>3, SignsSound DEF reads
        <3>2. Bears(book'[a], book[a], began[a])
            BY <2>3, SignsBears
        <3>3. /\ list[a] # None => Speaks(book[a], list[a], began[a])
              /\ held[a] # None /\ Number(held[a]) > Number(list[a]) => Speaks(book[a], held[a], began[a])
              /\ fork[a] # None => Tells(book[a], fork[a], began[a])
            BY <1>2, <3>1 DEF Reads
        <3> QED BY <3>1, <3>2, <3>3, SpeaksOn, TellsOn
    <2>4. CASE ~ (Presents(a) \/ Unlock(a) \/ Signs(a))
        <3>1. UNCHANGED <<book, list, held, fork, began>>
            BY <1>4, <2>4, Frame
        <3>2. at'[a] = at[a] \/ at'[a] \notin Reads
            BY <1>1, <1>4, <2>4, Moves DEF Reads
        <3> QED BY <1>2, <3>1, <3>2 DEF Reads
    <2> QED BY <2>1, <2>2, <2>3, <2>4
<1>5. ASSUME NEW a \in Act, Acts(a), NEW b \in Act, b # a PROVE N(b)
    BY <1>1, <1>3, <1>5, Apart DEF Still
<1>6. ASSUME UNCHANGED <<at, reads, signs>>, NEW a \in Act PROVE N(a)
    BY <1>3, <1>6 DEF reads, signs
<1>7. \A a \in Act : N(a)
    BY <1>1, <1>4, <1>5, <1>6, NextSteps, Hears, Ticks
<1> QED BY <1>7 DEF ListsSpoken, Reads, Speaks, Tells, InForce, AllIds, Number

\* What the home of an act holds is past the list beside the key, or is it, and past the fork the act was given.
Level(a) ==
    LET u == devices[Runs[a]]
    IN  /\ list[a] = u \/ Number(list[a]) < u.number
        /\ fork[a] = None \/ held[a] = u \/ Number(fork[a]) < u.number

\* The cut carries the revocations of the fork kept in its home; and all of the update held there, if that is past what
\* the act was given.
CutHolds ==
    \A a \in Act : at[a] = "folding" =>
        LET h == Runs[a]
        IN  /\ Level(a) => Carried(devices[h], cut[a])
            /\ conflict[h] # None => Carries(cut[a], conflict[h], now)

LEMMA TellsCarries ==
    ASSUME NEW f, NEW u, u.ids \subseteq Standing, NEW time \in Nat, NEW later \in Nat, time <= later, Tells(f, u, time)
    PROVE  Carries(f, u, later)
BY DEF Tells, Carries, Owed, InForce, Standing

\* The records an act cuts from speak of the update its home holds.
LEMMA BroughtSpeaks ==
    ASSUME IInv, ListsSpoken, NEW a \in Act, at[a] = "signed"
    PROVE  /\ conflict[Runs[a]] # None => Tells(Brought(a), conflict[Runs[a]], began[a])
           /\ Level(a) => Speaks(Brought(a), devices[Runs[a]], began[a])
<1> DEFINE u == devices[Runs[a]]
           v == conflict[Runs[a]]
           b == book[a]
           c == Brought(a)
           time == began[a]
<1>1. /\ TypeOK /\ Lists /\ u # None /\ u.number \in Nat /\ Number(u) = u.number /\ b.number \in Nat
    BY ActFacts, HomeFacts DEF IInv, Books, IsBook, Records
<1>2. /\ list[a] # None => Speaks(b, list[a], time)
      /\ held[a] # None /\ Number(held[a]) > Number(list[a]) => Speaks(b, held[a], time)
      /\ fork[a] # None => Tells(b, fork[a], time)
    BY DEF ListsSpoken, Reads
<1>3. /\ b.number \in {Number(list[a]), Number(held[a]), Number(fork[a])}
      /\ u = held[a] \/ u.number > Number(held[a])
    BY DEF IInv, Gathered
<1>4. Number(list[a]) \in Nat /\ Number(held[a]) \in Nat /\ Number(fork[a]) \in Nat
    BY <1>1 DEF Lists, IsList, Update, Number
<1>5. CASE Moved(a)
    <2>1. c = Forwarded(a, b, time)
        BY <1>5 DEF Brought
    <2>2. Bears(c, b, time) /\ (v # None => Tells(c, v, time)) /\ (u.number > b.number => Speaks(c, u, time))
        BY <2>1, ForwardedSpeaks
    <2> HIDE DEF b, c, time, u
    <2>3. ASSUME Level(a) PROVE Speaks(c, u, time)
        <3>1. list[a] = u \/ Number(list[a]) < u.number
            BY <2>3 DEF Level, u
        <3>2. fork[a] = None \/ held[a] = u \/ Number(fork[a]) < u.number
            BY <2>3 DEF Level, u
        <3>3. CASE list[a] = u
            BY <1>1, <1>2, <2>2, <3>3, SpeaksOn
        <3>4. CASE Number(list[a]) < u.number /\ u = held[a]
            BY <1>1, <1>2, <1>4, <2>2, <3>4, SpeaksOn
        <3>5. CASE Number(list[a]) < u.number /\ u # held[a]
            <4>1. Number(held[a]) < u.number
                BY <1>3, <3>5
            <4>2. Number(fork[a]) < u.number
                <5>1. CASE fork[a] = None
                    <6>1. Number(fork[a]) = 0
                        BY <5>1 DEF Number
                    <6> QED BY <1>1, <1>4, <3>5, <6>1
                <5> QED BY <3>2, <3>5, <5>1
            <4>3. b.number < u.number
                BY <1>3, <3>5, <4>1, <4>2
            <4> QED BY <1>1, <2>2, <4>3
        <3> QED BY <3>1, <3>3, <3>4, <3>5
    <2> QED BY <2>2, <2>3 DEF b, c, time, u
<1>6. CASE ~ Moved(a)
    <2>1. c = b /\ u = held[a] /\ v = fork[a]
        BY <1>6 DEF Brought, Moved
    <2> HIDE DEF b, c, time, u
    <2>2. ASSUME Level(a) PROVE Speaks(c, u, time)
        <3>1. list[a] = u \/ Number(list[a]) < u.number
            BY <2>2 DEF Level, u
        <3> QED BY <1>1, <1>2, <2>1, <3>1
    <2> QED BY <1>2, <2>1, <2>2 DEF b, c, time, u
<1> QED BY <1>5, <1>6

LEMMA CommitHolds ==
    ASSUME IInv, Timely, Tracked, ListsSpoken, NEW a \in Act, Commit(a), Cutting(a)
    PROVE  /\ Level(a) => Carried(devices[Runs[a]], cut'[a])
           /\ conflict[Runs[a]] # None => Carries(cut'[a], conflict[Runs[a]], now)
<1> DEFINE u == devices[Runs[a]]
           v == conflict[Runs[a]]
           b == Brought(a)
           c == Cut(b, NextNumber(a), began[a])
           time == began[a]
           W == AllIds(Start)
<1>1. /\ TypeOK /\ at[a] = "signed" /\ IsBook(b) /\ time \in Nat /\ now \in Nat /\ time <= now
      /\ u \in Update /\ u # None /\ (v = None \/ v \in Update)
    BY ActFacts, HomeFacts, BroughtSound DEF IInv, Timely, Commit, OnwardFrom, IsList
<1>2. cut'[a] = c
    BY <1>1 DEF Commit, NextCut, TypeOK
<1>3. Bears(c, b, time)
    <2>1. Over(c, b, {}, {}, time)
        BY <1>1, CutOver DEF IsBook
    <2> QED BY <2>1, OverBears
<1>4. Traced(c, W, Replaced, now)
    <2>1. TracedIn(cut'[a], W, Replaced, now) /\ cut'[a] # None
        BY CommitTraced, Commits
    <2> QED BY <1>2, <2>1 DEF TracedIn
<1>5. Traced(u, W, Replaced, now)
    <2>1. Stays(u)
        BY OwnKeyType DEF Tracked
    <2> QED BY <1>1, <2>1 DEF Stays, TracedIn
<1>6. (v # None => Tells(b, v, time)) /\ (Level(a) => Speaks(b, u, time))
    BY <1>1, BroughtSpeaks
<1> HIDE DEF b, c, time, u, v, W
<1>7. v # None => Carries(c, v, now)
    <2>1. v # None => Tells(c, v, time)
        BY <1>3, <1>6, TellsOn
    <2>2. v # None => v.ids \subseteq Standing
        BY <1>1 DEF Update
    <2> QED BY <1>1, <2>1, <2>2, TellsCarries
<1>8. ASSUME Level(a) PROVE Carried(u, c)
    <2>1. Speaks(c, u, time)
        BY <1>3, <1>6, <1>8, SpeaksOn
    <2>2. u.ids \subseteq Standing /\ u.rows \in SUBSET Row /\ AllIds(u) \subseteq Standing
        BY <1>1 DEF Update, Row, AllIds
    <2>3. Carries(c, u, now)
        BY <1>1, <2>1, <2>2, TellsCarries DEF Speaks
    <2>4. \A i \in InForce(AllIds(u), now) : i \in Standing => i \in AllIds(c) \/ i.key \in c.keys
        BY <1>1, <1>4, <1>5, <2>1, <2>2, SpeaksTraced
    <2> QED BY <2>2, <2>3, <2>4 DEF Carried, Known, AllIds, InForce
<1> QED BY <1>2, <1>7, <1>8 DEF u, v

LEMMA CutHoldsNext == ASSUME IInv, Timely, Tracked, ListsSpoken, CutHolds, Next PROVE CutHolds'
<1> DEFINE P(a) == /\ Level(a)' => Carried(devices[Runs[a]], cut[a])'
                   /\ conflict'[Runs[a]] # None => Carries(cut'[a], conflict'[Runs[a]], now')
<1>1. TypeOK /\ Lists /\ Locked /\ now \in Nat /\ now' \in Nat /\ now <= now'
    <2>1. TypeOK /\ now \in Nat /\ MaxTime \in Nat
        BY ActAssumption DEF IInv, TypeOK
    <2>2. now' = now \/ now' = now + 1
        BY <2>1, NextSteps, Hears, Frame DEF Tick
    <2> QED BY <2>1, <2>2 DEF IInv
<1>2. ASSUME NEW a \in Act, at[a] = "folding", UNCHANGED <<devices[Runs[a]], conflict[Runs[a]], list[a], held[a],
             fork[a], cut[a]>>
      PROVE  P(a)
    <2> DEFINE u == devices[Runs[a]]
               v == conflict[Runs[a]]
               c == cut[a]
    <2>1. (Level(a) => Carried(u, c)) /\ (v # None => Carries(c, v, now))
        BY <1>2 DEF CutHolds
    <2>2. Level(a)' => Level(a)
        BY <1>2 DEF Level, Number
    <2>3. u \in Update /\ (v = None \/ v \in Update)
        BY <1>1, ActFacts, HomeFacts DEF IsList
    <2>4. ASSUME NEW w \in Update PROVE Owed(w, now') \subseteq Owed(w, now)
        BY <1>1 DEF Owed, InForce, Update, Standing
    <2>5. InForce(Known(u), now') \subseteq InForce(Known(u), now)
        <3>1. Known(u) \subseteq Standing
            BY <2>3 DEF Known, Update, Row
        <3> QED BY <1>1, <3>1 DEF InForce, Standing
    <2>6. Level(a)' => Carried(u, c) /\ Carries(c, u, now') /\ \A i \in InForce(Known(u), now') :
                                                                 i \in Known(c) \/ i.key \in c.keys
        <3> HIDE DEF u, c
        <3> QED BY <2>1, <2>2, <2>3, <2>4, <2>5 DEF Carried, Carries
    <2>7. v # None => Carries(c, v, now')
        <3> HIDE DEF v, c
        <3> QED BY <2>1, <2>3, <2>4 DEF Carries
    <2> QED BY <1>2, <2>6, <2>7 DEF Carried, Known
<1>3. ASSUME NEW h \in Home, NEW g \in Home, Hear(h, g) \/ HearFork(h, g), NEW a \in Act, at'[a] = "folding"
      PROVE  P(a)
    <2>1. /\ lock[h] = None /\ UNCHANGED <<at, cut, list, held, fork>>
          /\ \A x \in Home \ {h} : devices'[x] = devices[x] /\ conflict'[x] = conflict[x]
        BY <1>1, <1>3, Hears DEF reads
    <2>2. Runs[a] # h /\ at[a] = "folding"
        BY <1>3, <1>1, <2>1, OwnKeyType DEF Locked
    <2> QED BY <1>2, <2>1, <2>2, OwnKeyType
<1>4. ASSUME Tick, NEW a \in Act, at'[a] = "folding" PROVE P(a)
    BY <1>2, <1>4, Ticks DEF homes, reads
<1>5. ASSUME NEW b \in Act, Acts(b), NEW a \in Act, at'[a] = "folding" PROVE P(a)
    <2>1. CASE a # b
        <3>1. at[a] = "folding" /\ UNCHANGED <<list[a], held[a], fork[a], cut[a]>>
            BY <1>1, <1>5, <2>1, Apart DEF Still
        <3> QED BY <1>2, <1>5, <2>1, <3>1, Undisturbed
    <2>2. CASE a = b
        <3>1. Commit(a) /\ Cutting(a)
            BY <1>1, <1>5, <2>2, Moves
        <3>2. UNCHANGED <<devices, conflict, now, list, held, fork>>
            BY <3>1 DEF Commit, homes, reads
        <3>3. /\ Level(a) => Carried(devices[Runs[a]], cut'[a])
              /\ conflict[Runs[a]] # None => Carries(cut'[a], conflict[Runs[a]], now)
            BY <3>1, CommitHolds
        <3>4. Level(a)' <=> Level(a)
            BY <3>2 DEF Level, Number
        <3> QED BY <3>2, <3>3, <3>4 DEF Carried, Known
    <2> QED BY <2>1, <2>2
<1>6. \A a \in Act : at'[a] = "folding" => P(a)
    BY <1>3, <1>4, <1>5, NextSteps
<1> QED BY <1>6 DEF CutHolds

CInv == IInv /\ MadeLate /\ Timely /\ MarkedGone /\ Tracked /\ ListsSpoken /\ CutHolds

LEMMA InitCarries == Init => CInv
<1> SUFFICES ASSUME Init PROVE CInv
    OBVIOUS
<1>1. IInv
    BY InitInv
<1>2. MadeLate /\ MarkedGone /\ ListsSpoken /\ CutHolds
    BY DEF Init, MadeLate, MarkedGone, Marks, Nodes, BookOf, ListsSpoken, Reads, CutHolds
<1>3. Timely
    BY DEF Init, Timely
<1>4. Stays(Start) /\ Stays(None)
    <2>1. \A k \in Key : Replaced[k] = {}
        BY DEF Init, Replaced
    <2>2. Nodes(Start.rows) \cup Start.keys \subseteq Key
        BY ActAssumption DEF Update, Nodes, Row
    <2>3. \A k \in Nodes(Start.rows) \cup Start.keys : Replaced[k] = {}
        BY <2>1, <2>2
    <2> QED BY <2>3 DEF Stays, TracedIn, Traced, AllIds, InForce, Nodes
<1>5. Tracked
    BY <1>4 DEF Init, Tracked, Reads
<1> QED BY <1>1, <1>2, <1>3, <1>5 DEF CInv

LEMMA NextCarries == ASSUME CInv, [Next]_vars PROVE CInv'
<1>1. CASE Next
    <2>1. IInv'
        BY <1>1, NextInv DEF CInv
    <2> QED BY <1>1, <2>1, MadeLateNext, TimelyNext, MarkedGoneNext, TrackedNext, ListsSpokenNext, CutHoldsNext
            DEF CInv
<1>2. CASE UNCHANGED vars
    <2> USE <1>2 DEF vars, homes, wanted, reads, signs, CInv
    <2>1. IInv'
        BY NextInv
    <2>2. MadeLate' /\ Timely' /\ MarkedGone'
        BY DEF MadeLate, Timely, MarkedGone, Marks, Nodes
    <2>3. Replaced' = Replaced
        BY ReplacedStill
    <2>4. Tracked'
        BY <2>3 DEF Tracked, Stays, TracedIn, Traced, AllIds, InForce
    <2>5. ListsSpoken'
        BY DEF ListsSpoken, Speaks, Tells, InForce, AllIds, Number
    <2>6. CutHolds'
        BY DEF CutHolds, Level, Number, Carried, Carries, Owed, Known, InForce
    <2> QED BY <2>1, <2>2, <2>4, <2>5, <2>6
<1> QED BY <1>1, <1>2

\* Whatever is folded while an act waits at its prompt or after, the list it cuts has all the revocations of the fork
\* that its home keeps; and all the revocations and the devices of the update held there, if that update is numbered
\* past the list beside the key and past the fork the act was given, or is the one it was given.
THEOREM CutKeepsWhatIsHeld == Spec => []CutHolds
<1>1. CInv => CutHolds
    BY DEF CInv
<1> QED BY <1>1, InitCarries, NextCarries, PTL DEF Spec

\* A copy of the root is used on one machine.
CopiesStay == \A a, b \in Act : From[a] = From[b] /\ From[a] \in Dir => Runs[a] = Runs[b]

\* No home keeps a fork numbered past its update.
NoneAhead == \A h \in Home : conflict[h] # None => conflict[h].number <= devices[h].number

\* The list u is what the home holds, or the home is past it, or about to hold it.
LevelOf(u, h) ==
    \/ u = devices[h] \/ Number(u) < devices[h].number
    \/ \E b \in Act : at[b] = "folding" /\ Runs[b] = h /\ cut[b] = u

CopyLevel == \A a \in Act : From[a] \in Dir => LevelOf(copy[From[a]], Runs[a])
ListLevel == \A a \in Act : at[a] \in Reads => LevelOf(list[a], Runs[a])

\* The home of an act that cut is past the list beside its key.
CutLevel ==
    \A a \in Act : at[a] = "folding" => list[a] = devices[Runs[a]] \/ Number(list[a]) < devices[Runs[a]].number

\* The home of an act is past what it held at the prompt, or holds it, and that was no lower than the fork kept there.
ForkLevel ==
    \A a \in Act : at[a] \in {"unlocked", "signed", "folding"} =>
        /\ fork[a] = None \/ Number(fork[a]) <= Number(held[a])
        /\ held[a] = devices[Runs[a]] \/ Number(held[a]) < devices[Runs[a]].number

Levels == stops = 0 => CopyLevel /\ ListLevel /\ CutLevel /\ ForkLevel

LEMMA StopsOn ==
    ASSUME IInv, Next, stops' = 0
    PROVE  stops = 0 /\ \A a \in Act : ~ Stop(a)
<1>1. stops \in Nat
    BY ActAssumption DEF IInv, TypeOK
<1>2. ASSUME NEW a \in Act, Stop(a) PROVE FALSE
    BY <1>1, <1>2 DEF Stop
<1>3. stops' = stops
    BY <1>2, NextSteps, Hears, Ticks, Frame DEF IInv
<1> QED BY <1>2, <1>3

\* LevelOf, after the step.
LevelNext(u, h) ==
    \/ u = devices'[h] \/ Number(u) < devices'[h].number
    \/ \E b \in Act : at'[b] = "folding" /\ Runs[b] = h /\ cut'[b] = u

\* An act that folds its cut has its home hold it, unless it stops.
LEMMA LevelOn ==
    ASSUME IInv, Next, stops' = 0, NEW u, IsList(u), NEW h \in Home, LevelOf(u, h)
    PROVE  LevelNext(u, h)
<1>1. TypeOK /\ Lists /\ Locked /\ TypeOK'
    BY TypeNext DEF IInv
<1>2. /\ Number(u) \in Nat /\ devices[h].number \in Nat /\ devices'[h].number \in Nat
      /\ devices[h] # None /\ Number(devices[h]) = devices[h].number
    <2>1. devices'[h] \in Update
        BY <1>1 DEF TypeOK
    <2> QED BY <1>1, <2>1, HomeFacts DEF Number, Update, IsList
<1>3. devices'[h] = devices[h] \/ devices'[h].number > devices[h].number
    BY HomeAdvances
<1>4. CASE u = devices[h] \/ Number(u) < devices[h].number
    BY <1>2, <1>3, <1>4 DEF LevelOf, LevelNext
<1>5. ASSUME NEW b \in Act, at[b] = "folding", Runs[b] = h, cut[b] = u
      PROVE  LevelNext(u, h)
    <2>1. CASE at'[b] = "folding" /\ cut'[b] = cut[b]
        BY <1>5, <2>1 DEF LevelNext
    <2>2. CASE FoldCut(b)
        <3>1. devices'[h] = cut[b]
            <4>1. IsNewer(h, cut[b])
                BY <1>5 DEF IInv, CutIsNewest
            <4> QED BY <1>1, <1>5, <2>2, <4>1 DEF FoldCut, HoldNewer, TypeOK
        <3> QED BY <1>5, <3>1 DEF LevelNext
    <2>3. ASSUME NEW a \in Act, Acts(a) PROVE FoldCut(b) \/ (at'[b] = "folding" /\ cut'[b] = cut[b])
        <3>1. CASE a # b
            BY <1>1, <1>5, <2>3, <3>1, Apart DEF Still
        <3>2. CASE a = b
            BY <1>1, <1>5, <2>3, <3>2, Moves, StopsOn
        <3> QED BY <3>1, <3>2
    <2>4. FoldCut(b) \/ (at'[b] = "folding" /\ cut'[b] = cut[b])
        BY <1>1, <1>5, <2>3, NextSteps, Hears, Ticks
    <2> QED BY <2>1, <2>2, <2>4
<1> QED BY <1>4, <1>5 DEF LevelOf

\* Nobody folds on a home whose lock is free.
LEMMA LevelFree ==
    ASSUME IInv, NEW a \in Act, lock[Runs[a]] = None, NEW u, LevelOf(u, Runs[a])
    PROVE  u = devices[Runs[a]] \/ Number(u) < devices[Runs[a]].number
<1>1. \A b \in Act : ~ (at[b] = "folding" /\ Runs[b] = Runs[a])
    BY OwnKeyType DEF IInv, Locked
<1> QED BY <1>1 DEF LevelOf

LEMMA CopyLevelNext == ASSUME CopiesStay, IInv, Next, stops' = 0, CopyLevel PROVE CopyLevel'
<1>1. TypeOK /\ Lists
    BY DEF IInv
<1>2. ASSUME NEW a \in Act, From[a] \in Dir, copy'[From[a]] = copy[From[a]] PROVE LevelNext(copy'[From[a]], Runs[a])
    BY <1>1, <1>2, OwnKeyType, LevelOn DEF Lists, CopyLevel
<1>3. ASSUME NEW b \in Act, Commit(b), NEW a \in Act, From[a] \in Dir, copy'[From[a]] # copy[From[a]]
      PROVE  LevelNext(copy'[From[a]], Runs[a])
    <2>1. From[b] = From[a] /\ copy'[From[a]] = cut'[b]
        BY <1>1, <1>3 DEF Commit, WriteCopy, TypeOK
    <2>2. Runs[b] = Runs[a]
        BY <1>3, <2>1 DEF CopiesStay
    <2>3. CASE Cutting(b)
        BY <1>1, <1>3, <2>1, <2>2, <2>3, Moves DEF LevelNext
    <2>4. CASE ~ Cutting(b)
        <3>1. cut'[b] = devices[Runs[b]] /\ devices' = devices
            BY <1>1, <1>3, <2>4 DEF Commit, homes, TypeOK
        <3> QED BY <2>1, <2>2, <3>1 DEF LevelNext
    <2> QED BY <2>3, <2>4
<1>4. copy' = copy \/ \E b \in Act : Commit(b)
    BY <1>1, NextSteps, Hears, Ticks, Frame
<1>5. ASSUME NEW a \in Act, From[a] \in Dir PROVE LevelNext(copy'[From[a]], Runs[a])
    BY <1>2, <1>3, <1>4, <1>5
<1> QED BY <1>5 DEF CopyLevel, LevelOf, LevelNext, Number

LEMMA ListLevelNext == ASSUME IInv, Next, stops' = 0, CopyLevel, ListLevel PROVE ListLevel'
<1>1. TypeOK /\ Lists
    BY DEF IInv
<1>2. ASSUME NEW a \in Act, at[a] \in Reads, list'[a] = list[a] PROVE LevelNext(list'[a], Runs[a])
    BY <1>1, <1>2, OwnKeyType, LevelOn DEF Lists, ListLevel
<1>3. ASSUME NEW a \in Act, Presents(a) PROVE LevelNext(list'[a], Runs[a])
    <2>1. list'[a] = Beside(a) /\ IsList(Beside(a)) /\ Runs[a] \in Home
        BY <1>1, <1>3, PresentSets, ActFacts
    <2>2. LevelOf(Beside(a), Runs[a])
        <3>1. From[a] \in Dir => LevelOf(copy[From[a]], Runs[a])
            BY DEF CopyLevel
        <3>2. LevelOf(devices[Runs[a]], Runs[a])
            BY DEF LevelOf
        <3> QED BY <3>1, <3>2 DEF Beside
    <2> HIDE DEF Beside
    <2> QED BY <2>1, <2>2, LevelOn
<1>4. ASSUME NEW b \in Act, Acts(b), NEW a \in Act, at'[a] \in Reads PROVE LevelNext(list'[a], Runs[a])
    <2>1. CASE a # b
        BY <1>1, <1>2, <1>4, <2>1, Apart DEF Still
    <2>2. CASE a = b
        <3>1. Presents(a) \/ (at[a] \in Reads /\ list'[a] = list[a])
            BY <1>1, <1>4, <2>2, Moves, Frame DEF Reads
        <3> QED BY <1>2, <1>3, <3>1
    <2> QED BY <2>1, <2>2
<1>5. ASSUME UNCHANGED <<at, list>>, NEW a \in Act, at'[a] \in Reads PROVE LevelNext(list'[a], Runs[a])
    BY <1>2, <1>5
<1>6. ASSUME NEW a \in Act, at'[a] \in Reads PROVE LevelNext(list'[a], Runs[a])
    BY <1>1, <1>4, <1>5, <1>6, NextSteps, Hears, Ticks DEF reads
<1> QED BY <1>6 DEF ListLevel, LevelOf, LevelNext, Number, Reads

LEMMA CutLevelNext == ASSUME IInv, Next, stops' = 0, ListLevel, CutLevel PROVE CutLevel'
<1>1. TypeOK /\ Lists /\ TypeOK'
    BY TypeNext DEF IInv
<1> DEFINE P(a) == list'[a] = devices'[Runs[a]] \/ Number(list'[a]) < devices'[Runs[a]].number
<1>2. ASSUME NEW a \in Act, list'[a] = list[a], list[a] = devices[Runs[a]] \/ Number(list[a]) < devices[Runs[a]].number
      PROVE  P(a)
    <2> DEFINE h == Runs[a]
    <2>1. devices'[h] = devices[h] \/ devices'[h].number > devices[h].number
        BY OwnKeyType, HomeAdvances
    <2>2. /\ Number(list[a]) \in Nat /\ devices[h].number \in Nat /\ devices'[h].number \in Nat
          /\ Number(devices[h]) = devices[h].number
        <3>1. IsList(list[a]) /\ devices'[h] \in Update /\ h \in Home
            BY <1>1, OwnKeyType DEF Lists, TypeOK
        <3> QED BY <1>1, <3>1, HomeFacts DEF IsList, Number, Update
    <2> QED BY <1>2, <2>1, <2>2
<1>3. ASSUME NEW b \in Act, Acts(b), NEW a \in Act, at'[a] = "folding" PROVE P(a)
    <2>1. CASE a # b
        BY <1>1, <1>2, <1>3, <2>1, Apart DEF Still, CutLevel
    <2>2. CASE a = b
        <3>1. Commit(a) /\ lock[Runs[a]] = None /\ at[a] = "signed" /\ list'[a] = list[a]
            BY <1>1, <1>3, <2>2, Moves DEF Commit, reads
        <3>2. list[a] = devices[Runs[a]] \/ Number(list[a]) < devices[Runs[a]].number
            BY <3>1, LevelFree DEF ListLevel, Reads
        <3> QED BY <1>2, <3>1, <3>2
    <2> QED BY <2>1, <2>2
<1>4. ASSUME UNCHANGED <<at, list>>, NEW a \in Act, at'[a] = "folding" PROVE P(a)
    BY <1>2, <1>4 DEF CutLevel
<1>5. ASSUME NEW a \in Act, at'[a] = "folding" PROVE P(a)
    BY <1>1, <1>3, <1>4, <1>5, NextSteps, Hears, Ticks DEF reads
<1> QED BY <1>5 DEF CutLevel, Number

LEMMA ForkLevelNext == ASSUME IInv, NoneAhead, Next, ForkLevel PROVE ForkLevel'
<1>1. TypeOK /\ Lists /\ TypeOK'
    BY TypeNext DEF IInv
<1> DEFINE P(a) == /\ fork'[a] = None \/ Number(fork'[a]) <= Number(held'[a])
                   /\ held'[a] = devices'[Runs[a]] \/ Number(held'[a]) < devices'[Runs[a]].number
           After == {"unlocked", "signed", "folding"}
<1>2. ASSUME NEW a \in Act, at[a] \in After, held'[a] = held[a], fork'[a] = fork[a] PROVE P(a)
    <2> DEFINE h == Runs[a]
    <2>1. devices'[h] = devices[h] \/ devices'[h].number > devices[h].number
        BY OwnKeyType, HomeAdvances
    <2>2. /\ Number(held[a]) \in Nat /\ devices[h].number \in Nat /\ devices'[h].number \in Nat
          /\ Number(devices[h]) = devices[h].number
        <3>1. IsList(held[a]) /\ devices'[h] \in Update /\ h \in Home
            BY <1>1, OwnKeyType DEF Lists, TypeOK
        <3> QED BY <1>1, <3>1, HomeFacts DEF IsList, Number, Update
    <2>3. /\ fork[a] = None \/ Number(fork[a]) <= Number(held[a])
          /\ held[a] = devices[h] \/ Number(held[a]) < devices[h].number
        BY <1>2 DEF ForkLevel
    <2> QED BY <1>2, <2>1, <2>2, <2>3
<1>3. ASSUME NEW b \in Act, Acts(b), NEW a \in Act, at'[a] \in After PROVE P(a)
    <2>1. CASE a # b
        BY <1>1, <1>2, <1>3, <2>1, Apart DEF Still
    <2>2. CASE a = b /\ Unlock(a)
        <3>1. held'[a] = devices[Runs[a]] /\ fork'[a] = conflict[Runs[a]] /\ devices' = devices
            BY <1>1, <2>2, UnlockSets DEF Unlock, homes
        <3>2. conflict[Runs[a]] = None \/ Number(conflict[Runs[a]]) <= Number(devices[Runs[a]])
            BY <1>1, OwnKeyType, HomeFacts DEF NoneAhead, Number
        <3> QED BY <3>1, <3>2
    <2>3. CASE a = b /\ ~ Unlock(a)
        <3>1. held' = held /\ fork' = fork
            BY <1>3, <2>3, Frame
        <3>2. at[a] \in After
            BY <1>1, <1>3, <2>3, Moves
        <3> QED BY <1>2, <3>1, <3>2
    <2> QED BY <2>1, <2>2, <2>3
<1>4. ASSUME UNCHANGED <<at, held, fork>>, NEW a \in Act, at'[a] \in After PROVE P(a)
    BY <1>2, <1>4
<1>5. ASSUME NEW a \in Act, at'[a] \in After PROVE P(a)
    BY <1>1, <1>3, <1>4, <1>5, NextSteps, Hears, Ticks DEF reads
<1> QED BY <1>5 DEF ForkLevel, Number

LEMMA LevelsNext == ASSUME CopiesStay, IInv, NoneAhead, Levels, [Next]_vars PROVE Levels'
<1>1. CASE Next
    <2>1. ASSUME stops' = 0 PROVE CopyLevel' /\ ListLevel' /\ CutLevel' /\ ForkLevel'
        <3>1. CopyLevel /\ ListLevel /\ CutLevel /\ ForkLevel
            BY <1>1, <2>1, StopsOn DEF Levels
        <3> QED BY <1>1, <2>1, <3>1, CopyLevelNext, ListLevelNext, CutLevelNext, ForkLevelNext
    <2> QED BY <2>1 DEF Levels
<1>2. CASE UNCHANGED vars
    <2> USE <1>2 DEF vars, homes, reads, signs, LevelOf, Number
    <2>1. (CopyLevel => CopyLevel') /\ (ListLevel => ListLevel')
        BY DEF CopyLevel, ListLevel, Reads
    <2>2. (CutLevel => CutLevel') /\ (ForkLevel => ForkLevel')
        BY DEF CutLevel, ForkLevel
    <2> QED BY <2>1, <2>2 DEF Levels
<1> QED BY <1>1, <1>2

LEMMA InitLevels == Init => Levels
BY ActAssumption DEF Init, Levels, CopyLevel, ListLevel, CutLevel, ForkLevel, LevelOf, Reads

LEMMA LevelCarries == ASSUME IInv, CutHolds, Levels PROVE CutCarries
<1> SUFFICES ASSUME stops = 0, NEW a \in Act, at[a] = "folding"
             PROVE  /\ Carried(devices[Runs[a]], cut[a])
                    /\ conflict[Runs[a]] # None => Carries(cut[a], conflict[Runs[a]], now)
    BY DEF CutCarries
<1> DEFINE u == devices[Runs[a]]
<1>1. /\ fork[a] = None \/ Number(fork[a]) <= Number(held[a])
      /\ held[a] = u \/ Number(held[a]) < u.number
      /\ list[a] = u \/ Number(list[a]) < u.number
    BY DEF Levels, ForkLevel, CutLevel
<1>2. Number(fork[a]) \in Nat /\ Number(held[a]) \in Nat /\ u.number \in Nat
    BY OwnKeyType, HomeFacts DEF IInv, Lists, IsList, Update, Number
<1>3. Level(a)
    BY <1>1, <1>2 DEF Level
<1> QED BY <1>3 DEF CutHolds

\* No act undoes what its home holds, unless one stopped between the copy's list and the fold before: where a copy of
\* the root stays on one machine and no home keeps a fork numbered past its update, every cut carries the update held
\* by then and the revocations of the fork (commit_to and Book::forward, root.rs).
THEOREM CutsCarry == ASSUME CopiesStay PROVE Spec /\ []NoneAhead => []CutCarries
<1>1. CInv => IInv /\ CutHolds
    BY DEF CInv
<1>2. Spec => []CInv
    BY InitCarries, NextCarries, PTL DEF Spec
<1>3. IInv /\ NoneAhead /\ Levels /\ [Next]_vars => Levels'
    BY LevelsNext
<1>4. IInv /\ CutHolds /\ Levels => CutCarries
    BY LevelCarries
<1> QED BY <1>1, <1>2, <1>3, <1>4, InitLevels, PTL DEF Spec

\* A revoke that committed was past the lists it was given.
RevokePast == stops = 0 => \A a \in Act : Committed(a) /\ ask[a].verb = "revoke" => Past(a)

LEMMA RevokePastNext == ASSUME IInv, Levels, RevokePast, Next PROVE RevokePast'
<1>1. TypeOK /\ Lists /\ Locked /\ Aims
    BY DEF IInv
<1>2. ASSUME stops' = 0, UNCHANGED <<at, ask, cut, list, held, fork>> PROVE RevokePast'
    BY <1>2, StopsOn DEF RevokePast, Committed, Past, Number
<1>3. ASSUME stops' = 0, NEW a \in Act, Acts(a), NEW b \in Act,
             at'[b] \in {"folding", "done"}, cut'[b] # None, ask'[b].verb = "revoke"
      PROVE  /\ list'[b] = cut'[b] \/ Number(list'[b]) < cut'[b].number
             /\ fork'[b] = None \/ held'[b] = cut'[b] \/ Number(fork'[b]) < cut'[b].number
    <2>1. RevokePast /\ stops = 0 /\ ListLevel /\ ForkLevel
        BY <1>3, StopsOn DEF Levels
    <2>2. CASE b # a
        BY <1>1, <1>3, <2>1, <2>2, Apart DEF Still, RevokePast, Committed, Past
    <2>3. CASE b = a /\ Commit(a)
        <3> DEFINE u == devices[Runs[a]]
        <3>1. at[a] = "signed" /\ lock[Runs[a]] = None /\ list' = list /\ held' = held /\ fork' = fork
            BY <2>3 DEF Commit, reads
        <3>2. list[a] = u \/ Number(list[a]) < u.number
            BY <2>1, <3>1, LevelFree DEF ListLevel, Reads
        <3>3. /\ fork[a] = None \/ Number(fork[a]) <= Number(held[a])
              /\ held[a] = u \/ Number(held[a]) < u.number
            BY <2>1, <3>1 DEF ForkLevel
        <3>4. /\ Number(list[a]) \in Nat /\ Number(held[a]) \in Nat /\ Number(fork[a]) \in Nat
              /\ u.number \in Nat /\ Number(u) = u.number /\ cut'[a].number \in Nat
            <4>1. cut'[a] \in Update
                BY <2>3, Commits
            <4> QED BY <1>1, <4>1, OwnKeyType, HomeFacts DEF Lists, IsList, Update, Number
        <3>5. cut'[a] = u \/ cut'[a].number > u.number
            BY <1>1, <2>3, Commits DEF Commit, TypeOK
        <3> HIDE DEF u
        <3> QED BY <2>3, <3>1, <3>2, <3>3, <3>4, <3>5
    <2>4. CASE b = a /\ Prints(a)
        BY <1>1, <1>3, <2>4 DEF Prints, Unchanged, TypeOK
    <2>5. CASE b = a /\ FoldCut(a)
        <3>1. at[a] = "folding" /\ UNCHANGED <<ask, cut, list, held, fork>>
            BY <2>5 DEF FoldCut, wanted, reads
        <3> QED BY <1>3, <2>1, <2>5, <3>1 DEF RevokePast, Committed, Past
    <2>6. CASE b = a /\ Block(a)
        BY <1>1, <1>3, <2>6 DEF Block, Locked, Unsigned
    <2> QED BY <1>1, <1>3, <2>2, <2>3, <2>4, <2>5, <2>6, Moves
<1>4. ASSUME NEW a \in Act, Acts(a) PROVE RevokePast'
    BY <1>3, <1>4 DEF RevokePast, Committed, Past, Number
<1>5. stops' # 0 => RevokePast'
    BY DEF RevokePast
<1> QED BY <1>1, <1>2, <1>4, <1>5, NextSteps, Hears, Ticks DEF wanted, reads

\* A revoke that committed ends the device for good (RevokedForGood), up to the first act that stops, where a copy of the
\* root stays on one machine and no home keeps a fork numbered past its update (revoke_device and again, root.rs).
THEOREM RevokesForGood == ASSUME CopiesStay PROVE Spec /\ []NoneAhead => [](stops = 0 => RevokedForGood)
<1>1. IInv /\ NoneAhead /\ Levels /\ [Next]_vars => Levels'
    BY LevelsNext
<1>2. Init => RevokePast
    BY DEF Init, RevokePast, Committed
<1>3. IInv /\ Levels /\ RevokePast /\ [Next]_vars => RevokePast'
    <2>1. ASSUME UNCHANGED vars, RevokePast PROVE RevokePast'
        BY <2>1 DEF vars, wanted, reads, RevokePast, Committed, Past, Number
    <2> QED BY <2>1, RevokePastNext
<1>4. IInv /\ RevokePast => (stops = 0 => RevokedForGood)
    BY DEF IInv, KeyRevoked, NameGone, RevokePast, RevokedForGood
<1> QED BY <1>1, <1>2, <1>3, <1>4, InitLevels, Invariance, PTL DEF Spec

\* A fork kept anywhere is numbered no higher than what any home holds.
ForkBehind == \A h, g \in Home : conflict[h] # None => conflict[h].number <= devices[g].number

LEMMA ForkBehindNext ==
    ASSUME NEW x, NEW y, Home \subseteq {x, y}, IInv, ForkBehind, Next
    PROVE  ForkBehind'
<1>1. TypeOK /\ TypeOK' /\ Locked /\ Lists
    BY TypeNext DEF IInv
<1>2. ASSUME NEW h \in Home, NEW v, v = conflict'[h], v # None, v.number \in Nat,
             \A g \in Home : v.number <= devices[g].number
      PROVE  \A g \in Home : v.number <= devices'[g].number
    <2>1. ASSUME NEW g \in Home
          PROVE  /\ devices[g].number \in Nat /\ devices'[g].number \in Nat
                 /\ devices'[g] = devices[g] \/ devices'[g].number > devices[g].number
        <3>1. devices[g] \in Update /\ devices'[g] \in Update
            BY <1>1 DEF TypeOK
        <3> QED BY <3>1, HomeAdvances DEF Update
    <2> QED BY <1>2, <2>1
<1>3. ASSUME NEW h \in Home, conflict'[h] # None
      PROVE  conflict'[h].number \in Nat /\ \A g \in Home : conflict'[h].number <= devices[g].number
    <2>1. conflict'[h].number \in Nat
        <3>1. conflict'[h] \in Update
            BY <1>1, <1>3 DEF TypeOK
        <3> QED BY <3>1 DEF Update
    <2>2. CASE \E g \in Home : conflict'[h] = conflict[g]
        BY <1>3, <2>1, <2>2 DEF ForkBehind
    <2>3. ASSUME NEW g \in Home, conflict'[h] = devices[g], devices[g].number = devices[h].number, g # h
          PROVE  \A z \in Home : conflict'[h].number <= devices[z].number
        <3>1. \A z \in Home : z = g \/ z = h
            BY <2>3
        <3>2. devices[g].number \in Nat
            BY <2>1, <2>3
        <3> QED BY <2>3, <3>1, <3>2
    <2>4. ASSUME NEW z \in Home, NEW g \in Home, Hear(z, g) \/ HearFork(z, g)
          PROVE  \/ \E w \in Home : conflict'[h] = conflict[w]
                 \/ conflict'[h] = devices[g] /\ devices[g].number = devices[h].number /\ g # h
        BY <1>1, <1>3, <2>4 DEF Hear, HearFork, HoldNewer, KeepFork, TypeOK
    <2>5. ASSUME NEW a \in Act, Acts(a) PROVE conflict'[h] = conflict[h]
        BY <1>1, <1>3, <2>5, Folds, Frame, OwnKeyType
    <2>6. Tick => conflict' = conflict
        BY DEF Tick, homes
    <2> QED BY <2>1, <2>2, <2>3, <2>4, <2>5, <2>6, NextSteps
<1> QED BY <1>2, <1>3 DEF ForkBehind

\* Two machines keep no fork past what they hold, so between two every cut carries what its home holds and every revoke
\* is for good, if no copy of the root is used on both and no act stopped between the copy's list and its fold.
THEOREM TwoMachinesCarry ==
    ASSUME CopiesStay, NEW x, NEW y, Home \subseteq {x, y}
    PROVE  Spec => [](CutCarries /\ (stops = 0 => RevokedForGood))
<1>1. Init => ForkBehind
    BY DEF Init, ForkBehind
<1>2. IInv /\ ForkBehind /\ [Next]_vars => ForkBehind'
    <2>1. ASSUME UNCHANGED vars, ForkBehind PROVE ForkBehind'
        BY <2>1 DEF vars, homes, ForkBehind
    <2> QED BY <2>1, ForkBehindNext
<1>3. ForkBehind => NoneAhead
    BY DEF ForkBehind, NoneAhead
<1>4. Spec /\ []NoneAhead => []CutCarries
    BY CutsCarry
<1>5. Spec /\ []NoneAhead => [](stops = 0 => RevokedForGood)
    BY RevokesForGood
<1> QED BY <1>1, <1>2, <1>3, <1>4, <1>5, Invariance, PTL DEF Spec
=============================================================================
