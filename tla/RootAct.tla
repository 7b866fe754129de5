------------------------------ MODULE RootAct ------------------------------
(***************************************************************************)
(* Root acts (Root and Act of src/root.rs, as swoosh invite and swoosh     *)
(* revoke run them): a person presents the root, kept in the home or a     *)
(* copy of it in a directory, adds, renews, rekeys or revokes one device,  *)
(* and commits the cut.                                                    *)
(*                                                                         *)
(* Nothing is locked while the act waits at its prompt: the lists of the   *)
(* home move under it, and a second act may run on the same home or the    *)
(* same copy.  A fold is one step here, as in Exchange.                    *)
(***************************************************************************)
EXTENDS Book

CONSTANTS
    Home,       \* machines, each with its home
    Own,        \* the key of each
    Dir,        \* directories that hold a copy of the root
    Act,        \* root acts, each run once
    Runs,       \* the home an act runs on
    From,       \* the directory an act is given with --root; None: the root kept in the home; NoRoot: neither
    NoRoot,
    Asks,       \* what the person may ask of each act
    Start,      \* the update every home and copy holds at first
    Day,        \* a standing renewed within a Day is not renewed again by name
    MaxTime,    \* bound: the last time the clock shows
    MaxStops    \* bound: how many acts stop partway

\* A new key is made here at random, so no two acts are given the same one, and nobody held it before.
Verb == {"add", "new key", "renew", "revoke"}
Ask == [verb : Verb, name : Name, key : Key]

ASSUME ActAssumption ==
    /\ Own \in [Home -> Key]
    /\ Runs \in [Act -> Home]
    /\ From \in [Act -> Dir \cup {None, NoRoot}] /\ {None, NoRoot} \cap Dir = {} /\ NoRoot # None
    /\ \A a, b \in Act : Runs[a] = Runs[b] => (From[a] = None <=> From[b] = None)
    /\ Asks \in [Act -> SUBSET Ask]
    /\ Act \subseteq Signer
    /\ Start \in Update /\ WellFormed(Start) /\ Start.number > 0
    /\ {Day, MaxTime, MaxStops} \subseteq Nat
    /\ \A r \in Start.rows : IsFiniteSet(r.ids)
    /\ \A a \in Act : \A i \in Start.ids \cup UNION {r.ids \cup {r.standing} : r \in Start.rows} : i.by # a

NewKey(a) == {want.key : want \in {w \in Asks[a] : w.verb = "new key"}}
ASSUME NewKeyAssumption ==
    \A a \in Act :
        /\ NewKey(a) \cap (Nodes(Start.rows) \cup Start.keys \cup {Own[h] : h \in Home}) = {}
        /\ \A b \in Act \ {a} : \A w \in Asks[b] : w.verb \in {"add", "new key"} => w.key \notin NewKey(a)

VARIABLES
    now,        \* the clock
    devices,    \* the update each home holds
    conflict,   \* the fork each home keeps, or None
    refused,    \* what each machine refuses
    copy,       \* the list beside the key of each copy
    lock,       \* the act that has home.lock across steps, or None
    stops,      \* how many acts stopped partway
    at,         \* where an act is
    ask,        \* what it was asked; of a revoke, with the key its name was resolved to
    seen,       \* a revoke: every key its name held live when it was resolved, and the key
    block,      \* a revoke: what it refuses on this machine before it presents the root
    began,      \* when the act read the list beside the key
    list,       \* that list
    book,       \* the act's records
    held,       \* the update they were last brought forward from
    fork,       \* the fork they were last brought forward from
    due,        \* the devices due to renew
    made,       \* the keys the act added, new keys it handed out included
    touched,    \* the keys it replaced or renewed
    given,      \* the standing it signed for the device asked for, or None
    cut         \* the update it commits: its own cut, or the one held when there was nothing to cut

homes  == <<devices, conflict, refused>>
wanted == <<ask, seen, block>>
reads  == <<began, list, held, fork>>
signs  == <<book, due, made, touched, given>>
vars   == <<now, homes, copy, lock, stops, at, wanted, reads, signs, cut>>

Places == {"idle", "found", "blocked", "prompt", "unlocked", "signed", "folding", "done", "refused", "stopped"}

NoAsk == [verb |-> "renew", name |-> CHOOSE n \in Name : TRUE, key |-> CHOOSE k \in Key : TRUE]

Init ==
    /\ now = 0
    /\ devices = [h \in Home |-> Start]
    /\ conflict = [h \in Home |-> None]
    /\ refused = [h \in Home |-> Owed(Start, 0) \ {Own[h]}]
    /\ copy = [d \in Dir |-> Start]
    /\ lock = [h \in Home |-> None]
    /\ stops = 0
    /\ at = [a \in Act |-> "idle"]
    /\ ask = [a \in Act |-> NoAsk]
    /\ seen = [a \in Act |-> {}]
    /\ block = [a \in Act |-> {}]
    /\ began = [a \in Act |-> 0]
    /\ list = [a \in Act |-> None]
    /\ book = [a \in Act |-> BookOf(None)]
    /\ held = [a \in Act |-> None]
    /\ fork = [a \in Act |-> None]
    /\ due = [a \in Act |-> {}]
    /\ made = [a \in Act |-> {}]
    /\ touched = [a \in Act |-> {}]
    /\ given = [a \in Act |-> None]
    /\ cut = [a \in Act |-> None]

Go(a, place) == at' = [at EXCEPT ![a] = place]

OwnKey(a) == Own[Runs[a]]

\* The list beside the key: the home's own devices, or the copy's.
Beside(a) == IF From[a] \in Dir THEN copy[From[a]] ELSE devices[Runs[a]]

\* The records b brought forward from what the act's home holds now.
Forwarded(a, b, time) ==
    Forward(b, devices[Runs[a]], conflict[Runs[a]], refused[Runs[a]], OwnKey(a), time)

-----------------------------------------------------------------------------
(* Folds (roster/fold.rs), each one step under home.lock. *)

Refuse(h, u) == refused' = [refused EXCEPT ![h] = @ \cup (Owed(u, now) \ {Own[h]})]

IsNewer(h, u) == u.number > devices[h].number

HoldNewer(h, u) ==
    /\ Refuse(h, u)
    /\ devices' = [devices EXCEPT ![h] = u]
    /\ conflict' = [conflict EXCEPT ![h] = IF @ # None /\ Carries(u, @, now) THEN None ELSE @]

KeepFork(h, u) ==
    /\ Refuse(h, u)
    /\ conflict' = [conflict EXCEPT ![h] = IF @ = None THEN u ELSE @]
    /\ UNCHANGED devices

\* Another machine's update reaches this home in an exchange.
Hear(h, g) ==
    LET u == devices[g]
    IN  /\ lock[h] = None
        /\ u # devices[h]
        /\ \/ IsNewer(h, u) /\ HoldNewer(h, u)
           \/ u.number = devices[h].number /\ KeepFork(h, u)
        /\ UNCHANGED <<now, copy, lock, stops, at, wanted, reads, signs, cut>>

\* So does the fork it keeps.
HearFork(h, g) ==
    LET u == conflict[g]
    IN  /\ lock[h] = None
        /\ u # None /\ u # devices[h] /\ ~ Carries(devices[h], u, now)
        /\ KeepFork(h, u)
        /\ UNCHANGED <<now, copy, lock, stops, at, wanted, reads, signs, cut>>

Tick ==
    /\ now < MaxTime
    /\ now' = now + 1
    /\ UNCHANGED <<homes, copy, lock, stops, at, wanted, reads, signs, cut>>

-----------------------------------------------------------------------------
(* Before the prompt. *)

\* Where a revoke finds the device: the records as the next act would bring them forward, or the update
\* alone on a device with no root to present.
Source(a) ==
    IF From[a] = NoRoot THEN BookOf(devices[Runs[a]]) ELSE Forwarded(a, BookOf(Beside(a)), now)

\* revoke me/<name>: a live device of the name before a marked one.
Resolve(a, want) ==
    LET found == Source(a)
        live == {r \in found.rows : r.label = want.name}
        marked == {r \in found.marked : r.label = want.name}
    IN  /\ at[a] = "idle"
        /\ want \in Asks[a] /\ want.verb = "revoke"
        /\ \E r \in IF live # {} THEN live ELSE marked :
              /\ r.node # OwnKey(a)
              /\ ask' = [ask EXCEPT ![a] = [want EXCEPT !.key = r.node]]
              /\ seen' = [seen EXCEPT ![a] = Nodes(live) \cup {r.node}]
              /\ block' = [block EXCEPT ![a] = InForce(r.ids, now) \cup {r.node}]
        /\ Go(a, "found")
        /\ UNCHANGED <<now, homes, copy, lock, stops, reads, signs, cut>>

\* It is blocked on this machine first, whatever becomes of the root's act; with no root, here alone.
Block(a) ==
    /\ at[a] = "found"
    /\ lock[Runs[a]] = None
    /\ refused' = [refused EXCEPT ![Runs[a]] = @ \cup block[a]]
    /\ Go(a, IF From[a] = NoRoot THEN "done" ELSE "blocked")
    /\ UNCHANGED <<now, devices, conflict, copy, lock, stops, wanted, reads, signs, cut>>

\* due: the last half of a standing that is no invite's, with room for another id.
Due(r, time) ==
    /\ ~ r.seeded
    /\ time < r.standing.ends /\ r.standing.ends - time < Term \div 2
    /\ Cardinality(InForce(r.ids, time)) < MaxIds

\* renewal_skips: of a row of the records b
Skips(b, r, time) ==
    LET newest == CHOOSE i \in r.ids : \A j \in r.ids : j.ends <= i.ends
        revoked == r.ids # {} /\ newest \in b.ids
        signed == IF r.ids = {} THEN 0 ELSE newest.ends - Term
    IN  \/ Cardinality(InForce(r.ids, time)) >= MaxIds
        \/ /\ ~ revoked /\ time < r.standing.ends
           /\ signed + Day > time \/ time + Term <= r.standing.ends

\* lacks_own, on the root kept here: the records b list this machine no more, and no list here revokes it.
LacksOwn(a, b, time) ==
    LET own == OwnKey(a)
    IN  /\ From[a] = None
        /\ own \notin b.keys
        /\ \A u \in {devices[Runs[a]], conflict[Runs[a]]} \ {None} : own \notin u.keys
        /\ ~ \E r \in b.rows : r.node = own /\ r.standing.ends > time

\* unchanged: the rows a renewal by name would leave as they are, when there is nothing else to sign.
Settled(a, want) ==
    LET beside == BookOf(Beside(a))
    IN  {r \in beside.rows :
            /\ r.label = want.name
            /\ want.verb = "add" => r.node = want.key
            /\ Skips(beside, r, now)
            /\ Forwarded(a, beside, now) = beside
            /\ ~ Lacks(beside, devices[Runs[a]], now)
            /\ ~ \E other \in beside.rows : Due(other, now)
            /\ ~ LacksOwn(a, beside, now)}

\* Such an invite takes no lock and asks nothing: it prints the standing the row has.
Unchanged(a, want) ==
    /\ at[a] = "idle"
    /\ want \in Asks[a] /\ want.verb \in {"add", "renew"}
    /\ \E r \in Settled(a, want) : given' = [given EXCEPT ![a] = r.standing]
    /\ ask' = [ask EXCEPT ![a] = want]
    /\ cut' = [cut EXCEPT ![a] = devices[Runs[a]]]
    /\ Go(a, "done")
    /\ UNCHANGED <<now, homes, copy, lock, stops, seen, block, reads, book, due, made, touched>>

\* present: the list beside the key is read, then the passphrase is asked for.
Present(a, want) ==
    /\ From[a] # NoRoot
    /\ \/ at[a] = "blocked" /\ want = ask[a]
       \/ /\ at[a] = "idle" /\ want \in Asks[a] /\ want.verb # "revoke"
          /\ want.verb = "new key" \/ Settled(a, want) = {}
    /\ ask' = [ask EXCEPT ![a] = want]
    /\ began' = [began EXCEPT ![a] = now]
    /\ list' = [list EXCEPT ![a] = Beside(a)]
    /\ book' = [book EXCEPT ![a] = BookOf(Beside(a))]
    /\ Go(a, "prompt")
    /\ UNCHANGED <<now, homes, copy, lock, stops, seen, block, held, fork, due, made, touched, given, cut>>

-----------------------------------------------------------------------------
(* What an act signs. *)

Signed(a, key) == [key |-> key, ends |-> began[a] + Term, by |-> a]

\* sign_standing: the row is added; this machine's own row moves off the name if it has it.
WithRow(a, b, key, name, seeded) ==
    LET i == Signed(a, key)
        OffIt(r) == IF r.label = name THEN [r EXCEPT !.label = FreshName(b.rows)] ELSE r
    IN  [b EXCEPT !.rows = {OffIt(r) : r \in @} \cup
                          {[node |-> key, label |-> name, standing |-> i, ids |-> {i}, seeded |-> seeded]}]

\* renew_row, of every row of keys.
WithRenewed(a, b, keys) ==
    LET Renewed(r) == [r EXCEPT !.standing = Signed(a, r.node),
                                !.ids = InForce(@, began[a]) \cup {Signed(a, r.node)}]
    IN  [b EXCEPT !.rows = {IF r.node \in keys THEN Renewed(r) ELSE r : r \in @}]

\* A mistake in Rekeyed: the old key's ids leave the row with it.
RekeyedAnew(a, b, name, key) ==
    LET r == RowNamed(b.rows, name)
    IN  [b EXCEPT !.rows = (@ \ {r}) \cup
                          {[r EXCEPT !.node = key, !.standing = Signed(a, key), !.ids = {Signed(a, key)}]}]

\* rekey: the row passes to the new key and keeps the ids of the old one.
Rekeyed(a, b, name, key) ==
    LET r == RowNamed(b.rows, name)
    IN  [b EXCEPT !.rows = (@ \ {r}) \cup
                          {[r EXCEPT !.node = key, !.standing = Signed(a, key),
                                     !.ids = InForce(@, began[a]) \cup {Signed(a, key)}]}]

\* carry_own: on the root kept here, this machine's own row is renewed if it lapsed and added if it is
\* gone, unless a list here revokes its key.
CarryOwn(a, b) ==
    LET own == OwnKey(a)
    IN  IF ~ LacksOwn(a, b, began[a]) THEN b
        ELSE IF own \in Nodes(b.rows) THEN WithRenewed(a, b, {own})
        ELSE WithRow(a, b, own, FreshName(b.rows), FALSE)

\* The prompt is answered: the records are brought forward from what is held by then.
Unlock(a) ==
    LET b == CarryOwn(a, Forwarded(a, book[a], began[a]))
    IN  /\ at[a] = "prompt"
        /\ book' = [book EXCEPT ![a] = b]
        /\ held' = [held EXCEPT ![a] = devices[Runs[a]]]
        /\ fork' = [fork EXCEPT ![a] = conflict[Runs[a]]]
        /\ due' = [due EXCEPT ![a] = Nodes({r \in b.rows : Due(r, began[a])})]
        /\ Go(a, "unlocked")
        /\ UNCHANGED <<now, homes, copy, lock, stops, wanted, began, list, made, touched, given, cut>>

\* check_add: the first list of all is the mint's, and lists this machine alone.
CanAdd(a, key, name) ==
    LET b == book[a]
    IN  /\ key \notin b.keys \cup Nodes(b.rows)
        /\ name \in Labels(b.rows) => RowNamed(b.rows, name).node = OwnKey(a) /\ b.number <= 1

\* check_rekey
CanRekey(a, name) ==
    /\ name \in Labels(book[a].rows)
    /\ RowNamed(book[a].rows, name).seeded
    /\ Cardinality(InForce(RowNamed(book[a].rows, name).ids, began[a])) < MaxIds

\* The act has signed: what is due is renewed too, unless it was renewed, revoked or replaced just now.
Sign(a, b, new, old, standing) ==
    LET late == (due[a] \ old) \cap Nodes(b.rows)
    IN  /\ book' = [book EXCEPT ![a] = WithRenewed(a, b, late)]
        /\ due' = [due EXCEPT ![a] = {}]
        /\ made' = [made EXCEPT ![a] = new]
        /\ touched' = [touched EXCEPT ![a] = old \cup late]
        /\ given' = [given EXCEPT ![a] = standing]
        /\ Go(a, "signed")
        /\ UNCHANGED <<now, homes, copy, lock, stops, wanted, reads, cut>>

Asked(a, verb) == at[a] = "unlocked" /\ ask[a].verb = verb

\* What an invite does to the records it finds (plan of commands/invite.rs).
Adds(a) ==
    /\ \/ Asked(a, "add") /\ ~ \E r \in book[a].rows : r.label = ask[a].name /\ r.node = ask[a].key
       \/ Asked(a, "new key") /\ ask[a].name \notin Labels(book[a].rows)
    /\ CanAdd(a, ask[a].key, ask[a].name)
Rekeys(a) == Asked(a, "new key") /\ CanRekey(a, ask[a].name)
Renews(a, r) ==
    /\ r \in book[a].rows /\ r.label = ask[a].name
    /\ Asked(a, "renew") \/ (Asked(a, "add") /\ r.node = ask[a].key)

\* invite <name> <key> and invite --new-key <name>, of a name no device has: sign_standing, sign_keyed.
Add(a) ==
    LET k == ask[a].key
    IN  /\ Adds(a)
        /\ Sign(a, WithRow(a, book[a], k, ask[a].name, ask[a].verb = "new key"), {k}, {}, Signed(a, k))

\* invite --new-key <name>, of a device
Rekey(a) ==
    LET k == ask[a].key  n == ask[a].name
    IN  /\ Rekeys(a)
        /\ Sign(a, Rekeyed(a, book[a], n, k), {k}, {RowNamed(book[a].rows, n).node}, Signed(a, k))

\* invite <name>, and invite <name> <key> of the device with both.  A renewal that would change nothing
\* prints the standing as it stands.
Renew(a) ==
    \E r \in book[a].rows :
        /\ Renews(a, r)
        /\ IF Skips(book[a], r, began[a]) THEN Sign(a, book[a], {}, {}, None)
           ELSE Sign(a, WithRenewed(a, book[a], {r.node}), {}, {r.node}, Signed(a, r.node))

\* The records list the name under a key the revoke did not see.
NameMoved(a, b) == \E r \in b.rows : r.label = ask[a].name /\ r.node \notin seen[a]

Revokes(a) ==
    /\ Asked(a, "revoke")
    /\ ~ NameMoved(a, book[a])
    /\ ask[a].key \in Nodes(book[a].rows \cup book[a].marked)

\* revoke_device
RevokeDevice(a) ==
    /\ Revokes(a)
    /\ Sign(a, FollowKeys([book[a] EXCEPT !.keys = @ \cup {ask[a].key}], began[a]), {}, {}, None)

\* The records refuse what was asked.
Refused(a) ==
    /\ at[a] = "unlocked"
    /\ ~ (Adds(a) \/ Rekeys(a) \/ Revokes(a) \/ \E r \in book[a].rows : Renews(a, r))
    /\ Go(a, "refused")
    /\ UNCHANGED <<now, homes, copy, lock, stops, wanted, reads, signs, cut>>

-----------------------------------------------------------------------------
(* The commit, under home.lock. *)

Moved(a) == devices[Runs[a]] # held[a] \/ conflict[Runs[a]] # fork[a]

\* The lists that moved since the act read them.
Heard(a) == (({devices[Runs[a]]} \ {held[a]}) \cup ({conflict[Runs[a]]} \ {fork[a]})) \ {None}

Brought(a) == IF Moved(a) THEN Forwarded(a, book[a], began[a]) ELSE book[a]

\* Mistakes in Overtaken: the name of the device an act revokes does not stop it; or that alone does.
OvertakenByKey(a) ==
    \/ \E u \in Heard(a) : made[a] \cap Nodes(u.rows) # {}
    \/ (made[a] \cup touched[a]) \cap (Brought(a).keys \ book[a].keys) # {}
OvertakenByName(a) == Moved(a) /\ ask[a].verb = "revoke" /\ NameMoved(a, Brought(a))

\* again: the act stops when what it did no longer stands on the records brought forward.
Overtaken(a) ==
    \/ \E u \in Heard(a) : made[a] \cap Nodes(u.rows) # {}
    \/ (made[a] \cup touched[a]) \cap (Brought(a).keys \ book[a].keys) # {}
    \/ Moved(a) /\ ask[a].verb = "revoke" /\ NameMoved(a, Brought(a))

\* The records hold what the home's update lacks: an act that has nothing to add cuts nothing.
Cutting(a) == Lacks(Brought(a), devices[Runs[a]], began[a])

\* The number of the next cut.
NextNumber(a) == Brought(a).number + 1

NextCut(a) == Cut(Brought(a), NextNumber(a), began[a])

\* update: with_revocations refuses to build such a doc, and the act ends with nothing written.
Unbuilt(a) == Cutting(a) /\ ~ WellFormed(NextCut(a))

Overtake(a) ==
    /\ at[a] = "signed" /\ lock[Runs[a]] = None
    /\ Overtaken(a) \/ Unbuilt(a)
    /\ Go(a, "stopped")
    /\ UNCHANGED <<now, homes, copy, lock, stops, wanted, reads, signs, cut>>

\* A copy's list is written before the fold, when the update is past the one the act read beside the key.
WriteCopy(a, u) ==
    copy' = IF From[a] # None /\ u.number > Number(list[a]) THEN [copy EXCEPT ![From[a]] = u] ELSE copy

\* commit_to, up to the fold: a cut when the records hold anything the home's update lacks.
Commit(a) ==
    LET h == Runs[a]
        u == IF Cutting(a) THEN NextCut(a) ELSE devices[h]
    IN  /\ at[a] = "signed" /\ lock[h] = None
        /\ ~ (Overtaken(a) \/ Unbuilt(a))
        /\ cut' = [cut EXCEPT ![a] = u]
        /\ WriteCopy(a, u)
        /\ IF Cutting(a)
           THEN lock' = [lock EXCEPT ![h] = a] /\ Go(a, "folding")
           ELSE UNCHANGED lock /\ Go(a, "done")
        /\ UNCHANGED <<now, homes, stops, wanted, reads, signs>>

\* The fold of its own cut, and ListChanged when the home does not hold it for its newest.
FoldCut(a) ==
    LET h == Runs[a]
    IN  /\ at[a] = "folding"
        /\ IF IsNewer(h, cut[a]) THEN HoldNewer(h, cut[a]) /\ Go(a, "done")
           ELSE UNCHANGED homes /\ Go(a, "stopped")
        /\ lock' = [lock EXCEPT ![h] = None]
        /\ UNCHANGED <<now, copy, stops, wanted, reads, signs, cut>>

\* The process ends, or the fold fails, after the copy's list is written.
Stop(a) ==
    /\ at[a] = "folding" /\ stops < MaxStops
    /\ stops' = stops + 1
    /\ lock' = [lock EXCEPT ![Runs[a]] = None]
    /\ Go(a, "stopped")
    /\ UNCHANGED <<now, homes, copy, wanted, reads, signs, cut>>

\* swoosh invite: what it does of its own, beside the steps every act takes.
Invite(a) ==
    \/ \E want \in Asks[a] : Unchanged(a, want) \/ Present(a, want)
    \/ Add(a) \/ Rekey(a) \/ Renew(a)

\* swoosh revoke me/<name>, once the device is blocked here.
Publish(a) == Present(a, ask[a]) \/ RevokeDevice(a)

Next ==
    \/ \E h, g \in Home : Hear(h, g) \/ HearFork(h, g)
    \/ Tick
    \/ \E a \in Act :
          \/ Invite(a) \/ Publish(a)
          \/ \E want \in Asks[a] : Resolve(a, want)
          \/ Block(a)
          \/ Unlock(a) \/ Refused(a)
          \/ Overtake(a) \/ Commit(a) \/ FoldCut(a) \/ Stop(a)

Spec == Init /\ [][Next]_vars

-----------------------------------------------------------------------------
(* Properties *)

\* Every home and copy holds an update, and every act keeps records, of the shape the code gives them.
TypeOK ==
    /\ now \in 0..MaxTime
    /\ devices \in [Home -> Update]
    /\ conflict \in [Home -> Update \cup {None}]
    /\ refused \in [Home -> SUBSET (Key \cup Standing)]
    /\ copy \in [Dir -> Update]
    /\ lock \in [Home -> Act \cup {None}]
    /\ stops \in 0..MaxStops
    /\ at \in [Act -> Places]
    /\ ask \in [Act -> Ask]
    /\ seen \in [Act -> SUBSET Key]
    /\ block \in [Act -> SUBSET (Key \cup Standing)]
    /\ began \in [Act -> 0..MaxTime]
    /\ book \in [Act -> Records]
    /\ {list, held, fork, cut} \subseteq [Act -> Update \cup {None}]
    /\ given \in [Act -> Standing \cup {None}]
    /\ due \in [Act -> SUBSET Key]
    /\ made \in [Act -> SUBSET Key]
    /\ touched \in [Act -> SUBSET Key]

\* One row for a key, one for a name, none of a revoked key, and no row with more ids than an update may list, but
\* for this machine's own on the root kept here.
Sound(a, b) ==
    /\ OneEach(b.rows)
    /\ Nodes(b.rows) \cap b.keys = {}
    /\ \A r \in b.rows : Cardinality(r.ids) <= MaxIds \/ (From[a] = None /\ r.node = OwnKey(a))

\* The records an act signs from make an update that can be built, whatever two copies of the root did to one name,
\* one key or one device (root.rs 2059-2129); but carry_own renews this machine's lapsed row without counting its ids
\* (1785-1801), and with_revocations may refuse it then.
SoundBooks == \A a \in Act : at[a] \in {"unlocked", "signed"} => Sound(a, book[a]) /\ Sound(a, Brought(a))

\* Whatever was folded while the act waited, the cut it makes is numbered past all the home holds, so the
\* fold that follows under the same lock keeps it, and ListChanged after the fold is never met.
CutIsNewest == \A a \in Act : at[a] = "folding" => IsNewer(Runs[a], cut[a])

\* Every standing a list speaks of, to admit it or to revoke it.
Known(u) == u.ids \cup UNION {r.ids : r \in u.rows}

\* The cut revokes all that u revokes, and lists or revokes every standing u lists, by its id or its key.
Carried(u, by) ==
    /\ Carries(by, u, now)
    /\ \A i \in InForce(Known(u), now) : i \in Known(by) \/ i.key \in by.keys

\* No act undoes what its home holds, unless one stopped between the copy's list and the fold before: the cut
\* carries the home's update, whatever was folded since the act read it, and the revocations of the fork kept
\* there.
CutCarries ==
    stops = 0 => \A a \in Act : at[a] = "folding" =>
        LET h == Runs[a]
        IN  /\ Carried(devices[h], cut[a])
            /\ conflict[h] # None => Carries(cut[a], conflict[h], now)

\* The comment on commit_to: a list folded while the act waited at its prompt is carried by the cut and
\* never forked or undone by it.
HeardCarried ==
    \A a \in Act : at[a] = "folding" /\ devices[Runs[a]] # held[a] => Carried(devices[Runs[a]], cut[a])

Committed(a) == at[a] \in {"folding", "done"} /\ cut[a] # None

\* What the act hands the person at the end is good: the standing it signed before its prompt's lists moved
\* is in the list it committed, under the name asked for, and that list does not revoke it.
Handed ==
    \A a \in Act : Committed(a) /\ given[a] # None =>
        /\ given[a].key \notin cut[a].keys /\ given[a] \notin cut[a].ids
        /\ \E r \in cut[a].rows :
              /\ r.node = given[a].key /\ given[a] \in r.ids
              /\ r.label = ask[a].name \/ r.node = OwnKey(a)

\* A revoke that committed ends the device for good: the list committed revokes the key its name had, and
\* the name is not left live there under another key that the device was handed meanwhile.
RevokedForGood ==
    \A a \in Act : Committed(a) /\ ask[a].verb = "revoke" =>
        /\ ask[a].key \in cut[a].keys
        /\ ask[a].name \notin Labels(cut[a].rows)

\* A machine never publishes a list that revokes itself, unless a list the act was given, beside the key, after its
\* prompt or under the lock, already did: neither a clash of names nor its own refusals turn its root against it.
OwnNotFirst ==
    \A a \in Act : at[a] = "folding" /\ OwnKey(a) \in cut[a].keys =>
        \E u \in {list[a], held[a], fork[a], devices[Runs[a]], conflict[Runs[a]]} \ {None} : OwnKey(a) \in u.keys

\* A copy's list is only ever replaced by a higher one (Act::beside).
CopyAdvances == [][\A d \in Dir : copy'[d] # copy[d] => copy'[d].number > copy[d].number]_copy

\* The records every home, copy and act keeps are sound, and no machine turns its own root against itself.
ActsSound == TypeOK /\ SoundBooks /\ OwnNotFirst
=============================================================================
