--------------------------------- MODULE Home ---------------------------------
(***************************************************************************)
(* The verbs that give a home its standing and take it away: join, leave,  *)
(* leave --new-key, the mint of a root and its finish, root backup, root   *)
(* restore, root forget, revoke root:<key>, and serve with --admit.        *)
(*                                                                         *)
(* Each verb reads the home without a lock, asks the person something,     *)
(* takes home.lock, looks again, and writes its files one by one.  Other   *)
(* commands run while it asks, and it can stop between any two files.      *)
(***************************************************************************)
EXTENDS Standing, Sequences

CONSTANTS
    Proc,        \* the commands that run at once on this home
    Abroad,      \* the roots kept elsewhere
    FirstKey,    \* the key the machine starts with
    MaxNumber,   \* bound: no list has a higher number
    MaxActs,     \* bound: so many verbs are begun
    MaxStops     \* bound: so many of them stop between two writes

ASSUME HomeAssumption ==
    /\ Abroad \subseteq Root
    /\ FirstKey \in Key
    /\ Proc \cap (Root \cup Key \cup {None, "serve"}) = {}
    /\ MaxActs > 0
    /\ {MaxNumber, MaxActs, MaxStops} \subseteq Nat

VARIABLES
    files,     \* the home, and the copy in the directory the person names
    lock,      \* who has home.lock
    resident,  \* who has serve.lock, the key it read, the root it admits
    acts,      \* the verb each process runs, and what it read before the lock
    signed,    \* every list a root has signed
    begun,     \* how many verbs were begun
    stops,     \* how many stopped between two writes
    stopped    \* the verbs those were, since one was last done and the home read as whole

vars == <<files, lock, resident, acts, signed, begun, stops, stopped>>

Verbs == {"join", "leave", "new key", "mint", "finish", "restore", "undo", "recut", "backup", "forget", "revoke"}

(* root: the root the verb is about.  was: the standing read.  own: this machine's key as read.  list: the  *)
(* list read.  held: the key the copy's directory held.  number: the list a restore left.  made: the key a  *)
(* join made and printed, which its invite's own is to replace.  todo: the files still to write.            *)
Idle == [verb |-> "none", at |-> "idle", root |-> None, was |-> Unpinned, own |-> None, list |-> None,
         held |-> None, number |-> 0, made |-> None, todo |-> <<>>]

\* A bare join on a home with no key: it made one, printed it, and waits for the invite to be pasted.
Printed == [Idle EXCEPT !.verb = "join", !.at = "printed", !.made = FirstKey]

Free == [by |-> None, key |-> None, admit |-> None]

FirstList(r) == [root |-> r, number |-> 1, rows |-> {FirstKey}, drops |-> {}]

\* A list after l, which may revoke one of its devices.
After(l, k) == [l EXCEPT !.number = l.number + 1, !.rows = l.rows \ {k}, !.drops = l.drops \cup ({k} \cap l.rows)]

Bare == [key |-> FirstKey, root |-> None, pin |-> None, badge |-> None, list |-> None, invited |-> None,
         revoked |-> {}, copyKey |-> None, copyList |-> None]

\* A home that is nobody's, or a device of a root kept elsewhere; with a copy of such a root, or none.  Where it
\* is nobody's, the join that made its key may still wait.
Init ==
    /\ \E r \in Abroad :
         LET device == [Bare EXCEPT !.pin = r, !.badge = [root |-> r, key |-> FirstKey], !.list = FirstList(r)]
             copied(f) == [f EXCEPT !.copyKey = r, !.copyList = FirstList(r)]
         IN  files \in {Bare, device, copied(Bare), copied(device)}
    /\ lock = None
    /\ resident = Free
    /\ \/ acts = [p \in Proc |-> Idle] /\ begun = 0
       \/ /\ files.pin = None /\ begun = 1
          /\ \E w \in Proc : acts = [p \in Proc |-> IF p = w THEN Printed ELSE Idle]
    /\ signed = {FirstList(r) : r \in Abroad} \cup {After(FirstList(r), FirstKey) : r \in Abroad}
    /\ stops = 0
    /\ stopped = {}

-----------------------------------------------------------------------------
(* What the verbs share. *)

\* A root serve --admit admits, asked under home.lock.
Admitting == resident.admit # None

\* A verb begins with what it read, and waits for the person.
Begin(p, act) ==
    /\ acts[p].at = "idle"
    /\ begun < MaxActs
    /\ begun' = begun + 1
    /\ acts' = [acts EXCEPT ![p] = act]
    /\ UNCHANGED <<files, lock, resident, signed, stops, stopped>>

Asked(verb, root) == [Idle EXCEPT !.verb = verb, !.at = "asked", !.root = root,
                                  !.was = StandingOf(files), !.own = files.key]

\* Under home.lock, what was read still holds: the verb writes.
Go(p, todo) ==
    /\ lock = None
    /\ lock' = p
    /\ acts' = [acts EXCEPT ![p].at = "locked", ![p].todo = todo]
    /\ UNCHANGED <<files, resident, signed, begun, stops, stopped>>

Waits(p, verb) == acts[p].verb = verb /\ acts[p].at = "asked"

\* One file, to be written or, with None, removed; and devices with a list signed here.
File(name, to) == [name |-> name, to |-> to, cut |-> FALSE]
CutFile(l) == [name |-> "list", to |-> l, cut |-> TRUE]

When(condition, writes) == IF condition THEN writes ELSE <<>>

\* A process lets go of serve.lock.
LetGo(p) == resident' = IF resident.by = p THEN Free ELSE resident

\* The verb refuses: the person said no, a passphrase was wrong, or what it read holds no longer.
Refuse(p) ==
    /\ acts[p].at \in {"printed", "asked", "armed", "syncing", "undoing", "recutting"}
    /\ acts' = [acts EXCEPT ![p] = Idle]
    /\ LetGo(p)
    /\ UNCHANGED <<files, lock, signed, begun, stops, stopped>>

\* The next file.
Write(p) ==
    LET next == Head(acts[p].todo)
    IN  /\ acts[p].at \in {"locked", "writing"}
        /\ acts[p].todo # <<>>
        /\ files' = [files EXCEPT ![next.name] = next.to]
        /\ acts' = [acts EXCEPT ![p].at = "writing", ![p].todo = Tail(acts[p].todo)]
        /\ signed' = IF next.cut THEN signed \cup {next.to} ELSE signed
        /\ UNCHANGED <<lock, resident, begun, stops, stopped>>

IsWhole(s) == s.is \in {"unpinned", "device", "holds"}

\* All is written.  A restore that put its root here then syncs with the devices.
Done(p) ==
    /\ acts[p].at \in {"locked", "writing"}
    /\ acts[p].todo = <<>>
    /\ lock' = None
    /\ acts' = [acts EXCEPT ![p] =
                  IF acts[p].verb = "restore" /\ StandingOf(files) = Holds(acts[p].root)
                    THEN [acts[p] EXCEPT !.at = "syncing",
                                         !.number = NumberUnder(files.list, acts[p].root)]
                    ELSE Idle]
    /\ LetGo(p)
    /\ stopped' = IF IsWhole(StandingOf(files)) THEN {} ELSE stopped
    /\ UNCHANGED <<files, signed, begun, stops>>

\* A crash, or a write that fails, between two files.
Stop(p) ==
    /\ acts[p].at = "writing"
    /\ acts[p].todo # <<>>
    /\ stops < MaxStops
    /\ stops' = stops + 1
    /\ stopped' = stopped \cup {acts[p].verb}
    /\ lock' = None
    /\ acts' = [acts EXCEPT ![p] = Idle]
    /\ LetGo(p)
    /\ UNCHANGED <<files, signed, begun>>

-----------------------------------------------------------------------------
(* join and leave. *)

\* A join that stopped is no standing yet: a first join reads as none, a switch as none beside the pin it leaves.
JoinReads(s) ==
    CASE s.is = "standing without pin"       -> Unpinned
      [] s.is = "standing from another root" -> [is |-> "switching", root |-> s.root]
      [] OTHER                               -> s

\* An invite for this machine's key, from whoever has the root's key.  A move to another root is --switch.
AskJoin(p, r) ==
    LET was == JoinReads(StandingOf(files))
    IN  /\ r \in Abroad \/ files.copyKey = r
        /\ r \notin files.revoked
        /\ was.is \in {"unpinned", "switching", "device"}
        /\ ~Admitting
        /\ Begin(p, [Asked("join", r) EXCEPT !.was = was])

\* A key some list names, or this machine's: a new one is none of these.
Used == {files.key} \cup UNION {l.rows \cup l.drops : l \in signed}

\* The invite pasted carries its own key k, which takes the place of the one this run made, while that is the
\* machine's key still.
Paste(p, r, k) ==
    LET was == JoinReads(StandingOf(files))
    IN  /\ acts[p].at = "printed"
        /\ files.key = acts[p].made
        /\ r \in Abroad /\ r \notin files.revoked
        /\ k \notin Used
        /\ was.is \in {"unpinned", "switching", "device"}
        /\ ~Admitting
        /\ acts' = [acts EXCEPT ![p] = [Asked("join", r) EXCEPT !.was = was, !.own = k, !.made = acts[p].made]]
        /\ UNCHANGED <<files, lock, resident, signed, begun, stops, stopped>>

\* It is written under both locks, which then go, before the standing is asked again.
PutKey(p) ==
    LET a == acts[p]
    IN  /\ Waits(p, "join") /\ a.made # None
        /\ lock = None /\ resident = Free
        /\ files.key = a.made
        /\ files' = [files EXCEPT !.key = a.own]
        /\ acts' = [acts EXCEPT ![p].made = None]
        /\ UNCHANGED <<lock, resident, signed, begun, stops, stopped>>

\* A mistake in JoinWrites: the lists of the root it leaves stay.
JoinKeepingList(f, was, r, own) ==
    When(RevokedRoot(f) # None, <<File("root", None)>>)
    \o When(was # Device(r), <<File("invited", r)>>)
    \o <<File("badge", [root |-> r, key |-> own])>>
    \o When(was # Device(r), <<File("pin", r)>>)

\* Over another pin, or none, the old lists go and invited-by is written first, and the pin last.  A revoked
\* root.key goes with the join.
JoinWrites(f, was, r, own) ==
    LET changes == was # Device(r)
    IN  When(RevokedRoot(f) # None, <<File("root", None)>>)
        \o When(changes, <<File("list", None), File("invited", r)>>)
        \o <<File("badge", [root |-> r, key |-> own])>>
        \o When(changes, <<File("pin", r)>>)

\* A mistake in Join: what was read is not read again under the lock.
JoinUnasked(p) ==
    /\ Waits(p, "join") /\ acts[p].made = None
    /\ ~Admitting
    /\ Go(p, JoinWrites(files, acts[p].was, acts[p].root, acts[p].own))

Join(p) ==
    LET a == acts[p]
    IN  /\ Waits(p, "join") /\ a.made = None
        /\ ~Admitting
        /\ JoinReads(StandingOf(files)) = a.was
        /\ Go(p, JoinWrites(files, a.was, a.root, a.own))

\* A mistake in LeaveWrites: the pin goes first.
LeavePinFirst(f) ==
    <<File("pin", None), File("badge", None), File("invited", None)>>
    \o When(f.root = None, <<File("list", None)>>)

\* A root kept here keeps its list; otherwise the list goes.  The pin goes last.
LeaveWrites(f) ==
    <<File("badge", None), File("invited", None)>>
    \o When(f.root = None, <<File("list", None)>>)
    \o <<File("pin", None)>>

CanLeave(s) == s.is = "device" \/ IsDamaged(s)

\* Damage is not told apart: any damaged home is left.
LeaveStill(was, s) == IF IsDamaged(was) THEN IsDamaged(s) ELSE s = was

AskLeave(p) ==
    /\ CanLeave(StandingOf(files))
    /\ Begin(p, Asked("leave", None))

Leave(p) ==
    /\ Waits(p, "leave")
    /\ LeaveStill(acts[p].was, StandingOf(files))
    /\ Go(p, LeaveWrites(files))

\* leave --new-key holds serve.lock from before the new key is made.
AskNewKey(p) ==
    /\ CanLeave(StandingOf(files)) \/ StandingOf(files) = Unpinned
    /\ Begin(p, Asked("new key", None))

HoldServe(p) ==
    /\ Waits(p, "new key")
    /\ lock = None
    /\ resident = Free
    /\ resident' = [Free EXCEPT !.by = p]
    /\ acts' = [acts EXCEPT ![p].at = "armed"]
    /\ UNCHANGED <<files, lock, signed, begun, stops, stopped>>

NewKey(p, k) ==
    LET a == acts[p]
    IN  /\ a.verb = "new key" /\ a.at = "armed"
        /\ k \notin Used
        /\ LeaveStill(a.was, StandingOf(files))
        /\ Go(p, When(a.was # Unpinned, LeaveWrites(files)) \o <<File("key", k)>>)

-----------------------------------------------------------------------------
(* The mint of a root, and its finish. *)

TakeStanding(r, own) == <<File("badge", [root |-> r, key |-> own]), File("pin", r)>>

\* This machine's row is signed into the list after l, then its standing is taken.
TakeOwn(r, own, l) ==
    LET rows  == IF l = None THEN {} ELSE l.rows
        drops == IF l = None THEN {} ELSE l.drops
    IN  <<CutFile([root |-> r, number |-> NumberUnder(l, r) + 1, rows |-> rows \cup {own}, drops |-> drops])>>
        \o TakeStanding(r, own)

\* A new root: no list names it, no file holds it, nobody is making it.
New(r) ==
    /\ r \notin Abroad
    /\ \A l \in signed : l.root # r
    /\ r \notin {files.root, files.copyKey} \cup files.revoked
    /\ \A q \in Proc : acts[q].root # r

AskMint(p, r) ==
    /\ New(r)
    /\ StandingOf(files) = Unpinned
    /\ ~Admitting
    /\ Begin(p, Asked("mint", r))

\* Mistakes in Still: a serve --admit may run; the standing is not read again.
StandingOnly(p) == StandingOf(files) = acts[p].was
NotAdmitting(p) == p \in Proc /\ ~Admitting

\* The standing is the one read, and no serve --admit runs.
Still(p) == StandingOf(files) = acts[p].was /\ ~Admitting

\* An unpinned home keeps no root but a revoked one: the new one takes its place.
Mint(p) ==
    LET a == acts[p]
    IN  /\ Waits(p, "mint")
        /\ Still(p)
        /\ Go(p, When(files.root # None, <<File("root", None)>>)
                 \o <<File("root", a.root)>>
                 \o TakeOwn(a.root, a.own, None))

\* A list beside the key that another root signed is damage.
AskFinish(p) ==
    LET s == StandingOf(files)
    IN  /\ s.is = "minting"
        /\ ~Admitting
        /\ files.list # None => files.list.root = s.root
        /\ Begin(p, [Asked("finish", s.root) EXCEPT !.list = files.list])

Listed(l, own) == l # None /\ own \in l.rows

\* A list that has this machine's row is finished from as it is; over any other a new one is signed, unless it
\* revokes this machine's key.
Finish(p) ==
    LET a == acts[p]
    IN  /\ Waits(p, "finish")
        /\ Still(p)
        /\ NumberUnder(a.list, a.root) < MaxNumber
        /\ \/ Listed(a.list, a.own) /\ Go(p, TakeStanding(a.root, a.own))
           \/ /\ ~Listed(a.list, a.own)
              /\ a.list # None => a.own \notin a.list.drops
              /\ Go(p, TakeOwn(a.root, a.own, a.list))

-----------------------------------------------------------------------------
(* root restore. *)

\* What a fold of l leaves of the list h: a newer one is taken, another of the same number adds what it revokes.
Folded(h, l) ==
    IF NumberUnder(h, l.root) < l.number        THEN l
    ELSE IF NumberUnder(h, l.root) = l.number   THEN [h EXCEPT !.drops = h.drops \cup l.drops]
    ELSE h

FoldWrites(f, l) ==
    When(Folded(f.list, l) # f.list, <<File("list", Folded(f.list, l))>>)
    \o When(NumberUnder(f.list, l.root) < l.number, <<File("invited", None)>>)

\* A copy is its key and its list, and the list revokes this machine no more than the one held here does.
AskRestore(p) ==
    LET r == files.copyKey
        l == files.copyList
    IN  /\ r # None /\ l # None
        /\ r \notin files.revoked
        /\ StandingOf(files) \in {Unpinned, Minting(r), Device(r)}
        /\ l.root = r
        /\ files.key \notin l.drops
        /\ ~OwnRevoked(files, r)
        /\ Begin(p, [Asked("restore", r) EXCEPT !.list = l])

\* The list first: folded on a device, elsewhere written only over an older one or none.
RestoreList(f, was, l) ==
    IF was = Device(l.root) THEN FoldWrites(f, l)
    ELSE When(NumberUnder(f.list, l.root) < l.number, <<File("list", l)>>)

\* The list the restore leaves before it adds to it.
ListAfter(f, was, l) ==
    IF was = Device(l.root) THEN Folded(f.list, l)
    ELSE IF NumberUnder(f.list, l.root) < l.number THEN l ELSE f.list

\* Then root.key, unless a restore that stopped left it; then this machine's standing and the pin.  kept: a
\* device's own standing runs as long as the list's.
RestoreRest(was, l, r, own, kept) ==
    When(was # Minting(r), <<File("root", r)>>)
    \o IF own \in l.rows
         THEN When(~(kept /\ was = Device(r)), TakeStanding(r, own))
         ELSE When(own \notin l.drops, TakeOwn(r, own, l))

\* If the list revokes this machine by now, the restore ends there.
Restore(p, kept) ==
    LET a     == acts[p]
        after == ListAfter(files, a.was, a.list)
    IN  /\ Waits(p, "restore")
        /\ Still(p)
        /\ after.number < MaxNumber
        /\ Go(p, RestoreList(files, a.was, a.list)
                 \o When(files.key \notin after.drops, RestoreRest(a.was, after, a.root, a.own, kept)))

\* The exchange after it showed this machine revoked: the root's files go again, the pin last.
Revoked(p) ==
    /\ acts[p].at = "syncing"
    /\ OwnRevoked(files, acts[p].root)
    /\ acts' = [acts EXCEPT ![p].verb = "undo", ![p].at = "undoing"]
    /\ UNCHANGED <<files, lock, resident, signed, begun, stops, stopped>>

Undo(p) ==
    /\ acts[p].at = "undoing"
    /\ Go(p, <<File("root", None), File("badge", None), File("pin", None)>>)

\* A newer list came that may lack this machine's row: it is added in another.
Newer(p) ==
    LET a == acts[p]
    IN  /\ a.at = "syncing"
        /\ ~OwnRevoked(files, a.root)
        /\ NumberUnder(files.list, a.root) > a.number
        /\ acts' = [acts EXCEPT ![p].verb = "recut", ![p].at = "recutting"]
        /\ UNCHANGED <<files, lock, resident, signed, begun, stops, stopped>>

Recut(p) ==
    LET a == acts[p]
    IN  /\ a.at = "recutting"
        /\ StandingOf(files) \in {Holds(a.root), Device(a.root)}
        /\ NumberUnder(files.list, a.root) \in 1 .. MaxNumber - 1
        /\ a.own \notin files.list.rows \cup files.list.drops
        /\ Go(p, <<Head(TakeOwn(a.root, a.own, files.list))>>)

-----------------------------------------------------------------------------
(* root backup and root forget. *)

\* What the directory holds is judged before the lock.
AskBackup(p) ==
    LET r == files.root
    IN  /\ StandingOf(files) = Holds(r)
        /\ files.copyKey \in {None, r}
        /\ files.copyList # None => files.copyList.root = r
        /\ Begin(p, [Asked("backup", r) EXCEPT !.list = files.copyList, !.held = files.copyKey])

BackupWrites(f, list, held) ==
    When(f.list # None /\ (list = None \/ list.number < f.list.number), <<File("copyList", f.list)>>)
    \o When(held # f.root, <<File("copyKey", f.root)>>)

\* The standing is not asked again: the key and the list are read as they are under the lock.
Backup(p) ==
    LET a == acts[p]
    IN  /\ Waits(p, "backup")
        /\ files.root # None
        /\ files.list # None => files.list.root = a.root
        /\ Go(p, BackupWrites(files, a.list, a.held))

AskForget(p) ==
    LET r == files.root
    IN  /\ StandingOf(files) = Holds(r)
        /\ files.copyKey = r
        /\ files.copyList # None
        /\ Begin(p, [Asked("forget", r) EXCEPT !.list = files.copyList])

\* A copy behind this machine's list is brought up to it first; one that a cloud keeps then stops there.
ForgetWrites(f, list, synced) ==
    LET behind == f.list # None /\ list.number < f.list.number
    IN  When(behind, <<File("copyList", f.list)>>)
        \o When(~(behind /\ synced), <<File("root", None)>>)

\* The copy is the one whose passphrase was typed, file by file.
Forget(p, synced) ==
    LET a == acts[p]
    IN  /\ Waits(p, "forget")
        /\ StandingOf(files) = Holds(a.root)
        /\ files.copyKey = a.root /\ files.copyList = a.list
        /\ a.list.root = a.root
        /\ files.list # None => files.list.root = a.root
        /\ Go(p, ForgetWrites(files, a.list, synced))

-----------------------------------------------------------------------------
(* revoke root:<key>. *)

\* What this machine is to the root r.
Kind(f, r) ==
    IF RevokedRoot(f) = r                            THEN "latched"
    ELSE IF StandingOf(f) \in {Holds(r), Minting(r)} THEN "holder"
    ELSE IF StandingOf(f) = Device(r)                THEN "device"
    ELSE IF f.pin = r                                THEN "latched device"
    ELSE "unknown"

\* A home whose records disagree refuses, but for a root it has latched.
AskRevoke(p, r) ==
    /\ IsDamaged(StandingOf(files)) => Kind(files, r) = "latched"
    /\ Begin(p, [Asked("revoke", r) EXCEPT !.was = [is |-> Kind(files, r), root |-> r]])

Latch(f, r) == <<File("revoked", f.revoked \cup {r})>>

\* What the revoked root left, unless the pin is another root's; root.key goes last.
Strip(f, r) ==
    When(f.pin \in {None, r},
         <<File("list", None), File("badge", None), File("invited", None), File("pin", None)>>)
    \o <<File("root", None)>>

\* The kind is asked again, but that a root half made may have been finished meanwhile.
Revoke(p) ==
    LET a    == acts[p]
        r    == a.root
        kind == a.was.is
    IN  /\ Waits(p, "revoke")
        /\ ~IsDamaged(StandingOf(files)) \/ kind = "latched"
        /\ Kind(files, r) = kind
        /\ Go(p, CASE kind = "latched"                       -> Strip(files, r)
                   [] kind = "holder"                        -> Latch(files, r) \o Strip(files, r)
                   [] kind \in {"device", "latched device"}  -> Latch(files, r) \o LeaveWrites(files)
                   [] kind = "unknown"                       -> Latch(files, r))

-----------------------------------------------------------------------------
(* serve. *)

\* A start takes serve.lock under home.lock, and only then reads the machine's key.
StartServe ==
    /\ lock = None
    /\ resident = Free
    /\ resident' = [Free EXCEPT !.by = "serve"]
    /\ UNCHANGED <<files, lock, acts, signed, begun, stops, stopped>>

ServeKey ==
    /\ resident.by = "serve" /\ resident.key = None
    /\ resident' = [resident EXCEPT !.key = files.key]
    /\ UNCHANGED <<files, lock, acts, signed, begun, stops, stopped>>

\* --admit: only where no root is trusted, asked and recorded under one home.lock.
Admit(r) ==
    /\ resident.by = "serve" /\ resident.key # None /\ resident.admit = None
    /\ lock = None
    /\ r \notin files.revoked
    /\ StandingOf(files) = Unpinned
    /\ resident' = [resident EXCEPT !.admit = r]
    /\ UNCHANGED <<files, lock, acts, signed, begun, stops, stopped>>

StopServe ==
    /\ resident.by = "serve"
    /\ resident' = Free
    /\ UNCHANGED <<files, lock, acts, signed, begun, stops, stopped>>

-----------------------------------------------------------------------------
(* The roots elsewhere, and what this home hears. *)

\* The copy is used on another machine.  It stops one number short of the bound, which a restore can then answer.
UseCopy(k) ==
    /\ files.copyKey # None /\ files.copyList # None
    /\ files.copyList.root = files.copyKey
    /\ files.copyList.number < MaxNumber - 1
    /\ files' = [files EXCEPT !.copyList = After(files.copyList, k)]
    /\ signed' = signed \cup {After(files.copyList, k)}
    /\ UNCHANGED <<lock, resident, acts, begun, stops, stopped>>

\* An exchange brings a list, and it is folded under home.lock.
Hear(l) ==
    /\ lock = None
    /\ StandingOf(files) \in {Device(l.root), Holds(l.root)}
    /\ Folded(files.list, l) # files.list
    /\ files' = [files EXCEPT !.list = Folded(files.list, l),
                              !.invited = IF NumberUnder(files.list, l.root) < l.number THEN None ELSE files.invited]
    /\ UNCHANGED <<lock, resident, acts, signed, begun, stops, stopped>>

-----------------------------------------------------------------------------
Verb(p) ==
    \/ \E r \in Root : AskJoin(p, r) \/ AskMint(p, r) \/ AskRevoke(p, r)
    \/ AskLeave(p) \/ AskNewKey(p) \/ AskFinish(p) \/ AskRestore(p) \/ AskBackup(p) \/ AskForget(p)
    \/ HoldServe(p) \/ PutKey(p)
    \/ \E k \in Key : NewKey(p, k) \/ \E r \in Abroad : Paste(p, r, k)
    \/ Join(p) \/ Leave(p) \/ Mint(p) \/ Finish(p) \/ Backup(p) \/ Revoke(p)
    \/ \E b \in BOOLEAN : Restore(p, b) \/ Forget(p, b)
    \/ Revoked(p) \/ Undo(p) \/ Newer(p) \/ Recut(p)
    \/ Write(p) \/ Done(p) \/ Stop(p) \/ Refuse(p)

Serve == StartServe \/ ServeKey \/ StopServe \/ \E r \in Abroad : Admit(r)

Elsewhere ==
    \/ \E k \in Key \cup {None} : UseCopy(k)
    \/ \E l \in signed : Hear(l)

Step == (\E p \in Proc : Verb(p)) \/ Serve \/ Elsewhere

Spec == Init /\ [][Step]_vars

-----------------------------------------------------------------------------
\* A standing, or the kind of a root.
Standings ==
    [is : Damage \cup {"unpinned", "device", "holds", "minting", "switching",
                       "latched", "holder", "latched device", "unknown"},
     root : Root \cup {None}]

\* One file to write, and what its kind may hold.
Writing ==
    [name : {"key"}, to : Key, cut : {FALSE}]
    \cup [name : {"root", "pin", "invited"}, to : Root \cup {None}, cut : {FALSE}]
    \cup [name : {"badge"}, to : Badge \cup {None}, cut : {FALSE}]
    \cup [name : {"list"}, to : List \cup {None}, cut : {FALSE}]
    \cup [name : {"list"}, to : List, cut : {TRUE}]
    \cup [name : {"revoked"}, to : SUBSET Root, cut : {FALSE}]
    \cup [name : {"copyKey"}, to : Root, cut : {FALSE}]
    \cup [name : {"copyList"}, to : List, cut : {FALSE}]

Acts ==
    [verb : Verbs \cup {"none"},
     at   : {"idle", "printed", "asked", "armed", "locked", "writing", "syncing", "undoing", "recutting"},
     root : Root \cup {None}, was : Standings, own : Key \cup {None}, list : List \cup {None},
     held : Root \cup {None}, number : Nat, made : Key \cup {None}, todo : Seq(Writing)]

\* Every file holds what its kind allows, or will, and only the process with home.lock writes.
TypeOK ==
    /\ files \in Files
    /\ lock \in Proc \cup {None}
    /\ resident \in [by : Proc \cup {None, "serve"}, key : Key \cup {None}, admit : Root \cup {None}]
    /\ signed \subseteq List
    /\ begun \in 0 .. MaxActs /\ stops \in 0 .. MaxStops
    /\ stopped \subseteq Verbs
    /\ acts \in [Proc -> Acts]
    /\ \A p \in Proc : acts[p].at \in {"locked", "writing"} <=> lock = p

\* A home whose standing is whole, or is what one of these verbs leaves when it stops.  An undo does not ask whose root
\* it removes, and may so leave the standing of a root half made.
Named(f, by) ==
    LET s == StandingOf(f)
    IN  \/ IsWhole(s)
        \/ s.is = "minting" /\ by \cap {"mint", "finish", "restore"} # {}
        \/ s.is = "standing from another root" /\ "join" \in by
        \/ s.is = "standing without pin" /\ by \cap {"join", "undo"} # {}
        \/ s.is = "pin without standing" /\ by \cap {"leave", "new key", "undo"} # {}

\* Between verbs, a home reads as whole or as what the verbs that stopped are to finish: never as damage nobody
\* finishes (standing.rs 240-254).
NamedVerb == lock = None /\ files.key = FirstKey => Named(files, stopped)

\* What a verb says it did is what the home then reads as.
Promise(a, f) ==
    LET s == StandingOf(f)
    IN  CASE a.verb = "join"                 -> s = Device(a.root)
          [] a.verb \in {"leave", "new key"} -> s \in {Unpinned, Minting(f.root)}
          [] a.verb \in {"mint", "finish"}   -> s = Holds(a.root)
          [] a.verb = "restore"              -> s = Holds(a.root) \/ OwnRevoked(f, a.root)
          [] a.verb = "undo"                 -> s = Unpinned
          [] a.verb = "recut"                -> f.key \in f.list.rows
          [] a.verb = "backup"               -> s = Holds(a.root) => f.copyKey = a.root /\ f.copyList # None
          [] a.verb = "forget"               -> f.copyKey = a.root /\ f.copyList.number >= f.list.number
          [] a.verb = "revoke"               -> /\ ~IsDamaged(s) /\ s.root # a.root
                                                /\ a.root \in f.revoked

\* Asked before the lock and not again under it: whether the root is revoked here, and this machine's key; by a
\* backup, whose key the directory holds.
Missed(a, f) ==
    \/ /\ a.verb \in {"join", "mint", "finish", "restore", "recut"}
       /\ a.root \in f.revoked \/ a.own # f.key
    \/ a.verb = "backup" /\ a.held \notin {None, f.copyKey}

Completes ==
    \A p \in Proc :
        /\ acts[p].at \in {"locked", "writing"} /\ acts[p].todo = <<>>
        /\ ~Missed(acts[p], files)
        => Promise(acts[p], files)

\* Never both: a serve that admits another root's devices, and a pin.
NeverBoth == Admitting => LivePin(files) = None

\* A serve runs as this machine's key, for as long as it runs.
KeyServed == resident.key \in {None, files.key}

\* The files are as they must be, and the serve that runs is in step with them: no pin beside a serve that admits
\* another root's devices, and no key but the one it runs as (home/lock.rs 271-278, identity/replace.rs 96-99).
InStep == TypeOK /\ NeverBoth /\ KeyServed

\* What a backup read before the lock holds no longer: the root kept here, or the key in the directory.
Stale(a, f) == a.verb = "backup" /\ (a.root # f.root \/ a.held # f.copyKey)

\* The last key of a root made here goes only once that root is revoked here; or with the undo of a restore, which
\* does not ask whose root it removes; or with a backup that does not ask again what it read.
Kept ==
    [][\A r \in Root \ Abroad :
         r \in {files.root, files.copyKey} /\ r \notin {files'.root, files'.copyKey}
         => \/ r \in files.revoked
            \/ \E p \in Proc : lock = p /\ (acts[p].verb = "undo" \/ Stale(acts[p], files))]_files

\* A machine with a standing never shows another root's list.
OwnList ==
    StandingOf(files).is \in {"device", "holds"} /\ files.list # None => files.list.root = LivePin(files)

\* A join or a leave that stopped between two files is never read as a standing (joining.rs 4-6).
NeverAStanding == lock = None /\ stopped \cap {"join", "leave"} # {} => StandingOf(files).is \notin {"device", "holds"}

\* The key a join replaces is one it made, "and nothing has used yet" (identity.rs 888-889): no standing here is
\* that key's.
MadeUnused ==
    [][\A p \in Proc : acts[p].made # None /\ acts[p].made = files.key /\ files'.key = acts[p].own
          => files.badge = None \/ files.badge.key # files.key]_files

\* A restore that finds this machine revoked takes the root it restored off again, and no other (restore.rs 438-439).
UndoesItsOwn ==
    \A p \in Proc : acts[p].verb = "undo" /\ acts[p].at = "locked" => files.root \in {acts[p].root, None}

\* A backup "never writes into a directory that holds something else", as "another root's key" is (backup.rs 162-164).
NeverAnothersKey ==
    [][files'.copyKey # files.copyKey => files.copyKey = None]_files
===============================================================================
