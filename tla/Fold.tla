-------------------------------- MODULE Fold --------------------------------
(***************************************************************************)
(* How an update reaches one home (src/roster/fold.rs).                    *)
(*                                                                         *)
(* Several processes of one machine work on one home: a running serve that *)
(* answers exchanges, and the commands a person runs.  Each change to the  *)
(* home is made under home.lock.  A fold is several file writes; each is   *)
(* atomic on its own (a temporary renamed over the target), and a process  *)
(* can stop between any two of them, by a crash or by a failed write.  So  *)
(* each write is an action here, and Stop may come before each.            *)
(***************************************************************************)
EXTENDS Update

CONSTANTS
    Own,       \* the key of the machine the home belongs to
    Proc,      \* the processes that work on this home
    NoProc,    \* home.lock is free
    MaxTime    \* bound: the clock stops here

ASSUME ProcAssumption == Own \in Key /\ NoProc \notin Proc /\ MaxTime \in Nat

VARIABLES
    now,        \* the wall clock
    devices,    \* <home>/devices: the update held, or None
    conflict,   \* <home>/devices.conflict: the fork kept, or None
    revoked,    \* <home>/revoked
    badge,      \* the standing in the home
    invitedBy,  \* whether <home>/invited-by is there
    lock,       \* who has home.lock
    at,         \* where each process is in its fold
    kind,       \* "update" for fold, "fork" for fold_fork
    update,     \* the update each process folds
    held,       \* the update the fold read from <home>/devices when it took the lock
    until,      \* the end of the standing it read then
    finished    \* history: the updates a fold (not a fold_fork) took to its end

disk == <<devices, conflict, revoked, badge, invitedBy>>
run  == <<at, kind, update, held, until>>
vars == <<now, disk, lock, run, finished>>

Steps == {"idle", "arrived", "read", "added", "picked", "written", "forgot"}

\* A machine that has just joined: a standing bound to its key, no list yet.
Init ==
    /\ now = 0
    /\ devices = None
    /\ conflict = None
    /\ revoked = {}
    /\ badge \in {i \in Id : Holder[i] = Own}
    /\ invitedBy = TRUE
    /\ lock = NoProc
    /\ at = [p \in Proc |-> "idle"]
    /\ kind = [p \in Proc |-> "update"]
    /\ update = [p \in Proc |-> None]
    /\ held = [p \in Proc |-> None]
    /\ until = [p \in Proc |-> 0]
    /\ finished = {}

-----------------------------------------------------------------------------
\* What an update obliges this machine to refuse.
Refusals(u, t) == RefusedAt(Own, u, t)

-----------------------------------------------------------------------------
(* The comparison of u, folded as k, with the update h held. *)

Newer(k, u, h) == k = "update" /\ u.number > Number(h)

IsFork(k, u, h) == k = "update" /\ h # None /\ u.number = Number(h) /\ u # h

\* fold_fork drops a fork that is the update held, or that the update held carries.
NewFork(k, u, h) ==
    /\ k = "fork"
    /\ h # None => u # h /\ ~Carries(h, u, now)

Matters(k, u, h) == Newer(k, u, h) \/ IsFork(k, u, h) \/ NewFork(k, u, h)

\* The standings the update could give this machine: its own, later than the one held, still standing, and
\* revoked in the update neither by id nor by this machine's key.
Fit(u, end) ==
    {s \in u.standings : /\ Holder[s] = Own
                         /\ Ends[s] > now
                         /\ Ends[s] > end
                         /\ s \notin u.ids
                         /\ Own \notin u.keys}

-----------------------------------------------------------------------------
(* The fold, one action per step. *)

\* An update, or a fork another device passes on, arrives at a process.
Arrive(p, u, k) ==
    /\ at[p] = "idle"
    /\ at' = [at EXCEPT ![p] = "arrived"]
    /\ update' = [update EXCEPT ![p] = u]
    /\ kind' = [kind EXCEPT ![p] = k]
    /\ UNCHANGED <<now, disk, lock, held, until, finished>>

\* The process is done with its update and its lock is free.
Return(p) ==
    /\ at' = [at EXCEPT ![p] = "idle"]
    /\ kind' = [kind EXCEPT ![p] = "update"]
    /\ update' = [update EXCEPT ![p] = None]
    /\ held' = [held EXCEPT ![p] = None]
    /\ until' = [until EXCEPT ![p] = 0]
    /\ lock' = IF lock = p THEN NoProc ELSE lock

Finish(p) ==
    /\ Return(p)
    /\ finished' = IF kind[p] = "update" THEN finished \cup {update[p]} ELSE finished

\* Under the lock the fold reads the update held.  Not newer, the same bytes, or a fork that says nothing
\* new: nothing is written.
Leave(p) ==
    /\ at[p] = "arrived"
    /\ lock = NoProc
    /\ ~Matters(kind[p], update[p], devices)
    /\ Finish(p)
    /\ UNCHANGED <<now, disk>>

\* A mistake in Take: the lock is not waited for.
TakeUnlocked(p) ==
    /\ at[p] = "arrived"
    /\ Matters(kind[p], update[p], devices)
    /\ lock' = p
    /\ held' = [held EXCEPT ![p] = devices]
    /\ until' = [until EXCEPT ![p] = Ends[badge]]
    /\ at' = [at EXCEPT ![p] = "read"]
    /\ UNCHANGED <<now, disk, kind, update, finished>>

\* The caller takes home.lock; under it the fold reads the standing and the update held.
Take(p) ==
    /\ at[p] = "arrived"
    /\ lock = NoProc
    /\ Matters(kind[p], update[p], devices)
    /\ lock' = p
    /\ held' = [held EXCEPT ![p] = devices]
    /\ until' = [until EXCEPT ![p] = Ends[badge]]
    /\ at' = [at EXCEPT ![p] = "read"]
    /\ UNCHANGED <<now, disk, kind, update, finished>>

\* A mistake in Add: the revoked ids are left out.
AddKeysOnly(p) ==
    /\ at[p] = "read"
    /\ revoked' = revoked \cup (update[p].keys \ {Own})
    /\ at' = [at EXCEPT ![p] = "added"]
    /\ UNCHANGED <<now, devices, conflict, badge, invitedBy, lock, kind, update, held, until, finished>>

\* revoke: the revocations go to the file the gate reads before anything else is written.
Add(p) ==
    /\ at[p] = "read"
    /\ revoked' = revoked \cup Refusals(update[p], now)
    /\ at' = [at EXCEPT ![p] = "added"]
    /\ UNCHANGED <<now, devices, conflict, badge, invitedBy, lock, kind, update, held, until, finished>>

\* keep_fork: the fork is kept as devices.conflict unless one is kept already.
KeepFork(p) ==
    /\ at[p] = "added"
    /\ ~Newer(kind[p], update[p], held[p])
    /\ conflict' = IF conflict = None THEN update[p] ELSE conflict
    /\ Finish(p)
    /\ UNCHANGED <<now, devices, revoked, badge, invitedBy>>

\* pick_up: this machine's own standing, when the update gives it one that fits.
PickUp(p) ==
    /\ at[p] = "added"
    /\ Newer(kind[p], update[p], held[p])
    /\ badge' \in IF Fit(update[p], until[p]) = {} THEN {badge} ELSE Fit(update[p], until[p])
    /\ at' = [at EXCEPT ![p] = "picked"]
    /\ UNCHANGED <<now, devices, conflict, revoked, invitedBy, lock, kind, update, held, until, finished>>

\* The update becomes the one held.
WriteDevices(p) ==
    /\ at[p] = "picked"
    /\ devices' = update[p]
    /\ at' = [at EXCEPT ![p] = "written"]
    /\ UNCHANGED <<now, conflict, revoked, badge, invitedBy, lock, kind, update, held, until, finished>>

\* A mistake in ForgetInvitedBy: it goes before the list is written.
ForgetFirst(p) ==
    /\ at[p] = "picked"
    /\ invitedBy
    /\ invitedBy' = FALSE
    /\ UNCHANGED <<now, devices, conflict, revoked, badge, lock, run, finished>>

\* forget_invited_by is best-effort: a failure leaves the file and the fold goes on.
ForgetInvitedBy(p) ==
    /\ at[p] = "written"
    /\ invitedBy' \in {FALSE, invitedBy}
    /\ at' = [at EXCEPT ![p] = "forgot"]
    /\ UNCHANGED <<now, devices, conflict, revoked, badge, lock, kind, update, held, until, finished>>

\* A mistake in ClearFork: any newer update clears it.
ClearForkAlways(p) ==
    /\ at[p] = "forgot"
    /\ conflict' = None
    /\ Finish(p)
    /\ UNCHANGED <<now, devices, revoked, badge, invitedBy>>

\* clear_fork: the fork goes once the update carries everything it revoked.
ClearFork(p) ==
    /\ at[p] = "forgot"
    /\ conflict' = IF conflict # None /\ Carries(update[p], conflict, now) THEN None ELSE conflict
    /\ Finish(p)
    /\ UNCHANGED <<now, devices, revoked, badge, invitedBy>>

\* The process dies, or a read or a write fails and the fold returns its error: what was written stays,
\* and the lock goes with the process or the guard.
Stop(p) ==
    /\ at[p] # "idle"
    /\ Return(p)
    /\ UNCHANGED <<now, disk, finished>>

-----------------------------------------------------------------------------
(* The other writers of these files, each under home.lock for its whole run. *)

\* revoked::add for a revoke made on this machine: a link or a device, never its own key.
RevokeHere(e) ==
    /\ lock = NoProc
    /\ e # Own
    /\ revoked' = revoked \cup {e}
    /\ UNCHANGED <<now, devices, conflict, badge, invitedBy, lock, run, finished>>

\* joining::take_renewal: a renewed standing another device hands this machine.
TakeRenewal(s) ==
    /\ lock = NoProc
    /\ Holder[s] = Own
    /\ Ends[s] > now
    /\ Ends[s] > Ends[badge]
    /\ s \notin revoked
    /\ Own \notin revoked
    /\ badge' = s
    /\ UNCHANGED <<now, devices, conflict, revoked, invitedBy, lock, run, finished>>

Tick ==
    /\ now < MaxTime
    /\ now' = now + 1
    /\ UNCHANGED <<disk, lock, run, finished>>

Next ==
    \/ \E p \in Proc, u \in Signed, k \in {"update", "fork"} : Arrive(p, u, k)
    \/ \E p \in Proc : Leave(p) \/ Take(p) \/ Add(p) \/ KeepFork(p) \/ PickUp(p) \/ WriteDevices(p)
                          \/ ForgetInvitedBy(p) \/ ClearFork(p) \/ Stop(p)
    \/ \E e \in Entry : RevokeHere(e)
    \/ \E s \in Id : TakeRenewal(s)
    \/ Tick

Spec == Init /\ [][Next]_vars

-----------------------------------------------------------------------------
(* Properties. *)

\* Every variable keeps its type.
TypeOK ==
    /\ now \in Nat
    /\ devices \in Signed \cup {None}
    /\ conflict \in Signed \cup {None}
    /\ revoked \subseteq Entry
    /\ badge \in Id
    /\ invitedBy \in BOOLEAN
    /\ lock \in Proc \cup {NoProc}
    /\ at \in [Proc -> Steps]
    /\ kind \in [Proc -> {"update", "fork"}]
    /\ update \in [Proc -> Signed \cup {None}]
    /\ held \in [Proc -> Signed \cup {None}]
    /\ until \in [Proc -> Nat]
    /\ finished \subseteq Signed

\* Whatever this machine holds it also refuses: at every moment, a stop between two writes included, every
\* revocation of the update held and of the fork kept that still matters is in <home>/revoked, the one file
\* the gate reads (fold writes revoked before devices and devices.conflict).
HeldCovered ==
    /\ devices # None => Refusals(devices, now) \subseteq revoked
    /\ conflict # None => Refusals(conflict, now) \subseteq revoked

\* Two different cuts with one number are never lost sight of: when a fold has taken to its end an update
\* other than the one held but with its number, its revocations are refused here and a fork is on disk,
\* whichever of the two came first and however many processes folded at once.
ForkNoticed ==
    \A u \in finished :
        devices # None /\ u.number = devices.number /\ u # devices =>
            conflict # None /\ Refusals(u, now) \subseteq revoked

\* The machine always knows another device to ask: invited-by goes only once a list is held.
SomeoneToAsk == invitedBy \/ devices # None

\* The files, whatever the processes do to each other and wherever they stop, move as one Holdings machine
\* does: the number held only rises, revocations only grow and come first, a fork stays until it is carried,
\* a standing only extends.
Contract == INSTANCE Holdings WITH
    now <- now, devices <- devices, conflict <- conflict, revoked <- revoked, badge <- badge

HoldsContract == Contract!Spec
=============================================================================
