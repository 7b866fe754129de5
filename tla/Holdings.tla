------------------------------ MODULE Holdings ------------------------------
(***************************************************************************)
(* What one machine promises about the update it holds, whoever carried it *)
(* and whatever process wrote it (the module comments of                   *)
(* src/roster/fold.rs and src/revoked.rs, as one small machine).  Every    *)
(* step changes one thing.                                                 *)
(***************************************************************************)
EXTENDS Update

CONSTANT Own    \* the key of the machine

VARIABLES
    now,        \* the wall clock
    devices,    \* the update held, or None
    conflict,   \* the fork kept as evidence, or None
    revoked,    \* everything the machine refuses
    badge       \* the standing it presents

holdings == <<now, devices, conflict, revoked, badge>>

\* What an update obliges this machine to refuse.
Refusals(u, t) == RefusedAt(Own, u, t)

Init ==
    /\ now = 0
    /\ devices = None
    /\ conflict = None
    /\ revoked = {}
    /\ badge \in {i \in Id : Holder[i] = Own}

\* More is refused, nothing is forgotten, and the machine never refuses itself.
Refuse ==
    /\ revoked \subseteq revoked'
    /\ Own \notin revoked'
    /\ UNCHANGED <<now, devices, conflict, badge>>

\* A newer update is held, once everything it revokes is refused.
Hold ==
    /\ devices' \in Signed
    /\ Number(devices') > Number(devices)
    /\ Refusals(devices', now) \subseteq revoked
    /\ UNCHANGED <<now, conflict, revoked, badge>>

\* A fork is kept, once everything it revokes is refused.  One that is kept is not replaced.
Keep ==
    /\ conflict = None
    /\ conflict' \in Signed
    /\ Refusals(conflict', now) \subseteq revoked
    /\ UNCHANGED <<now, devices, revoked, badge>>

\* The fork goes once the update held carries all it revoked.
Drop ==
    /\ conflict # None
    /\ devices # None
    /\ Carries(devices, conflict, now)
    /\ conflict' = None
    /\ UNCHANGED <<now, devices, revoked, badge>>

\* The standing is only ever exchanged for one of this machine's that ends later and has not ended.
Renew ==
    /\ badge' \in Id
    /\ Holder[badge'] = Own
    /\ Ends[badge'] > Ends[badge]
    /\ Ends[badge'] > now
    /\ UNCHANGED <<now, devices, conflict, revoked>>

Wait ==
    /\ now' > now
    /\ UNCHANGED <<devices, conflict, revoked, badge>>

Next == Refuse \/ Hold \/ Keep \/ Drop \/ Renew \/ Wait

Spec == Init /\ [][Next]_holdings
=============================================================================
