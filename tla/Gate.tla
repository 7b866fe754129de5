-------------------------------- MODULE Gate --------------------------------
(***************************************************************************)
(* Who a serve goes on trusting: the pin and the revocations as its gate   *)
(* reads them at each admission, one stat per STAT_DEBOUNCE, and the live  *)
(* cut that asks the same two of every open session on each sweep          *)
(* (gate.rs).  What writes them: any command that pins or unpins, and      *)
(* `revoke` (commands/revoke.rs, revoked.rs).  The links themselves are in *)
(* Links.                                                                  *)
(***************************************************************************)
CONSTANTS
    Root,     \* the roots this machine may trust
    Device,   \* the peers: their keys
    Link,     \* the links this machine signed that can be copied narrower
    Own,      \* this machine's own key
    None

VARIABLES
    file,     \* what <home>/root.pub holds
    revoked,  \* the entries of <home>/revoked
    serve,    \* whether one runs, and the root --admit gave it
    pin,      \* the pin as it read it
    denied,   \* the revocations as it read them
    session   \* the sessions that are open

vars == <<file, revoked, serve, pin, denied, session>>

\* A link's ids: its own, and a copy's.
Ids == Link \X {"whole", "copy"}

\* A session is a device of a root by its badge, or anybody by a link: what it is anchored at, and what was shown.
Sessions ==
    [peer : Device, anchor : Root, shown : {None}] \cup [peer : Device, anchor : {Own}, shown : Ids]

Chain(s) ==
    {s.peer, s.anchor} \cup (IF s.shown = None THEN {} ELSE {s.shown, <<s.shown[1], "whole">>})

Files == Root \cup {None, "unreadable", "malformed"}
Unread == [read |-> None, changed |-> TRUE, due |-> TRUE]

Init ==
    /\ file \in Files
    /\ revoked = {}
    /\ serve = [on |-> FALSE, admit |-> None]
    /\ pin = Unread
    /\ denied = [read |-> {}, due |-> FALSE]
    /\ session = {}

-----------------------------------------------------------------------------
(* The reads                                                               *)

\* Mutant: a file that cannot be read leaves the root that was read before.
LookKeeps(p) ==
    IF ~p.due THEN p
    ELSE [p EXCEPT !.due = FALSE, !.changed = FALSE,
                   !.read = IF p.changed /\ file \notin {"unreadable", "malformed"} THEN file ELSE @]

\* The pin is statted once per debounce and read again when its stamp is another. Whatever fails replaces what was
\* read, and a failed stat or read keeps no stamp.
Look(p) ==
    IF ~p.due THEN p
    ELSE [p EXCEPT !.due = FALSE,
                   !.read = IF p.changed THEN file ELSE @,
                   !.changed = p.changed /\ file \in {None, "unreadable"}]

Denied == IF denied.due THEN revoked ELSE denied.read

\* The root this serve trusts: the one --admit named, else the pin, and none that is revoked.
Current == LET r == IF serve.admit # None THEN serve.admit ELSE Look(pin).read
           IN  IF r \in Root \ Denied THEN r ELSE None

\* An ask reads both files.
Asks ==
    /\ pin' = IF serve.admit # None THEN pin ELSE Look(pin)
    /\ denied' = [read |-> Denied, due |-> FALSE]

-----------------------------------------------------------------------------
(* The serve                                                               *)

\* The revocations must be readable; the pin is read when it is first asked.
Begin(r) ==
    /\ ~serve.on /\ (r # None => file = None)
    /\ serve' = [on |-> TRUE, admit |-> r]
    /\ pin' = Unread
    /\ denied' = [read |-> revoked, due |-> FALSE]
    /\ UNCHANGED <<file, revoked, session>>

Stop ==
    /\ serve.on
    /\ serve' = [on |-> FALSE, admit |-> None]
    /\ pin' = Unread
    /\ denied' = [read |-> {}, due |-> FALSE]
    /\ session' = {}
    /\ UNCHANGED <<file, revoked>>

\* A debounce passes since the pin, since the revocations, were last statted.
PinDue ==
    /\ serve.on /\ ~pin.due /\ pin' = [pin EXCEPT !.due = TRUE]
    /\ UNCHANGED <<file, revoked, serve, denied, session>>

DeniedDue ==
    /\ serve.on /\ ~denied.due /\ denied' = [denied EXCEPT !.due = TRUE]
    /\ UNCHANGED <<file, revoked, serve, pin, session>>

\* A device of the trusted root, or a link of this machine's own (which Links admits), with nothing revoked in it.
Admit(s) ==
    /\ serve.on
    /\ Asks
    /\ session' = IF s.anchor \in {Current, Own} /\ Chain(s) \cap Denied = {} THEN session \cup {s} ELSE session
    /\ UNCHANGED <<file, revoked, serve>>

\* A session ends for what is revoked in its chain, and for an anchor that is neither trusted now nor this machine.
Cuts(s) == Chain(s) \cap Denied # {} \/ s.anchor \notin {Current, Own}

Sweep ==
    /\ serve.on
    /\ Asks
    /\ session' = {s \in session : ~Cuts(s)}
    /\ UNCHANGED <<file, revoked, serve>>

-----------------------------------------------------------------------------
(* The files                                                               *)

\* join, leave, a mint, a restore, a revoke; a hand or a crash that spoils it.
WritePin ==
    /\ \E f \in Files \ {file} : file' = f
    /\ pin' = [pin EXCEPT !.changed = TRUE]
    /\ UNCHANGED <<revoked, serve, denied, session>>

\* revoke <link>: the narrowest id only, so the link a copy was narrowed from goes on.
Blocks(id) == {id}

RevokeLink(id) ==
    /\ ~ (Blocks(id) \subseteq revoked)
    /\ revoked' = revoked \cup Blocks(id)
    /\ UNCHANGED <<file, serve, pin, denied, session>>

\* revoke me/<name>: the device's key, and the links given to it. revoke <person>, <person>/<name>, <key>: the links.
RevokeGiven(d) ==
    /\ \E given \in SUBSET Link, whole \in BOOLEAN :
          /\ revoked' = revoked \cup (given \X {"whole"}) \cup (IF whole THEN {d} ELSE {})
          /\ revoked' # revoked
    /\ UNCHANGED <<file, serve, pin, denied, session>>

\* Any fold, and revoke root:<key>, latch a root; never this machine's own key, whoever names it.
Latch(k) ==
    /\ k # Own /\ k \notin revoked
    /\ revoked' = revoked \cup {k}
    /\ UNCHANGED <<file, serve, pin, denied, session>>

Next ==
    \/ \E r \in Root \cup {None} : Begin(r)
    \/ \E s \in Sessions : Admit(s)
    \/ \E id \in Ids : RevokeLink(id)
    \/ \E d \in Device : RevokeGiven(d)
    \/ \E k \in Root \cup {Own} : Latch(k)
    \/ Stop \/ PinDue \/ DeniedDue \/ Sweep \/ WritePin

\* The sweeps go on for as long as it serves, and time passes.
Fairness == WF_vars(Sweep) /\ WF_vars(PinDue) /\ WF_vars(DeniedDue)

Spec == Init /\ [][Next]_vars /\ Fairness

-----------------------------------------------------------------------------
(* Properties                                                              *)

\* Every variable holds what it may.
TypeOK ==
    /\ file \in Files /\ pin.read \in Files
    /\ revoked \subseteq Device \cup Root \cup Ids /\ denied.read \subseteq revoked
    /\ serve.admit \in Root \cup {None} /\ (~serve.on => serve.admit = None)
    /\ session \subseteq Sessions

\* What the files say of a session now.
Stands(s) ==
    /\ Chain(s) \cap revoked = {}
    /\ s.anchor \in {Own, IF serve.admit # None THEN serve.admit ELSE file}

\* A session that the files never stand for again is ended and stays ended: its root unpinned, replaced, revoked, or
\* lost to a pin that cannot be read, its peer or any link it showed revoked (gate.rs 73-81, 246-252).
Untrusted == \A s \in Sessions : <>[](~Stands(s)) => <>[](s \notin session)
=============================================================================
