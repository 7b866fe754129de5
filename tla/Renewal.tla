------------------------------- MODULE Renewal -------------------------------
(***************************************************************************)
(* How a device gets its newer standings from its other devices: with a    *)
(* newer list, in an exchange (roster/fold.rs), or, once its own standing  *)
(* is no use, from the pick-up route of one of them (renewal.rs,           *)
(* joining.rs, commands/serve.rs, commands/sync.rs, reaching.rs).          *)
(*                                                                         *)
(* The lists are one sequence, of which each device holds a prefix (Fold   *)
(* and Exchange are about how it spreads, and about forks).  A standing is *)
(* the time it ends: the root signs no two of one machine that end         *)
(* together, and its id is its own.                                        *)
(***************************************************************************)
EXTENDS Naturals, Sequences, FiniteSets

CONSTANTS
    Peer,      \* the other devices
    MaxTime,   \* bound: the last instant
    MaxList,   \* bound: how many lists the root signs
    MaxFault   \* bound: how many asks fail

VARIABLES
    now,
    lists,   \* each list's row of this machine, when its standing ends, and the last standing it revokes
    held,    \* the list each peer holds
    pin,     \* this machine's root: that of the lists, or another
    badge,   \* this machine's standing: whose, and when it ends
    mine,    \* the list this machine holds
    cut,     \* the standings this machine revoked by hand
    act,     \* what it is doing: a round, a pick-up, or nothing
    left     \* history: the standings this machine put aside, and nobody gave it again

vars == <<now, lists, held, pin, badge, mine, cut, act, left>>

Row(i)  == IF i = 0 THEN 0 ELSE lists[i].row
Gone(i) == IF i = 0 THEN {} ELSE 1 .. lists[i].gone

Idle == [step |-> "idle", todo |-> {}, newer |-> FALSE, refused |-> FALSE, got |-> 0,
         again |-> FALSE, faults |-> 0]

Init ==
    /\ now = 1
    /\ lists = <<[row |-> 2, gone |-> 0]>>
    /\ held \in [Peer -> {0, 1}]
    /\ pin = "ours" /\ badge = [root |-> "ours", until |-> 2]
    /\ mine = 1 /\ cut = {}
    /\ act = Idle
    /\ left = {}

-----------------------------------------------------------------------------
(* The root, and the peers                                                 *)

\* The root signs a list: with a renewal, or with the oldest of too many renewals revoked (root.rs). A peer folds it.
Sign ==
    /\ Len(lists) < MaxList
    /\ \E row \in Row(Len(lists)) .. MaxTime + 1, gone \in lists[Len(lists)].gone .. MaxTime, p \in Peer :
          /\ gone < row
          /\ lists' = Append(lists, [row |-> row, gone |-> gone])
          /\ held' = [held EXCEPT ![p] = Len(lists')]
    /\ UNCHANGED <<now, pin, badge, mine, cut, act, left>>

\* The other devices' exchanges with one another.
Spread(p, q) ==
    /\ held[p] < held[q]
    /\ held' = [held EXCEPT ![p] = held[q]]
    /\ UNCHANGED <<now, lists, pin, badge, mine, cut, act, left>>

Tick ==
    /\ now < MaxTime /\ now' = now + 1
    /\ UNCHANGED <<lists, held, pin, badge, mine, cut, act, left>>

\* The peer's gate: a standing of its root that has not ended and that it does not revoke.
Admits(p) == badge.root = "ours" /\ badge.until >= now /\ badge.until \notin Gone(held[p])

\* The peer's route (which streams reach it at all is in Watched): nothing for a row that is revoked, or has ended.
Answer(p) ==
    LET row == Row(held[p])
    IN  IF row >= now /\ row \notin Gone(held[p]) THEN row ELSE 0

-----------------------------------------------------------------------------
(* This machine                                                            *)

IsDevice == badge.root = pin

\* What this machine's own gate refuses.
Denied == Gone(mine) \cup cut

\* Mutant: only a standing that was revoked is renewed.
IsDueRevoked == IsDevice /\ badge.until \in Denied

\* A standing that has passed its date, or that is revoked here.
IsDue == IsDevice /\ (badge.until <= now \/ badge.until \in Denied)

Does(step) == act.step = step

Asked(p) == [act EXCEPT !.todo = @ \ {p}]

\* A standing that another one takes the place of is put aside; one that a person gives is put aside no more.
Replaces == left' = IF badge' = badge THEN left ELSE left \cup {badge}
Given    == left' = (left \cup {badge}) \ {badge'}

\* A device's round: at start, hourly, by `sync`. The devices asked are read once.
Round ==
    /\ Does("idle") /\ pin = "ours" /\ IsDevice
    /\ act' = [Idle EXCEPT !.step = "round", !.todo = Peer, !.faults = act.faults]
    /\ UNCHANGED <<now, lists, held, pin, badge, mine, cut, left>>

\* An exchange: each ends with the newer list, and this machine with the standing in it when that ends later. A home
\* that is no device of that root any more folds nothing.
Exchange(p) ==
    /\ Does("round") /\ p \in act.todo /\ Admits(p)
    /\ LET new == IF held[p] > mine THEN held[p] ELSE mine
           row == Row(new)
       IN  IF pin = "ours" /\ IsDevice
             THEN /\ held' = [held EXCEPT ![p] = new]
                  /\ mine' = new
                  /\ badge' = IF new > mine /\ row >= now /\ row > badge.until /\ row \notin Gone(new)
                                THEN [badge EXCEPT !.until = row] ELSE badge
             ELSE UNCHANGED <<held, mine, badge>>
    /\ act' = [Asked(p) EXCEPT !.newer = @ \/ (pin = "ours" /\ held[p] > mine)]
    /\ UNCHANGED <<now, lists, pin, cut>>
    /\ Replaces

Refuse(p) ==
    /\ Does("round") /\ p \in act.todo /\ ~Admits(p)
    /\ act' = [Asked(p) EXCEPT !.refused = TRUE]
    /\ UNCHANGED <<now, lists, held, pin, badge, mine, cut, left>>

\* It is not reached, or answers nothing in time.
Silent(p) ==
    /\ act.step \in {"round", "picking"} /\ act.got = 0 /\ p \in act.todo /\ act.faults < MaxFault
    /\ act' = [Asked(p) EXCEPT !.faults = @ + 1]
    /\ UNCHANGED <<now, lists, held, pin, badge, mine, cut, left>>

\* The round is over (one that stops at a newer list, early). Refused, with a standing that is due: the pick-up.
EndRound ==
    /\ Does("round")
    /\ act.todo # {} => act.newer
    /\ act' = IF ~act.again /\ act.refused /\ IsDue
                THEN [act EXCEPT !.step = "picking", !.todo = IF pin = "ours" THEN Peer ELSE {}]
                ELSE [Idle EXCEPT !.faults = act.faults]
    /\ UNCHANGED <<now, lists, held, pin, badge, mine, cut, left>>

\* A verb that is about to present a standing that is due tries the route first, with no round.
BeforeDial ==
    /\ Does("idle") /\ pin = "ours" /\ IsDue
    /\ act' = [Idle EXCEPT !.step = "picking", !.todo = Peer, !.again = TRUE, !.faults = act.faults]
    /\ UNCHANGED <<now, lists, held, pin, badge, mine, cut, left>>

\* The pick-up asks one device at a time, for as long as none gave a standing this machine took.
Fetch(p) ==
    /\ Does("picking") /\ act.got = 0 /\ p \in act.todo
    /\ act' = [Asked(p) EXCEPT !.got = Answer(p)]
    /\ UNCHANGED <<now, lists, held, pin, badge, mine, cut, left>>

\* Mutant: what was checked when the device was asked stands.
TakesFetched(s) == s >= now

\* Under home.lock: of the root pinned now, not ended, ending after the one held now, and not revoked here.
Takes(s) == pin = "ours" /\ IsDevice /\ s >= now /\ s > badge.until /\ s \notin Denied

Take ==
    /\ Does("picking") /\ act.got # 0
    /\ IF Takes(act.got)
         THEN /\ badge' = [root |-> "ours", until |-> act.got]
              /\ act' = IF act.again THEN [Idle EXCEPT !.faults = act.faults]
                        ELSE [Idle EXCEPT !.step = "round", !.todo = Peer, !.again = TRUE, !.faults = act.faults]
         ELSE /\ act' = [act EXCEPT !.got = 0]
              /\ UNCHANGED badge
    /\ UNCHANGED <<now, lists, held, pin, mine, cut>>
    /\ Replaces

Missed ==
    /\ Does("picking") /\ act.got = 0 /\ act.todo = {}
    /\ act' = [Idle EXCEPT !.faults = act.faults]
    /\ UNCHANGED <<now, lists, held, pin, badge, mine, cut, left>>

\* join --switch, to another root and back, takes home.lock too. The lists go with the pin.
Switch ==
    /\ pin = "ours" /\ pin' = "other" /\ badge' = [root |-> "other", until |-> MaxTime] /\ mine' = 0
    /\ UNCHANGED <<now, lists, held, cut, act>>
    /\ Given

Join ==
    /\ pin = "other" /\ pin' = "ours" /\ badge' = [root |-> "ours", until |-> Row(Len(lists))]
    /\ UNCHANGED <<now, lists, held, mine, cut, act>>
    /\ Given

\* revoke <its standing>, on this machine.
Revoke ==
    /\ pin = "ours" /\ cut = {}
    /\ cut' = {badge.until}
    /\ UNCHANGED <<now, lists, held, pin, badge, mine, act, left>>

Asks(p) == Exchange(p) \/ Refuse(p) \/ Silent(p) \/ Fetch(p)

Next ==
    \/ \E p \in Peer : Asks(p) \/ (\E q \in Peer : Spread(p, q))
    \/ Sign \/ Tick \/ Round \/ EndRound \/ BeforeDial \/ Take \/ Missed \/ Switch \/ Join \/ Revoke

\* Time passes, this machine's rounds come again and end, and a peer answers.
Goes       == Round \/ EndRound \/ Take \/ Missed
Answers(p) == Exchange(p) \/ Refuse(p) \/ Fetch(p)

Fairness ==
    /\ WF_vars(Tick) /\ WF_vars(Goes)
    /\ \A p \in Peer : WF_vars(Answers(p))

Spec == Init /\ [][Next]_vars /\ Fairness

-----------------------------------------------------------------------------
(* Properties                                                              *)

\* A standing this machine put aside, for a later one or as it joined another root, it never presents again, until a
\* person joins it with that very one: a list that spreads late, a peer that lags and an answer that was asked for before
\* the home was joined away and back bring none of them back (joining.rs 80-87, renewal.rs 256-262).
NothingBack == badge \notin left

\* A device whose renewal one of its devices goes on holding has a standing that device admits in the end, with
\* nothing pasted (renewal.rs 1-3).
PicksUp ==
    \A p \in Peer :
        <>[](pin = "ours" /\ Row(held[p]) > MaxTime /\ Row(held[p]) \notin cut) => <>[](Admits(p))

\* A device that was away while its standing was revoked, as one of too many renewals, `picks it up the next time it
\* reaches one of your devices` (root.rs 1988-1989): a round does not end, refused, where a device that refuses its
\* standing would hand it a renewal.
NextTime ==
    [][Does("round") /\ act.refused /\ ~act.again /\ act'.step = "idle" /\ pin = "ours" =>
          \A p \in Peer : ~Admits(p) /\ Answer(p) > now => Answer(p) \in Denied]_vars
=============================================================================
