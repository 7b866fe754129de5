-------------------------------- MODULE Dial --------------------------------
(***************************************************************************)
(* One dialing command, from the machine typed to the root it tells        *)
(* (main.rs, reaching.rs, credential.rs, peer.rs, learn.rs): the machine   *)
(* is resolved, then the key, then what it presents, past a renewal where  *)
(* that is due; beside the verb run a stale list's exchange and, once a    *)
(* stream is admitted, the question which root vouches for the machine.    *)
(*                                                                         *)
(* No read here takes home.lock, so other commands write the home between  *)
(* any two of them.  What a renewal is, is in Renewal; what an exchange    *)
(* does, in Exchange; what telling a root writes, in People.               *)
(***************************************************************************)
EXTENDS Naturals, FiniteSets

CONSTANTS
    Root, Key,  \* root keys; the keys this machine may have
    Throw,      \* the key a run makes for itself and never writes
    Books,      \* the address books this home may have
    Typed,      \* what a person may type for the machine
    Me, None,
    MaxTime

Last == MaxTime + 1   \* a standing with this end outlives the run

VARIABLES
    now,
    home,  \* the key, the pin, the standing, whether the list is stale
    book,
    run

vars == <<now, home, book, run>>

Idle == [at |-> "idle", link |-> None, to |-> None, asked |-> None, key |-> None, due |-> FALSE, pin |-> None,
         slot1 |-> None, slot2 |-> None, dead |-> None, took |-> None, met |-> {}, ex |-> "none", ask |-> "none"]

Badge(root, key, end) == [root |-> root, key |-> key, end |-> end]

Init ==
    /\ now = 0
    /\ book \in Books
    /\ \E r \in Root, k \in Key, end \in 1..Last :
          home \in {[key |-> k, pin |-> r, badge |-> Badge(r, k, end), stale |-> TRUE],
                    [key |-> None, pin |-> None, badge |-> None, stale |-> TRUE]}
    /\ run = Idle

-----------------------------------------------------------------------------
(* The machine                                                             *)

\* Your devices, as the book holds them.
Mine == {row.key : row \in {x \in book.rows : x.person = Me}}

\* The kind of a machine is where this book saves its key, whatever was typed.
Saved(key) ==
    [key |-> key,
     kind |-> IF key \in Mine THEN "yours"
              ELSE IF \E row \in book.rows : row.key = key THEN "contact" ELSE "key"]

\* The one machine typed, or none: a root is never a machine, and a bare person is one only with one machine saved.
Machine(t) ==
    LET theirs == {row \in book.rows : row.person = t.person}
        named  == {row \in theirs : IF t.label # None THEN row.label = t.label ELSE t.person # Me /\ Cardinality(theirs) = 1}
    IN  CASE t.form = "link"  -> {[key |-> t.link.node, kind |-> "link"]}
          [] t.form = "root"  -> {}
          [] t.form = "key"   -> {Saved(k) : k \in {t.key} \ book.roots}
          [] t.form = "named" -> {Saved(row.key) : row \in named}

\* A machine that is not one machine ends the run here, before a key is read.
Begin ==
    /\ run.at = "idle"
    /\ \E t \in Typed : \E m \in Machine(t) :
          run' = [Idle EXCEPT !.at = "machine", !.link = IF t.form = "link" THEN t.link ELSE None, !.to = m]
    /\ UNCHANGED <<now, home, book>>

-----------------------------------------------------------------------------
(* The key, and what is presented under it                                 *)

\* Mutant: each ask is made at its own moment.
AnyoneNow(r) == r.link # None /\ r.link.for = "anyone" /\ now < r.link.end

\* Whether the link typed admits anyone, asked at the run's one moment.
Anyone(r) == r.link # None /\ r.link.for = "anyone" /\ r.asked < r.link.end

\* An anyone link dials under a throwaway key; any other dial, under the home's where it has one.
Keys ==
    /\ run.at = "machine"
    /\ LET r == [run EXCEPT !.asked = now]
       IN  run' = [r EXCEPT !.at = "keyed", !.key = IF Anyone(r) \/ home.key = None THEN Throw ELSE home.key]
    /\ UNCHANGED <<now, home, book>>

\* A standing is this key's: from the root pinned, for the key.
Standing(key) == home.pin # None /\ home.badge # None /\ home.badge.root = home.pin /\ home.badge.key = key

IsDue == Standing(home.key) /\ home.badge.end <= now

\* A plain dial whose standing has passed its date goes by the pick-up first, once bound.
Role ==
    /\ run.at = "keyed"
    /\ run' = [run EXCEPT !.at = IF run.link = None /\ IsDue THEN "bound" ELSE "resolve"]
    /\ UNCHANGED <<now, home, book>>

\* What the same-root write takes, under home.lock: for this machine's key, from the pin, ending after the one held.
Takes(b) == Standing(home.key) /\ b.root = home.pin /\ b.key = home.key /\ b.end > home.badge.end

\* What one of your devices may answer with; none is no device's, or one that is not taken.
Fetched == {b \in {Badge(home.pin, home.key, end) : end \in 1..Last} : Mine # {} /\ Takes(b)}

\* Still due, your devices are asked, and the first standing that is taken is it; hit or miss, the slots come after.
PickUp ==
    /\ run.at = "bound"
    /\ \/ run' = [run EXCEPT !.at = "resolve", !.met = IF IsDue THEN @ \cup Mine ELSE @] /\ UNCHANGED home
       \/ \E b \in Fetched :
             /\ IsDue
             /\ home' = [home EXCEPT !.badge = b]
             /\ run' = [run EXCEPT !.at = "resolve", !.took = b, !.met = @ \cup Mine]
    /\ UNCHANGED <<now, book>>

\* The standing is read for the key bound; an anyone link presents alone, and reads nothing.
Resolve ==
    /\ run.at = "resolve"
    /\ run' = IF Anyone(run) THEN [run EXCEPT !.at = "dial", !.slot1 = run.link]
              ELSE [run EXCEPT !.at = "badge", !.pin = IF Standing(run.key) THEN home.pin ELSE None]
    /\ UNCHANGED <<now, home, book>>

\* A standing travels in slot 1 of a plain dial, and in slot 2 of a link that names the root pinned.
Travels(r) == r.link = None \/ r.link.for = r.pin

\* Then the standing is read again, for its slot; one past its date ends the run where it would travel.
Slots ==
    /\ run.at = "badge"
    /\ LET badge == IF run.pin = None THEN None ELSE home.badge
       IN  run' = IF badge # None /\ Travels(run) /\ badge.end <= now THEN [run EXCEPT !.at = "refused", !.dead = badge]
                  ELSE IF run.link = None THEN [run EXCEPT !.at = "dial", !.slot1 = badge]
                  ELSE [run EXCEPT !.at = "dial", !.slot1 = run.link, !.slot2 = IF Travels(run) THEN badge ELSE None]
    /\ UNCHANGED <<now, home, book>>

-----------------------------------------------------------------------------
(* The verb, and what runs beside it                                       *)

\* The exchange goes with a dial of your own device while the list is stale, never under an anyone link's key; the
\* question is armed by a verb that may teach, for a machine saved as a person's.
Start ==
    /\ run.at = "dial"
    /\ \E teaches \in BOOLEAN :
          LET dev == home.stale /\ Standing(home.key) /\ run.to.key \in Mine /\ ~Anyone(run)
          IN  run' = [run EXCEPT !.at = "verb", !.ex = IF dev THEN "open" ELSE "none",
                                 !.met = IF dev THEN @ \cup {run.to.key} ELSE @,
                                 !.ask = IF teaches /\ run.to.kind = "contact" THEN "armed" ELSE "none"]
    /\ UNCHANGED <<now, home, book>>

\* The first stream the machine admits hands the question over, on the verb's own session.
Stream ==
    /\ run.at = "verb" /\ run.ask = "armed"
    /\ run' = [run EXCEPT !.ask = "asked"]
    /\ UNCHANGED <<now, home, book>>

\* The exchange ends, with an answer or at its own limit.
Exchanged ==
    /\ run.at \in {"verb", "ended"} /\ run.ex = "open"
    /\ \E fresh \in BOOLEAN : home' = [home EXCEPT !.stale = @ /\ ~fresh]
    /\ run' = [run EXCEPT !.ex = "done"]
    /\ UNCHANGED <<now, book>>

\* The machine answers, in time: what it shows counts when it vouches for the key dialed.
Answered ==
    /\ run.ask = "asked"
    /\ \E shown \in {"shown", "none"} : run' = [run EXCEPT !.ask = shown]
    /\ UNCHANGED <<now, home, book>>

\* It does not: the question is dropped at its limit.
Deadline ==
    /\ run.ask = "asked"
    /\ run' = [run EXCEPT !.ask = "none"]
    /\ UNCHANGED <<now, home, book>>

\* The verb returns. A question no stream was admitted for is never asked.
Returns ==
    /\ run.at = "verb"
    /\ run' = [run EXCEPT !.at = "ended", !.ask = IF @ = "armed" THEN "none" ELSE @]
    /\ UNCHANGED <<now, home, book>>

\* Mutant: the close waits for the exchange.
CloseAfter ==
    /\ run.at = "ended" /\ run.ask # "asked" /\ run.ex # "open"
    /\ run' = [run EXCEPT !.at = "closed"]
    /\ UNCHANGED <<now, home, book>>

\* Once the question is over the exchange is dropped wherever it is, and the node closed.
Close ==
    /\ run.at = "ended" /\ run.ask # "asked"
    /\ run' = [run EXCEPT !.at = "closed", !.ex = "none"]
    /\ UNCHANGED <<now, home, book>>

\* A root shown is told after the close; then the run is over, as it is wherever it failed.
Done ==
    /\ run.at # "idle"
    /\ run.at \in {"closed", "refused"} \/ run.at \in {"machine", "keyed", "bound", "resolve", "badge", "dial"}
    /\ run' = Idle
    /\ UNCHANGED <<now, home, book>>

-----------------------------------------------------------------------------
(* Beside it: other commands of this home, each under home.lock            *)

\* A join, or a switch to another root, writes the standing, then the pin.
Join ==
    /\ home.key # None
    /\ \E r \in Root : home' = [home EXCEPT !.badge = Badge(r, home.key, Last)]
    /\ UNCHANGED <<now, book, run>>

Pin ==
    /\ home.badge # None
    /\ home' = [home EXCEPT !.pin = home.badge.root]
    /\ UNCHANGED <<now, book, run>>

\* A leave drops the standing, then the pin.
Leave ==
    /\ home' = IF home.badge # None THEN [home EXCEPT !.badge = None] ELSE [home EXCEPT !.pin = None]
    /\ UNCHANGED <<now, book, run>>

\* The key is made, or replaced.
Replace ==
    /\ \E k \in Key : home' = [home EXCEPT !.key = k]
    /\ UNCHANGED <<now, book, run>>

Tick ==
    /\ now < MaxTime
    /\ now' = now + 1
    /\ UNCHANGED <<home, book, run>>

Dials ==
    \/ Begin \/ Keys \/ Role \/ PickUp \/ Resolve \/ Slots \/ Start \/ Stream \/ Exchanged \/ Answered \/ Deadline
    \/ Returns \/ Close \/ Done

Next == Dials \/ Join \/ Pin \/ Leave \/ Replace \/ Tick

\* A timer fires, and a task that can go on goes on; a verb, a peer and a person may take for ever.
Fairness == WF_vars(Deadline) /\ WF_vars(Close)

Spec == Init /\ [][Next]_vars /\ Fairness

-----------------------------------------------------------------------------
(* Properties                                                              *)

\* Nothing ties an anyone link's throwaway key to this home, however long the run takes and whenever the link runs out:
\* it presents the link alone, reaches none of your devices, and asks the machine nothing (main.rs 993-995,
\* credential.rs 128-131).
ThrowawayAlone ==
    run.asked # None /\ run.link # None /\ run.link.for = "anyone" /\ run.asked < run.link.end =>
        /\ run.key \in {None, Throw} /\ run.slot1 \in {None, run.link} /\ run.slot2 = None
        /\ run.met = {} /\ run.ask = "none"

\* A dial presents the standing its pick-up took, and is refused here only over a standing it would send, and never
\* over the date of one it has just replaced (main.rs 989-992, reaching.rs 303-308).
RenewedTravels ==
    /\ run.link = None /\ run.took # None /\ run.slot1 # None /\ run.slot1.root = run.took.root
       /\ run.slot1.key = run.took.key => run.slot1.end >= run.took.end
    /\ run.at = "refused" =>
          /\ run.link = None \/ run.link.for = run.pin
          /\ run.took = None \/ run.dead.root # run.took.root \/ run.dead.end >= run.took.end

\* Slot 2 carries a standing only to the fleet it is from, and a standing travels only under the key it is for
\* (reaching.rs 256-259, main.rs 976-978).
SlotsOwn ==
    /\ run.slot2 # None => run.slot2.root = run.link.for
    /\ run.link = None /\ run.slot1 # None => run.slot1.key = run.key

\* Once the verb has returned the command ends: a machine that never answers its question, or an exchange that never
\* comes back, holds it no longer than a limit of its own (main.rs 1138-1148, learn.rs 44-46).
DialEnds == run.at = "ended" ~> run.at = "closed"

\* What a dial presents, whatever changes while it is prepared.
PresentsRight == ThrowawayAlone /\ RenewedTravels
=============================================================================
