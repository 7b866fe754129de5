------------------------------ MODULE Exchange ------------------------------
(***************************************************************************)
(* The exchange (src/sync.rs): how the devices of one root come to hold    *)
(* one update.                                                             *)
(*                                                                         *)
(* A dialer (a serve's round, a dialing command, a root act offering its   *)
(* cut) opens a stream to another machine and the two run one exchange on  *)
(* it, message by message.  Several exchanges run at once, on one machine  *)
(* too: each side reads its home between messages, with no lock, and takes *)
(* home.lock for a fold alone, so here a fold is one step (module Fold     *)
(* opens it up).  A stream may break at any point and a dialer gives up    *)
(* after EACH.                                                             *)
(***************************************************************************)
EXTENDS Update, Sequences

CONSTANTS
    Device,       \* the machines of the root, named by their keys
    Outsider,     \* machines that are not devices of the root
    Dialer,       \* processes that dial
    Machine,      \* the device a dialer runs on
    Cutter,       \* the device where each update is cut
    Now,          \* the time: the clock stands still here, it moves in Fold
    NoMachine,
    MaxFaults     \* bound: how many breaks and failed folds happen

ASSUME MachineAssumption ==
    /\ Device \subseteq Key
    /\ Outsider \subseteq Key \ Device
    /\ NoMachine \notin Key
    /\ Machine \in [Dialer -> Device]
    /\ Cutter \in [Signed -> Device]
    /\ Now \in Nat /\ MaxFaults \in Nat

VARIABLES
    cut,        \* the updates cut so far
    devices,    \* the update each device holds, or None
    conflict,   \* the fork each device keeps, or None
    revoked,    \* what each device refuses
    faults,     \* how many faults have happened
    at,         \* the dialer's place in its exchange
    peer,       \* the machine it dialed
    named,      \* the update it named in the request and sends
    fork,       \* the fork it kept when the exchange began
    taken,      \* the update it was sent and is about to fold
    answer,     \* how its last exchange ended
    server,     \* the place of the task that answers it
    mine,       \* the update that task found held
    kept,       \* the fork that task found kept
    up,         \* messages on the way to the server
    down        \* messages on the way to the dialer

homes == <<cut, devices, conflict, revoked>>
asks  == <<at, peer, named, fork, taken, answer>>
tells == <<server, mine, kept>>
wires == <<up, down>>
vars  == <<homes, faults, asks, tells, wires>>

Updates == Signed \cup {None}

Answers ==
    {"none", "same", "took", "forked", "gave", "fork recorded", "refused", "not held", "protocol", "not admitted"}

Said == {"exchange", "update", "fork", "same", "mine", "both", "send yours", "folded", "refused", "fork recorded"}

Say(what, u) == [say |-> what, update |-> u]

Init ==
    /\ cut = {}
    /\ devices = [d \in Device |-> None]
    /\ conflict = [d \in Device |-> None]
    /\ revoked = [d \in Device |-> {}]
    /\ faults = 0
    /\ at = [s \in Dialer |-> "idle"]
    /\ peer = [s \in Dialer |-> NoMachine]
    /\ named = [s \in Dialer |-> None]
    /\ fork = [s \in Dialer |-> None]
    /\ taken = [s \in Dialer |-> None]
    /\ answer = [s \in Dialer |-> "none"]
    /\ server = [s \in Dialer |-> "ended"]
    /\ mine = [s \in Dialer |-> None]
    /\ kept = [s \in Dialer |-> None]
    /\ up = [s \in Dialer |-> <<>>]
    /\ down = [s \in Dialer |-> <<>>]

-----------------------------------------------------------------------------
(* Folds, each one step under home.lock. *)

\* A mistake in Folded: an equal number counts as newer.
FoldedAtLeast(d, u) ==
    CASE u.number < Number(devices[d]) -> "not newer"
      [] u = devices[d]                -> "same"
      [] OTHER                         -> "newer"

Folded(d, u) ==
    CASE u.number < Number(devices[d]) -> "not newer"
      [] u = devices[d]                -> "same"
      [] u.number > Number(devices[d]) -> "newer"
      [] OTHER                         -> "fork"

Refuse(d, u) == revoked' = [revoked EXCEPT ![d] = @ \cup RefusedAt(d, u, Now)]

\* A mistake in KeepFork: the fork's revocations are added and the fork itself is dropped.
KeepNothing(d, u) == UNCHANGED conflict

KeepFork(d, u) == conflict' = [conflict EXCEPT ![d] = IF @ = None THEN u ELSE @]

\* A newer update becomes the one held, and the fork kept goes if the update carries it, unless the
\* process stops first.
HoldNewer(d, u) ==
    /\ devices' = [devices EXCEPT ![d] = u]
    /\ \/ UNCHANGED conflict
       \/ /\ conflict[d] # None
          /\ Carries(u, conflict[d], Now)
          /\ conflict' = [conflict EXCEPT ![d] = None]

\* fold
FoldUpdate(d, u) ==
    /\ UNCHANGED cut
    /\ CASE Folded(d, u) = "newer" -> Refuse(d, u) /\ HoldNewer(d, u)
         [] Folded(d, u) = "fork"  -> Refuse(d, u) /\ KeepFork(d, u) /\ UNCHANGED devices
         [] OTHER                  -> UNCHANGED <<devices, conflict, revoked>>

\* fold_fork
FoldFork(d, u) ==
    /\ UNCHANGED <<cut, devices>>
    /\ IF devices[d] # None /\ (u = devices[d] \/ Carries(devices[d], u, Now))
       THEN UNCHANGED <<conflict, revoked>>
       ELSE Refuse(d, u) /\ KeepFork(d, u)

\* take_fork: the fork the other side passed on, or nothing.
TakeFork(d, u) == IF u = None THEN UNCHANGED homes ELSE FoldFork(d, u)

\* A root act's commit on a copy of the root: the next number after all it has seen, carrying every
\* revocation of the update held and of the fork kept.
Cut(u) ==
    LET d == Cutter[u]
    IN  /\ u \notin cut
        /\ u.number = 1 + (IF Number(conflict[d]) > Number(devices[d]) THEN Number(conflict[d]) ELSE Number(devices[d]))
        /\ devices[d] # None => Carries(u, devices[d], Now)
        /\ conflict[d] # None => Carries(u, conflict[d], Now)
        /\ cut' = cut \cup {u}
        /\ Refuse(d, u)
        /\ HoldNewer(d, u)
        /\ UNCHANGED <<faults, asks, tells, wires>>

-----------------------------------------------------------------------------
(* The dialer. *)

Send(wire, s, what, u) == [wire EXCEPT ![s] = Append(@, Say(what, u))]

\* exchange names the update held; offer names one this device cut, even if it holds a later one by now.
Nameable(d) == {devices[d]} \cup {u \in cut : Cutter[u] = d}

\* The devices an update lists live.
Listed(u) == {Holder[i] : i \in u.standings}

\* Whom a device dials to name u: for an exchange the devices its list names, or before it has one whoever
\* invited it, and no key it refuses; for an offer the devices its cut lists.
Dialable(d, u) ==
    LET listed == (IF devices[d] = None THEN Device \cup Outsider ELSE Listed(devices[d])) \ revoked[d]
        targets == IF u # None /\ Cutter[u] = d THEN Listed(u) ELSE {}
    IN  (listed \cup targets) \ {d}

\* The gate of p admits device d: neither its key nor every standing it could present is refused there.
Admits(p, d) == d \notin revoked[p] /\ \E i \in Id : Holder[i] = d /\ i \notin revoked[p]

\* The dialed machine's gate refuses the dialer's standing.
NotAdmitted(s, p) ==
    /\ at[s] = "idle" /\ server[s] = "ended"
    /\ p \in Device /\ ~Admits(p, Machine[s])
    /\ \E u \in Nameable(Machine[s]) : p \in Dialable(Machine[s], u)
    /\ answer' = [answer EXCEPT ![s] = "not admitted"]
    /\ UNCHANGED <<homes, faults, at, peer, named, fork, taken, tells, wires>>

\* The stream is admitted and the request sent.  A gate reads its denylist at most once per STAT_DEBOUNCE, so
\* one that has just come to refuse the dialer may still admit it.
Dial(s, p, u) ==
    /\ at[s] = "idle" /\ server[s] = "ended"
    /\ u \in Nameable(Machine[s])
    /\ p \in Dialable(Machine[s], u)
    /\ at' = [at EXCEPT ![s] = "named"]
    /\ peer' = [peer EXCEPT ![s] = p]
    /\ named' = [named EXCEPT ![s] = u]
    /\ taken' = [taken EXCEPT ![s] = None]
    /\ answer' = [answer EXCEPT ![s] = "none"]
    /\ server' = [server EXCEPT ![s] = "admitted"]
    /\ up' = [up EXCEPT ![s] = <<Say("exchange", u)>>]
    /\ down' = [down EXCEPT ![s] = <<>>]
    /\ UNCHANGED <<homes, faults, fork, mine, kept>>

\* The fork kept is read once the request is sent: one taken in this exchange is not passed back.
ReadFork(s) ==
    /\ at[s] = "named"
    /\ fork' = [fork EXCEPT ![s] = conflict[Machine[s]]]
    /\ at' = [at EXCEPT ![s] = "asked"]
    /\ UNCHANGED <<homes, faults, peer, named, taken, answer, tells, wires>>

\* What the dialer has been told next.
Hears(s, what) == down[s] # <<>> /\ Head(down[s]).say = what

Told(s) == Head(down[s]).update

Hear(s) == down' = [down EXCEPT ![s] = Tail(@)]

\* The dialer drops the stream with its answer, or with what stopped it.
Hangs(s, what) ==
    /\ at' = [at EXCEPT ![s] = "idle"]
    /\ answer' = [answer EXCEPT ![s] = what]

\* The updates have moved and the dialer has its answer; the forks are next.
Answered(s, what) ==
    /\ at' = [at EXCEPT ![s] = "passing"]
    /\ answer' = [answer EXCEPT ![s] = what]

HearSame(s) ==
    /\ at[s] = "asked"
    /\ Hears(s, "same")
    /\ \/ Told(s) # named[s] /\ Hangs(s, "not held")
       \/ Told(s) = named[s] /\ named[s] = None /\ Hangs(s, "same")
       \/ Told(s) = named[s] /\ named[s] # None /\ Answered(s, "same")
    /\ Hear(s)
    /\ UNCHANGED <<homes, faults, peer, named, fork, taken, tells, up>>

\* mine or both: another update than the one named; for a fork this side's goes back.
HearTheirs(s) ==
    /\ at[s] = "asked"
    /\ Hears(s, "mine") \/ Hears(s, "both")
    /\ IF Told(s) = named[s]
       THEN Hangs(s, "protocol") /\ UNCHANGED <<taken, up>>
       ELSE /\ at' = [at EXCEPT ![s] = "folding"]
            /\ taken' = [taken EXCEPT ![s] = Told(s)]
            /\ up' = IF Hears(s, "both") THEN Send(up, s, "update", named[s]) ELSE up
            /\ UNCHANGED answer
    /\ Hear(s)
    /\ UNCHANGED <<homes, faults, peer, named, fork, tells>>

\* What the dialer makes of an update sent to it.  One below the update held by now is out of turn.
Took(d, u) ==
    CASE Folded(d, u) = "fork"      -> "forked"
      [] Folded(d, u) = "not newer" -> "protocol"
      [] OTHER                      -> "took"

FoldTaken(s) ==
    /\ at[s] = "folding"
    /\ FoldUpdate(Machine[s], taken[s])
    /\ answer' = [answer EXCEPT ![s] = Took(Machine[s], taken[s])]
    /\ at' = [at EXCEPT ![s] = IF answer'[s] = "protocol" THEN "idle" ELSE "passing"]
    /\ UNCHANGED <<faults, peer, named, fork, taken, tells, wires>>

HearSendYours(s) ==
    /\ at[s] = "asked"
    /\ Hears(s, "send yours")
    /\ up' = Send(up, s, "update", named[s])
    /\ at' = [at EXCEPT ![s] = "sent"]
    /\ Hear(s)
    /\ UNCHANGED <<homes, faults, peer, named, fork, taken, answer, tells>>

HearVerdict(s) ==
    /\ at[s] = "sent"
    /\ \/ Hears(s, "folded") /\ Answered(s, "gave")
       \/ Hears(s, "refused") /\ Answered(s, "refused")
       \/ Hears(s, "fork recorded") /\ Answered(s, "fork recorded")
    /\ Hear(s)
    /\ UNCHANGED <<homes, faults, peer, named, fork, taken, tells, up>>

\* A mistake in PassFork: the dialer waits for the other side's fork before it passes its own.
PassForkSecond(s) ==
    /\ at[s] = "passing"
    /\ Hears(s, "fork")
    /\ up' = Send(up, s, "fork", fork[s])
    /\ fork' = [fork EXCEPT ![s] = None]
    /\ at' = [at EXCEPT ![s] = "taking"]
    /\ UNCHANGED <<homes, faults, peer, named, taken, answer, tells, down>>

PassFork(s) ==
    /\ at[s] = "passing"
    /\ up' = Send(up, s, "fork", fork[s])
    /\ fork' = [fork EXCEPT ![s] = None]
    /\ at' = [at EXCEPT ![s] = "taking"]
    /\ UNCHANGED <<homes, faults, peer, named, taken, answer, tells, down>>

TakeTheirFork(s) ==
    /\ at[s] = "taking"
    /\ Hears(s, "fork")
    /\ TakeFork(Machine[s], Told(s))
    /\ Hear(s)
    /\ at' = [at EXCEPT ![s] = "idle"]
    /\ UNCHANGED <<faults, peer, named, fork, taken, answer, tells, up>>

\* The stream has ended and nothing is left to read: forks that fail to pass leave the answer as it is.
DialerEnds(s) ==
    /\ at[s] \in {"asked", "sent", "taking"}
    /\ server[s] = "ended" /\ down[s] = <<>>
    /\ at' = [at EXCEPT ![s] = "idle"]
    /\ UNCHANGED <<homes, faults, peer, named, fork, taken, answer, tells, wires>>

\* The dialer gives up after EACH, crashes, or its fold fails.
DialerStops(s) ==
    /\ at[s] # "idle"
    /\ faults < MaxFaults
    /\ faults' = faults + 1
    /\ at' = [at EXCEPT ![s] = "idle"]
    /\ UNCHANGED <<homes, peer, named, fork, taken, answer, tells, wires>>

-----------------------------------------------------------------------------
(* The task that answers dialer s, on the machine peer[s]. *)

Asks(s, what) == up[s] # <<>> /\ Head(up[s]).say = what

Asked(s) == Head(up[s]).update

Read(s) == up' = [up EXCEPT ![s] = Tail(@)]

Serve(s, place) == server' = [server EXCEPT ![s] = place]

\* A machine that is not a device says so; a device reads the update it holds.
ReadHeld(s) ==
    /\ server[s] = "admitted"
    /\ Asks(s, "exchange")
    /\ IF peer[s] \in Outsider
       THEN /\ down' = Send(down, s, "same", None)
            /\ Serve(s, "ended")
            /\ UNCHANGED mine
       ELSE /\ mine' = [mine EXCEPT ![s] = devices[peer[s]]]
            /\ Serve(s, "held")
            /\ UNCHANGED down
    /\ UNCHANGED <<homes, faults, asks, kept, up>>

\* A mistake in Reply: the numbers are compared and the digests are not.
ReplyByNumber(theirs, held) ==
    CASE Number(held) = Number(theirs) -> "same"
      [] Number(held) > Number(theirs) -> "mine"
      [] OTHER                         -> "send yours"

Reply(theirs, held) ==
    CASE theirs = held                 -> "same"
      [] Number(held) > Number(theirs) -> "mine"
      [] Number(held) < Number(theirs) -> "send yours"
      [] OTHER                         -> "both"

\* Then the fork it keeps, and it answers by comparing the update named with the one it found held.
Compare(s) ==
    /\ server[s] = "held"
    /\ Asks(s, "exchange")
    /\ kept' = [kept EXCEPT ![s] = conflict[peer[s]]]
    /\ LET reply == Reply(Asked(s), mine[s])
       IN  /\ down' = Send(down, s, reply, mine[s])
           /\ Serve(s, CASE reply = "both"                      -> "both"
                         [] reply = "send yours"                -> "sent"
                         [] reply = "same" /\ mine[s] = None    -> "ended"
                         [] OTHER                               -> "forks")
    /\ mine' = [mine EXCEPT ![s] = None]
    /\ Read(s)
    /\ UNCHANGED <<homes, faults, asks>>

\* A fork: the dialer's update is folded, whatever comes of it.
FoldTheirs(s) ==
    /\ server[s] = "both"
    /\ Asks(s, "update")
    /\ FoldUpdate(peer[s], Asked(s))
    /\ Read(s)
    /\ Serve(s, "forks")
    /\ UNCHANGED <<faults, asks, mine, kept, down>>

\* A mistake in FoldGiven: the dialer is told folded before the fold has ended.
FoldGivenEarly(s) ==
    /\ server[s] = "sent"
    /\ Asks(s, "update")
    /\ down' = Send(down, s, "folded", None)
    /\ Read(s)
    /\ Serve(s, "forks")
    /\ UNCHANGED <<homes, faults, asks, mine, kept>>

\* A mistake in Verdict: only a newer update is answered folded, so one that came another way meanwhile
\* reads as refused.
VerdictNewerOnly(d, u) ==
    CASE Folded(d, u) = "newer" -> "folded"
      [] Folded(d, u) = "fork"  -> "fork recorded"
      [] OTHER                  -> "refused"

\* What the dialer is told of the update it was asked for.
Verdict(d, u) ==
    CASE Folded(d, u) = "fork"      -> "fork recorded"
      [] Folded(d, u) = "not newer" -> "refused"
      [] OTHER                      -> "folded"

FoldGiven(s) ==
    /\ server[s] = "sent"
    /\ Asks(s, "update")
    /\ FoldUpdate(peer[s], Asked(s))
    /\ down' = Send(down, s, Verdict(peer[s], Asked(s)), devices[peer[s]])
    /\ Read(s)
    /\ Serve(s, "forks")
    /\ UNCHANGED <<faults, asks, mine, kept>>

\* A fold that fails reads as refused.
FoldFails(s) ==
    /\ server[s] \in {"both", "sent"}
    /\ Asks(s, "update")
    /\ faults < MaxFaults
    /\ faults' = faults + 1
    /\ down' = IF server[s] = "sent" THEN Send(down, s, "refused", None) ELSE down
    /\ Read(s)
    /\ Serve(s, "forks")
    /\ UNCHANGED <<homes, asks, mine, kept>>

\* The forks: the dialer's is taken, then the one kept when the exchange began is passed on.
PassForks(s) ==
    /\ server[s] = "forks"
    /\ Asks(s, "fork")
    /\ TakeFork(peer[s], Asked(s))
    /\ Read(s)
    /\ down' = Send(down, s, "fork", kept[s])
    /\ kept' = [kept EXCEPT ![s] = None]
    /\ Serve(s, "ended")
    /\ UNCHANGED <<faults, asks, mine>>

\* A fork that does not fold is dropped, and the one kept is passed on all the same.
DropFork(s) ==
    /\ server[s] = "forks"
    /\ Asks(s, "fork")
    /\ faults < MaxFaults
    /\ faults' = faults + 1
    /\ Read(s)
    /\ down' = Send(down, s, "fork", kept[s])
    /\ kept' = [kept EXCEPT ![s] = None]
    /\ Serve(s, "ended")
    /\ UNCHANGED <<homes, asks, mine>>

\* The dialer is gone and nothing is left to read.
ServerEnds(s) ==
    /\ server[s] \in {"both", "sent", "forks"}
    /\ at[s] = "idle" /\ up[s] = <<>>
    /\ Serve(s, "ended")
    /\ UNCHANGED <<homes, faults, asks, mine, kept, wires>>

\* The serve stops, or the stream breaks on its side.
ServerStops(s) ==
    /\ server[s] # "ended"
    /\ faults < MaxFaults
    /\ faults' = faults + 1
    /\ Serve(s, "ended")
    /\ UNCHANGED <<homes, asks, mine, kept, wires>>

-----------------------------------------------------------------------------

Asking(s) ==
    \/ ReadFork(s) \/ HearSame(s) \/ HearTheirs(s) \/ FoldTaken(s) \/ HearSendYours(s) \/ HearVerdict(s)
    \/ PassFork(s) \/ TakeTheirFork(s) \/ DialerEnds(s)

Answering(s) ==
    ReadHeld(s) \/ Compare(s) \/ FoldTheirs(s) \/ FoldGiven(s) \/ PassForks(s) \/ ServerEnds(s)

Failing(s) == DialerStops(s) \/ FoldFails(s) \/ DropFork(s) \/ ServerStops(s)

Next ==
    \/ \E u \in Signed : Cut(u)
    \/ \E s \in Dialer, p \in Device : NotAdmitted(s, p)
    \/ \E s \in Dialer, p \in Device \cup Outsider, u \in Updates : Dial(s, p, u)
    \/ \E s \in Dialer : Asking(s) \/ Answering(s) \/ Failing(s)

Spec == Init /\ [][Next]_vars

\* A serve's rounds dial each of its devices hourly, in random order, and name the update held; a task that
\* answers runs.  Cuts are a person's choice and are not fair.
Fairness ==
    /\ \A s \in Dialer : WF_vars(Asking(s)) /\ WF_vars(Answering(s))
    /\ \A s \in Dialer, p \in Device : SF_vars(Dial(s, p, devices[Machine[s]]))

FairSpec == Spec /\ Fairness
-----------------------------------------------------------------------------
(* Properties. *)

\* Every variable keeps its type, and no update is held, kept, named or on the way before its root act has
\* committed it.
TypeOK ==
    LET Held == cut \cup {None}
        Message == [say : Said, update : Held]
    IN  /\ cut \subseteq Signed
        /\ devices \in [Device -> Held]
        /\ conflict \in [Device -> Held]
        /\ revoked \in [Device -> SUBSET Entry]
        /\ faults \in Nat
        /\ at \in [Dialer -> {"idle", "named", "asked", "folding", "sent", "passing", "taking"}]
        /\ peer \in [Dialer -> Device \cup Outsider \cup {NoMachine}]
        /\ named \in [Dialer -> Held]
        /\ fork \in [Dialer -> Held]
        /\ taken \in [Dialer -> Held]
        /\ answer \in [Dialer -> Answers]
        /\ server \in [Dialer -> {"admitted", "held", "both", "sent", "forks", "ended"}]
        /\ mine \in [Dialer -> Held]
        /\ kept \in [Dialer -> Held]
        /\ up \in [Dialer -> Seq(Message)]
        /\ down \in [Dialer -> Seq(Message)]

\* Whether device d has all that u asks of it: its number or a higher one, and its revocations refused.
Has(d, u) == Number(devices[d]) >= u.number /\ RefusedAt(d, u, Now) \subseteq revoked[d]

\* An answer that says the other device has this one's update is true, whatever else both homes folded
\* while the exchange ran, and stays true: same and gave are given for an update held there.
AnsweredHas ==
    \A s \in Dialer :
        named[s] # None /\ answer[s] \in {"same", "gave"} => peer[s] \in Device /\ Has(peer[s], named[s])

\* An answer that says an update came is true of this device: a take holds it or a later one, a fork has
\* its revocations refused here.
AnsweredTook ==
    \A s \in Dialer : answer[s] \in {"took", "forked"} => Has(Machine[s], taken[s])

\* Both: what a dialer is told of an exchange is true of the two homes.
AnswersHold == AnsweredHas /\ AnsweredTook

\* Two honest devices are out of turn only when the dialer folded past what it was sent while it waited;
\* a refusal with no failed fold means the other device went past what it asked for.
OnlyOvertaken ==
    \A s \in Dialer :
        /\ answer[s] = "protocol" => taken[s] # None /\ Number(devices[Machine[s]]) > taken[s].number
        /\ answer[s] = "refused" /\ faults = 0 => Number(devices[peer[s]]) > named[s].number

\* A fork found is evidence left: from then on the device that found it keeps a fork or holds a later
\* update.
ForkLeft ==
    \A s \in Dialer :
        /\ answer[s] = "forked" =>
               conflict[Machine[s]] # None \/ Number(devices[Machine[s]]) > taken[s].number
        /\ answer[s] = "fork recorded" =>
               /\ RefusedAt(peer[s], named[s], Now) \subseteq revoked[peer[s]]
               /\ conflict[peer[s]] # None \/ Number(devices[peer[s]]) > named[s].number

\* No device goes back to a lower number, and revocations only grow.
NeverBack ==
    [][\A d \in Device :
          /\ Number(devices'[d]) >= Number(devices[d])
          /\ Number(devices'[d]) = Number(devices[d]) => devices'[d] = devices[d]
          /\ revoked[d] \subseteq revoked'[d]]_homes

\* No two sides wait for each other: an exchange ends on both sides.
ExchangeEnds == \A s \in Dialer : at[s] # "idle" ~> at[s] = "idle" /\ server[s] = "ended"

\* Every update cut comes to every device that no cut drops: its number or a later one, and its revocations.
EveryoneHears ==
    \A u \in Signed, d \in Device : u \in cut ~> Has(d, u) \/ \E w \in cut : d \notin Listed(w)

\* When two copies of the root cut one number, a device comes to keep the fork and report it.
TwoCopiesReported ==
    (\E u, w \in cut : u # w /\ u.number = w.number) ~> (\E d \in Device : conflict[d] # None)
=============================================================================
