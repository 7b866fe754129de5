----------------------------- MODULE MCReaching -----------------------------
(***************************************************************************)
(* What asks another for something, and ends: a round of exchanges with    *)
(* your devices (Round), the pick-up of a renewal (Renewal) and a dial     *)
(* (Dial).  They share no state: a behaviour is one of `part`, with the    *)
(* variables of the others as they start.  Round has three devices and     *)
(* three cuts, two of them with one number, from any update held by each.  *)
(***************************************************************************)
EXTENDS Round

CONSTANTS
    Parts,        \* the parts to check
    a, b, c,      \* the devices of a round
    p1, p2,       \* two peers
    k1, t1,       \* a key of this machine, and a throwaway one
    Peers, LastDay, MaxList, MaxFault  \* for Renewal

ASSUME ReachingAssumption == LastDay \in Nat \ {0}

VARIABLES
    part,
    now, lists, held, pin, badge, mine, cut, act, left,
    today, home, book, dial

renewal == <<now, lists, held, pin, badge, mine, cut, act, left>>
dialing == <<today, home, book, dial>>
all     == <<part, vars, renewal, dialing>>

\* For Round.
CutOf(n, rest) == [number |-> n, standings |-> {}, ids |-> {}, keys |-> {}, rest |-> rest]
Devices == {a, b, c}
Cuts    == {CutOf(1, 0), CutOf(2, 0), CutOf(2, 1)}
Drawn   == <<a, b, c>>
NoIds   == {}
Nothing == <<>>

N == INSTANCE Renewal WITH Peer <- Peers, MaxTime <- LastDay

\* For Dial: an address book, and what a person may type for the machine.
Row(p, l, k) == [person |-> p, label |-> l, key |-> k]
Peer(form, p, l, k, link) == [form |-> form, person |-> p, label |-> l, key |-> k, link |-> link]
LinkFor(n, for, end) == [node |-> n, for |-> for, end |-> end]

Book  == [rows |-> {Row("me", "nas", "d1"), Row("alice", "a", "a1")}, roots |-> {"ra"}]
Typed == {Peer("named", "me", "nas", None, None), Peer("link", None, None, None, LinkFor("a1", "r1", 2))}

D == INSTANCE Dial WITH
    Root <- {"r1", "r2"}, Key <- {k1}, Throw <- t1, Books <- {Book}, Me <- "me", MaxTime <- 1,
    now <- today, run <- dial

-----------------------------------------------------------------------------
\* A part that does not run starts in one way only.
MCInit ==
    /\ part \in Parts
    /\ IF part = "round" THEN Init
       ELSE own = None /\ until = "newer" /\ holds = [d \in Device |-> None] /\ Init
    /\ N!Init /\ (part # "renewal" => \A p \in Peers : held[p] = 0)
    /\ D!Init /\ (part # "dial" => home.key = None)

InRound(A)   == part = "round" /\ A /\ UNCHANGED <<part, renewal, dialing>>
InRenewal(A) == part = "renewal" /\ A /\ UNCHANGED <<part, vars, dialing>>
InDial(A)    == part = "dial" /\ A /\ UNCHANGED <<part, vars, renewal>>

MCNext == InRound(Next) \/ InRenewal(N!Next) \/ InDial(D!Next)

\* The fairness of each part. As one part runs, weak fairness of steps of several is that of each.
MCFairness ==
    /\ WF_all(InRound(Asking) \/ InRenewal(N!Tick) \/ InDial(D!Deadline))
    /\ WF_all(InRenewal(N!Goes) \/ InDial(D!Close))
    /\ WF_all(InRenewal(N!Answers(p1)))
    /\ WF_all(InRenewal(N!Answers(p2)))

MCSpec == MCInit /\ [][MCNext]_all /\ MCFairness

-----------------------------------------------------------------------------
(* Properties                                                              *)

\* Round's: asking again does not go on for ever, even while other exchanges keep bringing updates.
RoundsEnd == part = "round" ~> Done

\* Renewal's: a standing this machine put aside is never presented again (joining.rs 80-87); and a device whose renewal
\* one of its devices goes on holding has it in the end (renewal.rs 1-3).
NothingBack == N!NothingBack
PicksUp     == N!PicksUp

\* Dial's: once the verb has returned the command ends (main.rs 1138-1148).
DialEnds == D!DialEnds
=============================================================================
