------------------------------- MODULE Round -------------------------------
(***************************************************************************)
(* One round (round, src/sync.rs): a device asks each of its devices for   *)
(* one exchange, in order, and asks again those that a later take has left *)
(* behind.  Meanwhile every home, its own too, folds what others bring.    *)
(*                                                                         *)
(* Module Exchange has the exchange message by message.  Here it is three  *)
(* steps, for the three moments at which a home is read: the update named, *)
(* the other device's comparison, and the folds.                           *)
(***************************************************************************)
EXTENDS Update, Sequences

CONSTANTS
    Order,      \* the devices to ask, in the order drawn for this round
    Nobody

Device == {Order[i] : i \in DOMAIN Order}

ASSUME OrderAssumption ==
    /\ Order \in Seq(Key)
    /\ \A i, j \in DOMAIN Order : Order[i] = Order[j] => i = j
    /\ Nobody \notin Key

VARIABLES
    own,        \* the update this machine holds, or None
    holds,      \* the update each device holds, or None
    until,      \* when the round stops: "newer" or "every"
    queue,      \* the devices still to ask, in order
    replies,    \* each device's last reply
    asked,      \* the device being asked, or Nobody
    named,      \* the update named to it
    heard,      \* whether it has compared, and
    theirs,     \* the update it held when it did
    late,       \* whether the round's time is up
    taken       \* history: the update this machine held after the round's last take

homes == <<own, holds>>
vars  == <<homes, until, queue, replies, asked, named, heard, theirs, late, taken>>

Replies == {"unasked", "same", "took", "forked", "gave", "fork recorded", "refused", "silent", "not admitted"}

Init ==
    /\ own \in Signed \cup {None}
    /\ holds \in [Device -> Signed \cup {None}]
    /\ until \in {"newer", "every"}
    /\ queue = Order
    /\ replies = [d \in Device |-> "unasked"]
    /\ asked = Nobody
    /\ named = None
    /\ heard = FALSE
    /\ theirs = None
    /\ late = FALSE
    /\ taken = None

-----------------------------------------------------------------------------

\* What fold makes of u where h is held.
Folded(h, u) ==
    CASE u.number < Number(h) -> "not newer"
      [] u = h                -> "same"
      [] u.number > Number(h) -> "newer"
      [] OTHER                -> "fork"

Fold(h, u) == IF Folded(h, u) = "newer" THEN u ELSE h

\* Any home folds an update another exchange brings it.
Elsewhere ==
    \E u \in Signed :
        /\ \/ own' = Fold(own, u) /\ UNCHANGED holds
           \/ \E d \in Device : holds' = [holds EXCEPT ![d] = Fold(@, u)] /\ UNCHANGED own
        /\ homes' # homes
        /\ UNCHANGED <<until, queue, replies, asked, named, heard, theirs, late, taken>>

Ask ==
    /\ asked = Nobody
    /\ queue # <<>>
    /\ asked' = Head(queue)
    /\ queue' = Tail(queue)
    /\ named' = own
    /\ UNCHANGED <<homes, until, replies, heard, theirs, late, taken>>

Compare ==
    /\ asked # Nobody /\ ~heard /\ ~late
    /\ heard' = TRUE
    /\ theirs' = holds[asked]
    /\ UNCHANGED <<homes, until, queue, replies, asked, named, late, taken>>

Queued(d) == \E i \in DOMAIN queue : queue[i] = d

\* A mistake in Behind: a device taken from before is not asked again.
BehindButTaken(d) == replies[d] \in {"same", "gave"}

\* Whether d's reply says it held what this machine held then.
Behind(d) == replies[d] \in {"same", "gave", "took"}

\* The elements of s that are in T, in their order (SelectSeq, as a function that can be proved about).
Picked(s, T) ==
    LET f[i \in 0..Len(s)] ==
            IF i = 0 THEN <<>>
            ELSE IF s[i] \in T THEN Append(f[i - 1], s[i]) ELSE f[i - 1]
    IN  f[Len(s)]

\* The devices a take leaves behind: those asked before it.
Earlier == Picked(Order, {d \in Device : d # asked /\ Behind(d) /\ ~Queued(d)})

\* A mistake in Again: any answer makes those asked before it be asked again.
AgainOnAnswer(reply) ==
    CASE reply = "took" /\ until = "newer"                                -> <<>>
      [] reply \notin {"silent", "not admitted"} /\ until = "every" -> queue \o Earlier
      [] OTHER                                                            -> queue

\* What is left to ask after a reply: the first take ends a round for a newer update; in one that asks
\* every device, those it leaves behind are asked again after the rest.
Again(reply) ==
    CASE reply = "took" /\ until = "newer" -> <<>>
      [] reply = "took" /\ until = "every" -> queue \o Earlier
      [] OTHER                             -> queue

\* The device asked has replied.
Replied(reply) ==
    /\ replies' = [replies EXCEPT ![asked] = reply]
    /\ queue' = Again(reply)
    /\ asked' = Nobody
    /\ named' = None
    /\ heard' = FALSE
    /\ theirs' = None
    /\ UNCHANGED <<until, late>>

\* The same update at both ends.
EndsSame ==
    /\ heard /\ theirs = named
    /\ Replied("same")
    /\ UNCHANGED <<homes, taken>>

\* The device sends its own: another of the number named, whose fork it folds too, or a later one.
EndsTheirs ==
    /\ heard /\ theirs # named /\ Number(theirs) >= Number(named)
    /\ own' = Fold(own, theirs)
    /\ Replied(CASE Folded(own, theirs) = "fork"      -> "forked"
                 [] Folded(own, theirs) = "not newer" -> "silent"
                 [] OTHER                             -> "took")
    /\ taken' = IF Folded(own, theirs) \in {"newer", "same"} THEN theirs ELSE taken
    /\ UNCHANGED holds

\* The device asks for the update named and folds it.
EndsMine ==
    /\ heard /\ Number(theirs) < Number(named)
    /\ holds' = [holds EXCEPT ![asked] = Fold(@, named)]
    /\ Replied(CASE Folded(holds[asked], named) = "fork"      -> "fork recorded"
                 [] Folded(holds[asked], named) = "not newer" -> "refused"
                 [] OTHER                                     -> "gave")
    /\ UNCHANGED <<own, taken>>

\* The device's gate refuses this machine; or no answer comes in time, the exchange fails, or the round's
\* time is up, whatever either home has folded by then.
Fails ==
    /\ asked # Nobody
    /\ \/ ~heard /\ ~late /\ Replied("not admitted")
       \/ Replied("silent")
    /\ UNCHANGED <<homes, taken>>

\* The round's total time passes: no exchange begun from here on is waited for.
TimeUp ==
    /\ ~late
    /\ late' = TRUE
    /\ UNCHANGED <<homes, until, queue, replies, asked, named, heard, theirs, taken>>

Asking == Ask \/ Compare \/ EndsSame \/ EndsTheirs \/ EndsMine \/ Fails

Next == Elsewhere \/ Asking \/ TimeUp

\* A round is one task: it goes on until nothing is left to ask.
Spec == Init /\ [][Next]_vars /\ WF_vars(Asking)

-----------------------------------------------------------------------------
(* Properties. *)

Done == asked = Nobody /\ queue = <<>>

\* Every variable keeps its type, and no device is queued twice or while it is asked.
TypeOK ==
    /\ own \in Signed \cup {None}
    /\ holds \in [Device -> Signed \cup {None}]
    /\ until \in {"newer", "every"}
    /\ queue \in Seq(Device)
    /\ \A i, j \in DOMAIN queue : queue[i] = queue[j] => i = j
    /\ replies \in [Device -> Replies]
    /\ asked \in (Device \cup {Nobody}) /\ ~Queued(asked)
    /\ named \in Signed \cup {None}
    /\ heard \in BOOLEAN
    /\ theirs \in Signed \cup {None}
    /\ late \in BOOLEAN
    /\ taken \in Signed \cup {None}

\* A round that asks every device reports no device as level with this machine that a take of the same
\* round has left behind, whatever else both homes fold meanwhile: one found the same, given this machine's
\* update or taken from holds at least what the last take brought.
NoneBehind ==
    Done /\ until = "every" /\ taken # None =>
        \A d \in Device : replies[d] \in {"same", "gave", "took"} => Number(holds[d]) >= taken.number

\* Every device is asked, unless a take ended a round that looks for one (the first round of a serve
\* relies on it: the device that holds a revocation may be the last).
EveryoneAsked ==
    Done => \/ \A d \in Device : replies[d] # "unasked"
            \/ until = "newer" /\ \E d \in Device : replies[d] = "took"

\* Asking again does not go on for ever, even while other exchanges keep bringing updates and no time limit
\* is met.
RoundEnds == <>Done

\* What a round that is over has told its caller of each device is true, and no device was left out.
RoundTrue == TypeOK /\ NoneBehind /\ EveryoneAsked
=============================================================================
