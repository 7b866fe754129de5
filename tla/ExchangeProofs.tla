--------------------------- MODULE ExchangeProofs ---------------------------
(***************************************************************************)
(* What Exchange proves for any number of machines, dialers, cuts and      *)
(* faults: its types, that no device goes back, and that every answer a    *)
(* dialer ends with is true of both homes and stays true.                  *)
(*                                                                         *)
(* The argument: homes only grow (Grows), every message on the way is true *)
(* of the homes it speaks of (UpMessage, DownMessage), and what is true    *)
(* stays true while homes grow (Stable).                                   *)
(***************************************************************************)
EXTENDS Exchange, SequenceTheorems, TLAPS

Held == cut \cup {None}

Message == [say : Said, update : Held]

\* The device dialed has all that u asks of it.
PeerHas(s, u) == u # None /\ peer[s] \in Device /\ Has(peer[s], u)

\* The device dialed has recorded the update named as a fork, and holds its like or a later one.
Recorded(s) ==
    /\ PeerHas(s, named[s])
    /\ conflict[peer[s]] # None \/ Number(devices[peer[s]]) > named[s].number

\* The device dialed has gone past the update named, or a fold has failed.
Past(s) ==
    /\ named[s] # None /\ peer[s] \in Device
    /\ faults = 0 => Number(devices[peer[s]]) > named[s].number

\* What may be on the way to the server: the update named and no other.
UpMessage(s) == {m \in Message : m.say \in {"exchange", "update"} => m.update = named[s]}

\* What may be on the way to the dialer: each message is true of the device that sent it.
DownMessage(s) ==
    {m \in Message :
        /\ m.say = "same" /\ m.update # None => PeerHas(s, m.update)
        /\ m.say \in {"mine", "both"} => m.update # None /\ m.update # named[s]
        /\ m.say = "folded" => PeerHas(s, named[s])
        /\ m.say = "fork recorded" => Recorded(s)
        /\ m.say = "refused" => Past(s)}

\* What a side does next fits what it has read and what has been said.
Place(s) ==
    /\ at[s] \in {"named", "asked", "folding", "sent"} => answer[s] = "none"
    /\ at[s] = "folding" => taken[s] # None
    /\ server[s] = "admitted" => peer[s] \in Device \cup Outsider
    /\ server[s] \in {"held", "both", "sent", "forks"} => peer[s] \in Device
    /\ server[s] = "held" /\ mine[s] # None => Has(peer[s], mine[s])
    /\ server[s] \in {"both", "sent"} => named[s] # None

\* The answer a dialer has is true of the homes.
True(s) ==
    /\ named[s] # None /\ answer[s] \in {"same", "gave"} => PeerHas(s, named[s])
    /\ answer[s] \in {"took", "forked"} => taken[s] # None /\ Has(Machine[s], taken[s])
    /\ answer[s] = "protocol" => taken[s] # None /\ Number(devices[Machine[s]]) > taken[s].number
    /\ answer[s] = "refused" => Past(s)
    /\ answer[s] = "forked" => conflict[Machine[s]] # None \/ Number(devices[Machine[s]]) > taken[s].number
    /\ answer[s] = "fork recorded" => Recorded(s)

Session(s) ==
    /\ up[s] \in Seq(UpMessage(s))
    /\ down[s] \in Seq(DownMessage(s))
    /\ Place(s)
    /\ True(s)

\* A device refuses all that the update it holds revokes.
HeldRefused == \A d \in Device : devices[d] # None => RefusedAt(d, devices[d], Now) \subseteq revoked[d]

IInv ==
    /\ TypeOK
    /\ HeldRefused
    /\ \A s \in Dialer : Session(s)

\* The homes after a step against the homes before it: numbers and revocations do not go down, and a kept
\* fork goes only for a later update.
Grows ==
    /\ cut \subseteq cut'
    /\ \A d \in Device :
        /\ Number(devices[d]) <= Number(devices'[d])
        /\ Number(devices'[d]) = Number(devices[d]) => devices'[d] = devices[d]
        /\ revoked[d] \subseteq revoked'[d]
        /\ conflict[d] # None /\ conflict'[d] = None => Number(devices[d]) < Number(devices'[d])

-----------------------------------------------------------------------------

\* A signed update is not None and its number is positive.
LEMMA SignedShape ==
    ASSUME NEW u \in Signed
    PROVE  u # None /\ u.number \in Nat /\ u.number > 0 /\ Number(u) = u.number
BY SignedAssumption DEF UpdateShape, Number

\* What a device refuses for an update are keys and ids.
LEMMA RefusedAreEntries ==
    ASSUME NEW u \in Signed, NEW d \in Device
    PROVE  RefusedAt(d, u, Now) \subseteq Entry
BY SignedAssumption DEF UpdateShape, RefusedAt, Owed, Entry

\* A sequence over a set is one over any set that holds it.
LEMMA SeqWiden ==
    ASSUME NEW S, NEW T, S \subseteq T, NEW q \in Seq(S)
    PROVE  q \in Seq(T)
OBVIOUS

\* Every number held is a natural number.
LEMMA NumberType ==
    ASSUME TypeOK, NEW d \in Device
    PROVE  Number(devices[d]) \in Nat
<1>1. devices[d] = None \/ devices[d] \in Signed
  BY DEF TypeOK
<1> QED
  BY <1>1, SignedShape DEF Number

\* Initially nothing is held and nobody speaks.
LEMMA InitInv == Init => IInv
<1> SUFFICES ASSUME Init PROVE IInv
  OBVIOUS
<1>1. TypeOK
  BY DEF Init, TypeOK, Answers
<1>2. ASSUME NEW s \in Dialer PROVE Session(s)
  BY <1>2 DEF Init, Session, Place, True
<1> QED
  BY <1>1, <1>2 DEF Init, IInv, HeldRefused

-----------------------------------------------------------------------------
(* Homes. *)

\* What a fold or a cut leaves in the home it writes.
LEMMA FoldHomes ==
    ASSUME TypeOK, HeldRefused, NEW d \in Device, NEW u \in cut, FoldUpdate(d, u) \/ FoldFork(d, u)
    PROVE  /\ cut' = cut
           /\ devices' \in [Device -> Held]
           /\ conflict' \in [Device -> Held]
           /\ revoked' \in [Device -> SUBSET Entry]
           /\ HeldRefused'
           /\ Grows
<1>1. /\ cut \subseteq Signed
      /\ devices \in [Device -> Held]
      /\ conflict \in [Device -> Held]
      /\ revoked \in [Device -> SUBSET Entry]
  BY DEF TypeOK, Held
<1>2. u \in Signed /\ RefusedAt(d, u, Now) \subseteq Entry
  BY <1>1, RefusedAreEntries
<1>3. u # None /\ u.number \in Nat /\ Number(u) = u.number
  BY <1>2, SignedShape
<1>4. \A e \in Device : Number(devices[e]) \in Nat
  BY NumberType
<1>5. CASE FoldFork(d, u)
  <2>1. CASE UNCHANGED <<cut, devices, conflict, revoked>>
    BY <1>1, <1>4, <2>1 DEF Held, HeldRefused, Grows
  <2>2. CASE UNCHANGED <<cut, devices>> /\ Refuse(d, u) /\ KeepFork(d, u)
    BY <1>1, <1>2, <1>3, <1>4, <2>2 DEF Refuse, KeepFork, Held, HeldRefused, Grows
  <2> QED
    BY <1>5, <2>1, <2>2 DEF FoldFork
<1>6. CASE FoldUpdate(d, u)
  <2>1. CASE Folded(d, u) = "newer"
    <3>1. Number(devices[d]) < u.number
      BY <1>3, <1>4, <2>1 DEF Folded
    <3>2. cut' = cut /\ Refuse(d, u) /\ HoldNewer(d, u)
      BY <1>6, <2>1 DEF FoldUpdate
    <3> QED
      BY <1>1, <1>2, <1>3, <1>4, <3>1, <3>2 DEF Refuse, HoldNewer, Held, HeldRefused, Grows
  <2>2. CASE Folded(d, u) = "fork"
    <3>1. cut' = cut /\ Refuse(d, u) /\ KeepFork(d, u) /\ UNCHANGED devices
      BY <1>6, <2>2 DEF FoldUpdate
    <3> QED
      BY <1>1, <1>2, <1>3, <1>4, <3>1 DEF Refuse, KeepFork, Held, HeldRefused, Grows
  <2>3. CASE Folded(d, u) \notin {"newer", "fork"}
    <3>1. UNCHANGED <<cut, devices, conflict, revoked>>
      BY <1>6, <2>3 DEF FoldUpdate
    <3> QED
      BY <1>1, <1>4, <3>1 DEF Held, HeldRefused, Grows
  <2> QED
    BY <2>1, <2>2, <2>3
<1> QED
  BY <1>5, <1>6

\* A fork passed on, or none, leaves a home as a fold does.
LEMMA TakeHomes ==
    ASSUME TypeOK, HeldRefused, NEW d \in Device, NEW u \in Held, TakeFork(d, u)
    PROVE  /\ cut' = cut
           /\ devices' \in [Device -> Held]
           /\ conflict' \in [Device -> Held]
           /\ revoked' \in [Device -> SUBSET Entry]
           /\ HeldRefused'
           /\ Grows
<1>1. CASE u = None
  <2>1. UNCHANGED <<cut, devices, conflict, revoked>>
    BY <1>1 DEF TakeFork, homes
  <2>2. Grows
    BY <2>1, NumberType DEF Grows
  <2> QED
    BY <2>1, <2>2 DEF TypeOK, Held, HeldRefused
<1>2. CASE u # None
  BY <1>2, FoldHomes DEF TakeFork, Held
<1> QED
  BY <1>1, <1>2

\* A cut is above all its home has seen.
LEMMA CutHomes ==
    ASSUME TypeOK, HeldRefused, NEW u \in Signed, Cut(u)
    PROVE  /\ cut' = cut \cup {u}
           /\ devices' \in [Device -> Held']
           /\ conflict' \in [Device -> Held']
           /\ revoked' \in [Device -> SUBSET Entry]
           /\ HeldRefused'
           /\ Grows
<1> DEFINE d == Cutter[u]
<1>1. /\ devices \in [Device -> Held]
      /\ conflict \in [Device -> Held]
      /\ revoked \in [Device -> SUBSET Entry]
  BY DEF TypeOK, Held
<1>2. d \in Device /\ RefusedAt(d, u, Now) \subseteq Entry
  BY MachineAssumption, RefusedAreEntries
<1>3. u # None /\ u.number \in Nat /\ Number(u) = u.number
  BY SignedShape
<1>4. \A e \in Device : Number(devices[e]) \in Nat
  BY NumberType
<1>5. Number(conflict[d]) \in Nat
  BY <1>2, SignedShape DEF TypeOK, Number
<1>6. Number(devices[d]) < u.number
  BY <1>2, <1>4, <1>5 DEF Cut
<1>7. cut' = cut \cup {u} /\ Refuse(d, u) /\ HoldNewer(d, u)
  BY DEF Cut
<1> HIDE DEF d
<1> QED
  BY <1>1, <1>2, <1>3, <1>4, <1>6, <1>7 DEF Refuse, HoldNewer, Held, HeldRefused, Grows

-----------------------------------------------------------------------------
(* Sessions. *)

\* The step leaves the session of dialer s as it was.
Still(s) ==
    /\ at'[s] = at[s] /\ peer'[s] = peer[s] /\ named'[s] = named[s] /\ fork'[s] = fork[s]
    /\ taken'[s] = taken[s] /\ answer'[s] = answer[s]
    /\ server'[s] = server[s] /\ mine'[s] = mine[s] /\ kept'[s] = kept[s]
    /\ up'[s] = up[s] /\ down'[s] = down[s]

\* What a step says about the homes, the types and the faults around a session.
Around ==
    /\ TypeOK /\ TypeOK'
    /\ HeldRefused
    /\ Grows
    /\ faults <= faults'

\* What a device has, it has after any step.
LEMMA HasStable ==
    ASSUME Around, NEW d \in Device, NEW u \in Signed
    PROVE  /\ Has(d, u) => Has(d, u)'
           /\ Number(devices[d]) > u.number => Number(devices'[d]) > u.number
           /\ Number(devices[d]) >= u.number => Number(devices'[d]) >= u.number
           /\ Number(devices[d]) >= u.number /\ conflict[d] # None /\ conflict'[d] = None
                => Number(devices'[d]) > u.number
<1>1. Number(devices[d]) \in Nat /\ u.number \in Nat
  BY NumberType, SignedShape DEF Around
<1>2. Number(devices'[d]) \in Nat
  <2>1. devices'[d] = None \/ devices'[d] \in Signed
    BY DEF TypeOK, Around
  <2> QED
    BY <2>1, SignedShape DEF Number
<1> QED
  BY <1>1, <1>2 DEF Around, Grows, Has

\* What is true of the device dialed stays true.
LEMMA TruthStable ==
    ASSUME Around, NEW s \in Dialer, peer'[s] = peer[s], named'[s] = named[s]
    PROVE  /\ \A u \in Held : PeerHas(s, u) => PeerHas(s, u)'
           /\ Recorded(s) => Recorded(s)'
           /\ Past(s) => Past(s)'
<1>1. cut \subseteq Signed /\ named[s] \in Held /\ faults \in Nat /\ faults' \in Nat /\ faults <= faults'
  BY DEF Around, TypeOK, Held
<1>2. \A u \in Held : PeerHas(s, u) => PeerHas(s, u)'
  BY <1>1, HasStable DEF PeerHas, Held
<1>3. Recorded(s) => Recorded(s)'
  <2> SUFFICES ASSUME Recorded(s) PROVE Recorded(s)'
    OBVIOUS
  <2>1. PeerHas(s, named[s]) /\ PeerHas(s, named[s])'
    BY <1>1, <1>2 DEF Recorded
  <2>2. named[s] \in Signed /\ peer[s] \in Device /\ Number(devices[peer[s]]) >= named[s].number
    BY <1>1, <2>1 DEF PeerHas, Held, Has
  <2> QED
    BY <2>1, <2>2, HasStable DEF Recorded
<1>4. Past(s) => Past(s)'
  BY <1>1, HasStable DEF Past, Held
<1> QED
  BY <1>2, <1>3, <1>4

\* Messages that were true stay true.
LEMMA MessagesStable ==
    ASSUME Around, NEW s \in Dialer, peer'[s] = peer[s], named'[s] = named[s]
    PROVE  /\ UpMessage(s) \subseteq UpMessage(s)'
           /\ DownMessage(s) \subseteq DownMessage(s)'
<1>1. Message \subseteq Message'
  BY DEF Around, Grows, Message, Held
<1>2. UpMessage(s) \subseteq UpMessage(s)'
  BY <1>1 DEF UpMessage
<1>3. ASSUME NEW m \in DownMessage(s) PROVE m \in DownMessage(s)'
  <2>1. m \in Message /\ m \in Message' /\ m.update \in Held
    BY <1>1 DEF DownMessage, Message
  <2>2. named[s] \in Held
    BY DEF Around, TypeOK, Held
  <2> QED
    BY <2>1, <2>2, TruthStable DEF DownMessage
<1> QED
  BY <1>2, <1>3

\* The answers that were true stay true.
LEMMA AnswersStable ==
    ASSUME Around, NEW s \in Dialer, True(s), peer'[s] = peer[s], named'[s] = named[s],
           taken'[s] = taken[s], answer'[s] = answer[s]
    PROVE  True(s)'
<1>1. cut \subseteq Signed /\ named[s] \in Held /\ taken[s] \in Held /\ Machine[s] \in Device
  BY MachineAssumption DEF Around, TypeOK, Held
<1>2. named[s] # None /\ answer[s] \in {"same", "gave"} => PeerHas(s, named[s])'
  BY <1>1, TruthStable DEF True
<1>3. answer[s] \in {"took", "forked"} => taken[s] # None /\ Has(Machine[s], taken[s])'
  BY <1>1, HasStable DEF True, Held
<1>4. answer[s] = "protocol" => taken[s] # None /\ Number(devices'[Machine[s]]) > taken[s].number
  BY <1>1, HasStable DEF True, Held
<1>5. answer[s] = "refused" => Past(s)'
  BY TruthStable DEF True
<1>6. answer[s] = "forked" =>
          conflict'[Machine[s]] # None \/ Number(devices'[Machine[s]]) > taken[s].number
  <2>1. answer[s] = "forked" => taken[s] \in Signed /\ Number(devices[Machine[s]]) >= taken[s].number
    BY <1>1 DEF True, Has, Held
  <2> QED
    BY <1>1, <2>1, HasStable DEF True
<1>7. answer[s] = "fork recorded" => Recorded(s)'
  BY TruthStable DEF True
<1> QED
  BY <1>2, <1>3, <1>4, <1>5, <1>6, <1>7 DEF True

\* A session a step leaves alone stays a session, whatever the homes learn meanwhile.
LEMMA SessionStable ==
    ASSUME Around, NEW s \in Dialer, Session(s), Still(s)
    PROVE  Session(s)'
<1>1. up'[s] \in Seq(UpMessage(s))' /\ down'[s] \in Seq(DownMessage(s))'
  BY MessagesStable DEF Session, Still
<1>2. True(s)'
  BY AnswersStable DEF Session, Still
<1>3. Place(s)'
  <2>1. mine[s] \in Held /\ cut \subseteq Signed
    BY DEF Around, TypeOK, Held
  <2> QED
    BY <2>1, HasStable DEF Session, Still, Place, Held
<1> QED
  BY <1>1, <1>2, <1>3 DEF Session

-----------------------------------------------------------------------------
(* Steps. *)

\* What a session has been told or asked is true, and so is the rest.
LEMMA Heard ==
    ASSUME NEW s \in Dialer, Session(s)
    PROVE  /\ down[s] # <<>> => Head(down[s]) \in DownMessage(s) /\ Tail(down[s]) \in Seq(DownMessage(s))
           /\ up[s] # <<>> => Head(up[s]) \in UpMessage(s) /\ Tail(up[s]) \in Seq(UpMessage(s))
BY DEF Session

\* A sequence over a set and one more member of a wider set.
LEMMA Sent ==
    ASSUME NEW S, NEW T, S \subseteq T, NEW q \in Seq(S), NEW m \in T
    PROVE  Append(q, m) \in Seq(T)
OBVIOUS

\* Types, by the part of the state they are of.
HomeTypes ==
    /\ cut \subseteq Signed
    /\ devices \in [Device -> Held]
    /\ conflict \in [Device -> Held]
    /\ revoked \in [Device -> SUBSET Entry]

AskTypes ==
    /\ at \in [Dialer -> {"idle", "named", "asked", "folding", "sent", "passing", "taking"}]
    /\ peer \in [Dialer -> Device \cup Outsider \cup {NoMachine}]
    /\ named \in [Dialer -> Held]
    /\ fork \in [Dialer -> Held]
    /\ taken \in [Dialer -> Held]
    /\ answer \in [Dialer -> Answers]

TellTypes ==
    /\ server \in [Dialer -> {"admitted", "held", "both", "sent", "forks", "ended"}]
    /\ mine \in [Dialer -> Held]
    /\ kept \in [Dialer -> Held]

WireTypes == up \in [Dialer -> Seq(Message)] /\ down \in [Dialer -> Seq(Message)]

\* The type invariant, in the parts a step changes.
LEMMA Types == TypeOK <=> HomeTypes /\ faults \in Nat /\ AskTypes /\ TellTypes /\ WireTypes
BY DEF TypeOK, HomeTypes, AskTypes, TellTypes, WireTypes, Held, Message

\* The same of the state after a step.
LEMMA TypesAfter == HomeTypes' /\ faults' \in Nat /\ AskTypes' /\ TellTypes' /\ WireTypes' => TypeOK'
BY DEF TypeOK, HomeTypes, AskTypes, TellTypes, WireTypes, Held, Message

\* A step that leaves the homes alone.
LEMMA QuietHomes ==
    ASSUME IInv, UNCHANGED homes
    PROVE  HomeTypes' /\ HeldRefused' /\ Grows /\ cut' = cut /\ Held' = Held /\ Message' = Message
<1>1. UNCHANGED <<cut, devices, conflict, revoked>>
  BY DEF homes
<1>2. HomeTypes /\ HeldRefused
  BY Types DEF IInv
<1>3. Grows
  BY <1>1, NumberType DEF Grows, IInv
<1> QED
  BY <1>1, <1>2, <1>3 DEF HomeTypes, HeldRefused, Held, Message

\* What a step that keeps to the session of s leaves true of it.
LEMMA Kept ==
    ASSUME Around, NEW s \in Dialer, Session(s), peer'[s] = peer[s], named'[s] = named[s]
    PROVE  /\ up[s] \in Seq(UpMessage(s))' /\ down[s] \in Seq(DownMessage(s))'
           /\ up[s] # <<>> => Head(up[s]) \in UpMessage(s) /\ Tail(up[s]) \in Seq(UpMessage(s))'
           /\ down[s] # <<>> => Head(down[s]) \in DownMessage(s) /\ Tail(down[s]) \in Seq(DownMessage(s))'
           /\ \A m \in UpMessage(s)' : Append(up[s], m) \in Seq(UpMessage(s))'
           /\ \A m \in DownMessage(s)' : Append(down[s], m) \in Seq(DownMessage(s))'
           /\ server[s] = "held" /\ mine[s] # None /\ mine'[s] = mine[s] => Has(peer[s], mine[s])'
<1>1. UpMessage(s) \subseteq UpMessage(s)' /\ DownMessage(s) \subseteq DownMessage(s)'
  BY MessagesStable
<1>2. up[s] \in Seq(UpMessage(s))' /\ down[s] \in Seq(DownMessage(s))'
  BY <1>1 DEF Session
<1>3. up[s] # <<>> => Head(up[s]) \in UpMessage(s) /\ Tail(up[s]) \in Seq(UpMessage(s))'
  BY <1>1, Heard
<1>4. down[s] # <<>> => Head(down[s]) \in DownMessage(s) /\ Tail(down[s]) \in Seq(DownMessage(s))'
  BY <1>1, Heard
<1>5. server[s] = "held" /\ mine[s] # None /\ mine'[s] = mine[s] => Has(peer[s], mine[s])'
  <2>1. mine[s] \in Held /\ cut \subseteq Signed
    BY DEF Around, TypeOK, Held
  <2> QED
    BY <2>1, HasStable DEF Session, Place, Held
<1> QED
  BY <1>2, <1>3, <1>4, <1>5

\* A step of one session, the others left alone.
LEMMA OneSession ==
    ASSUME IInv, TypeOK', HeldRefused', Grows, faults <= faults', NEW s \in Dialer, Session(s)',
           \A r \in Dialer \ {s} : Still(r)
    PROVE  IInv'
BY SessionStable DEF IInv, Around

\* A sequence of one.
LEMMA SeqOne ==
    ASSUME NEW S, NEW m \in S
    PROVE  <<m>> \in Seq(S)
OBVIOUS

\* What a message does to a wire.
LEMMA WireFacts ==
    ASSUME WireTypes, NEW s \in Dialer
    PROVE  /\ up[s] # <<>> => Head(up[s]) \in Message /\ Tail(up[s]) \in Seq(Message)
           /\ down[s] # <<>> => Head(down[s]) \in Message /\ Tail(down[s]) \in Seq(Message)
           /\ \A what \in Said, u \in Held :
                  /\ Say(what, u) \in Message
                  /\ Append(up[s], Say(what, u)) \in Seq(Message)
                  /\ Append(down[s], Say(what, u)) \in Seq(Message)
<1>1. up[s] \in Seq(Message) /\ down[s] \in Seq(Message)
  BY DEF WireTypes
<1>2. \A what \in Said, u \in Held : Say(what, u) \in Message
  BY DEF Say, Message
<1> QED
  BY <1>1, <1>2

\* What a fold makes of an update is true of the home it leaves.
LEMMA FoldVerdict ==
    ASSUME TypeOK, HeldRefused, NEW d \in Device, NEW u \in cut, FoldUpdate(d, u)
    PROVE  /\ Folded(d, u) \in {"newer", "same", "fork"} => Number(devices'[d]) >= u.number
                                                        /\ RefusedAt(d, u, Now) \subseteq revoked'[d]
           /\ Folded(d, u) = "fork" => conflict'[d] # None
           /\ Folded(d, u) = "not newer" => Number(devices'[d]) > u.number
           /\ Folded(d, u) \in {"newer", "same", "fork", "not newer"}
<1>1. /\ u \in Signed
      /\ devices \in [Device -> Held]
      /\ conflict \in [Device -> Held]
      /\ revoked \in [Device -> SUBSET Entry]
      /\ HeldRefused
  BY DEF TypeOK, Held
<1>2. u # None /\ u.number \in Nat /\ Number(u) = u.number /\ Number(devices[d]) \in Nat
  BY <1>1, SignedShape, NumberType
<1>3. CASE u.number < Number(devices[d])
  <2>1. Folded(d, u) = "not newer"
    BY <1>2, <1>3 DEF Folded
  <2>2. UNCHANGED devices
    BY <2>1 DEF FoldUpdate
  <2> QED
    BY <1>2, <1>3, <2>1, <2>2
<1>4. CASE u = devices[d]
  <2>1. Folded(d, u) = "same"
    BY <1>2, <1>4 DEF Folded
  <2>2. UNCHANGED <<devices, revoked>>
    BY <2>1 DEF FoldUpdate
  <2> QED
    BY <1>1, <1>2, <1>4, <2>1, <2>2 DEF HeldRefused
<1>5. CASE u.number > Number(devices[d])
  <2>1. Folded(d, u) = "newer"
    BY <1>2, <1>5 DEF Folded
  <2>2. devices' = [devices EXCEPT ![d] = u] /\ Refuse(d, u)
    BY <2>1 DEF FoldUpdate, HoldNewer
  <2> QED
    BY <1>1, <1>2, <1>5, <2>1, <2>2 DEF Refuse
<1>6. CASE u.number = Number(devices[d]) /\ u # devices[d]
  <2>1. Folded(d, u) = "fork"
    BY <1>2, <1>6 DEF Folded
  <2>2. UNCHANGED devices /\ Refuse(d, u) /\ KeepFork(d, u)
    BY <2>1 DEF FoldUpdate
  <2> QED
    BY <1>1, <1>2, <1>6, <2>1, <2>2 DEF Refuse, KeepFork
<1>7. u.number < Number(devices[d]) \/ u.number > Number(devices[d]) \/ u.number = Number(devices[d])
  BY <1>2
<1> QED
  BY <1>3, <1>4, <1>5, <1>6, <1>7

\* The dialer is turned away: nothing but its answer changes.
LEMMA NotAdmittedStep ==
    ASSUME IInv, NEW s \in Dialer, NEW p \in Device, NotAdmitted(s, p)
    PROVE  IInv'
<1>1. /\ TypeOK /\ HeldRefused /\ Session(s)
      /\ HomeTypes /\ faults \in Nat /\ AskTypes /\ TellTypes /\ WireTypes
      /\ None \in Held
  BY Types DEF IInv, Held
<1>2. HomeTypes' /\ HeldRefused' /\ Grows /\ Held' = Held /\ Message' = Message
  BY <1>1, QuietHomes DEF NotAdmitted
<1>3. AskTypes' /\ TellTypes'
  BY <1>1, <1>2 DEF NotAdmitted, tells, AskTypes, TellTypes, Answers
<1>4. WireTypes'
  BY <1>1, <1>2 DEF NotAdmitted, wires, WireTypes
<1>5. faults' \in Nat /\ faults <= faults'
  <2>1. faults' = faults
    BY DEF NotAdmitted
  <2> QED
    BY <1>1, <2>1
<1>6. TypeOK' /\ Around
  BY <1>1, <1>2, <1>3, <1>4, <1>5, TypesAfter DEF Around
<1>7. Session(s)'
  <2>1. peer'[s] = peer[s] /\ named'[s] = named[s] /\ answer'[s] = "not admitted"
    BY <1>1 DEF NotAdmitted, AskTypes
  <2>2. up'[s] \in Seq(UpMessage(s))' /\ down'[s] \in Seq(DownMessage(s))'
    BY <1>1, <1>6, <2>1, Kept DEF NotAdmitted, wires
  <2>3. True(s)'
    BY <2>1 DEF True
  <2>4. Place(s)'
    BY <1>1 DEF NotAdmitted, tells, Place
  <2> QED
    BY <2>2, <2>3, <2>4 DEF Session
<1>8. \A r \in Dialer \ {s} : Still(r)
  BY <1>1 DEF NotAdmitted, tells, wires, Still, AskTypes
<1> QED
  BY <1>2, <1>5, <1>6, <1>7, <1>8, OneSession

\* A request names an update held or cut here.
LEMMA DialStep ==
    ASSUME IInv, NEW s \in Dialer, NEW p \in Device \cup Outsider, NEW u \in Updates, Dial(s, p, u)
    PROVE  IInv'
<1>1. /\ TypeOK /\ HeldRefused /\ Session(s)
      /\ HomeTypes /\ faults \in Nat /\ AskTypes /\ TellTypes /\ WireTypes
      /\ None \in Held
  BY Types DEF IInv, Held
<1>2. u \in Held /\ <<Say("exchange", u)>> \in Seq(Message) /\ <<>> \in Seq(Message)
  <2>1. u \in Held
    BY <1>1, MachineAssumption DEF Dial, Nameable, HomeTypes, Held
  <2>2. Say("exchange", u) \in Message
    BY <2>1 DEF Say, Message, Said
  <2> QED
    BY <2>1, <2>2
<1>3. HomeTypes' /\ HeldRefused' /\ Grows /\ Held' = Held /\ Message' = Message
  BY <1>1, QuietHomes DEF Dial
<1>4. AskTypes' /\ TellTypes'
  <2>1. AskTypes'
    BY <1>1, <1>3, <1>2 DEF Dial, AskTypes, Answers
  <2>2. TellTypes'
    BY <1>1, <1>3, <1>2 DEF Dial, TellTypes
  <2> QED
    BY <2>1, <2>2
<1>5. WireTypes'
  BY <1>1, <1>3, <1>2 DEF Dial, WireTypes
<1>6. faults' \in Nat /\ faults <= faults'
  <2>1. faults' = faults \/ faults' = faults + 1
    BY DEF Dial
  <2> QED
    BY <1>1, <2>1
<1>7. TypeOK' /\ Around
  BY <1>1, <1>3, <1>4, <1>5, <1>6, TypesAfter DEF Around
<1>8. Session(s)'
  <2>1. up'[s] \in Seq(UpMessage(s))'
    BY <1>2, <1>1, <1>3 DEF Dial, UpMessage, WireTypes, AskTypes, Say
  <2>2. down'[s] \in Seq(DownMessage(s))'
    BY <1>1 DEF Dial, WireTypes
  <2>3. True(s)'
    BY <1>1 DEF Dial, True, AskTypes
  <2>4. Place(s)'
    BY <1>1 DEF Dial, Place, AskTypes
  <2> QED
    BY <2>1, <2>2, <2>3, <2>4 DEF Session
<1>9. \A r \in Dialer \ {s} : Still(r)
  BY <1>1 DEF Dial, Still
<1> QED
  BY <1>3, <1>6, <1>7, <1>8, <1>9, OneSession

\* The fork kept is read.
LEMMA ReadForkStep ==
    ASSUME IInv, NEW s \in Dialer, ReadFork(s)
    PROVE  IInv'
<1>1. /\ TypeOK /\ HeldRefused /\ Session(s)
      /\ HomeTypes /\ faults \in Nat /\ AskTypes /\ TellTypes /\ WireTypes
      /\ None \in Held
  BY Types DEF IInv, Held
<1>2. conflict[Machine[s]] \in Held
  BY <1>1, MachineAssumption DEF HomeTypes
<1>3. HomeTypes' /\ HeldRefused' /\ Grows /\ Held' = Held /\ Message' = Message
  BY <1>1, QuietHomes DEF ReadFork
<1>4. AskTypes' /\ TellTypes'
  <2>1. AskTypes'
    BY <1>1, <1>3, <1>2 DEF ReadFork, AskTypes
  <2>2. TellTypes'
    BY <1>1, <1>3, <1>2 DEF ReadFork, tells, TellTypes
  <2> QED
    BY <2>1, <2>2
<1>5. WireTypes'
  BY <1>1, <1>3, <1>2 DEF ReadFork, wires, WireTypes
<1>6. faults' \in Nat /\ faults <= faults'
  <2>1. faults' = faults \/ faults' = faults + 1
    BY DEF ReadFork
  <2> QED
    BY <1>1, <2>1
<1>7. TypeOK' /\ Around
  BY <1>1, <1>3, <1>4, <1>5, <1>6, TypesAfter DEF Around
<1>8. Session(s)'
  <2>1. peer'[s] = peer[s] /\ named'[s] = named[s]
    BY <1>1 DEF ReadFork
  <2>2. up'[s] \in Seq(UpMessage(s))'
    BY <1>1, <1>7, <2>1, Kept DEF ReadFork, wires
  <2>3. down'[s] \in Seq(DownMessage(s))'
    BY <1>1, <1>7, <2>1, Kept DEF ReadFork, wires
  <2>4. True(s)'
    BY <1>1, <1>7, <2>1, AnswersStable DEF ReadFork, Session
  <2>5. Place(s)'
    BY <1>1, <1>7, <2>1, <1>2, Kept DEF ReadFork, tells, Session, Place
  <2> QED
    BY <2>2, <2>3, <2>4, <2>5 DEF Session
<1>9. \A r \in Dialer \ {s} : Still(r)
  BY <1>1 DEF ReadFork, tells, wires, Still
<1> QED
  BY <1>3, <1>6, <1>7, <1>8, <1>9, OneSession

\* The dialer hears same.
LEMMA HearSameStep ==
    ASSUME IInv, NEW s \in Dialer, HearSame(s)
    PROVE  IInv'
<1>1. /\ TypeOK /\ HeldRefused /\ Session(s)
      /\ HomeTypes /\ faults \in Nat /\ AskTypes /\ TellTypes /\ WireTypes
      /\ None \in Held
  BY Types DEF IInv, Held
<1>2. Head(down[s]) \in DownMessage(s) /\ Told(s) \in Held
  BY <1>1, Heard DEF HearSame, Told, Hears, DownMessage, Message
<1>3. HomeTypes' /\ HeldRefused' /\ Grows /\ Held' = Held /\ Message' = Message
  BY <1>1, QuietHomes DEF HearSame
<1>4. AskTypes' /\ TellTypes'
  <2>1. AskTypes'
    BY <1>1, <1>3, <1>2 DEF HearSame, Hangs, Answered, AskTypes, Answers
  <2>2. TellTypes'
    BY <1>1, <1>3, <1>2 DEF HearSame, tells, TellTypes
  <2> QED
    BY <2>1, <2>2
<1>5. WireTypes'
  BY <1>1, <1>3, WireFacts, <1>2 DEF HearSame, Hears, Hear, WireTypes
<1>6. faults' \in Nat /\ faults <= faults'
  <2>1. faults' = faults \/ faults' = faults + 1
    BY DEF HearSame
  <2> QED
    BY <1>1, <2>1
<1>7. TypeOK' /\ Around
  BY <1>1, <1>3, <1>4, <1>5, <1>6, TypesAfter DEF Around
<1>8. Session(s)'
  <2>1. peer'[s] = peer[s] /\ named'[s] = named[s]
    BY <1>1 DEF HearSame
  <2>2. up'[s] \in Seq(UpMessage(s))'
    BY <1>1, <1>7, <2>1, Kept DEF HearSame
  <2>3. down'[s] \in Seq(DownMessage(s))'
    BY <1>1, <1>7, <2>1, Kept DEF HearSame, Hears, Hear, WireTypes
  <2>4. True(s)'
    <3>1. answer'[s] \in {"same", "not held"} /\ (answer'[s] = "same" => Told(s) = named[s])
      BY <1>1 DEF HearSame, Hangs, Answered, AskTypes
    <3>2. answer'[s] = "same" /\ named[s] # None => PeerHas(s, named[s])
      BY <1>2, <3>1 DEF HearSame, Hears, Told, DownMessage
    <3> QED
      BY <1>1, <1>7, <2>1, <3>1, <3>2, TruthStable DEF True, AskTypes
  <2>5. Place(s)'
    BY <1>1, <1>7, <2>1, <1>2, Kept DEF HearSame, Hangs, Answered, tells, Session, Place, AskTypes
  <2> QED
    BY <2>2, <2>3, <2>4, <2>5 DEF Session
<1>9. \A r \in Dialer \ {s} : Still(r)
  BY <1>1 DEF HearSame, Hear, Hangs, Answered, tells, Still, AskTypes, WireTypes
<1> QED
  BY <1>3, <1>6, <1>7, <1>8, <1>9, OneSession

\* The dialer hears mine or both.
LEMMA HearTheirsStep ==
    ASSUME IInv, NEW s \in Dialer, HearTheirs(s)
    PROVE  IInv'
<1>1. /\ TypeOK /\ HeldRefused /\ Session(s)
      /\ HomeTypes /\ faults \in Nat /\ AskTypes /\ TellTypes /\ WireTypes
      /\ None \in Held
  BY Types DEF IInv, Held
<1>2. Head(down[s]) \in DownMessage(s) /\ Told(s) \in Held
  BY <1>1, Heard DEF HearTheirs, Told, Hears, DownMessage, Message
<1>3. Append(up[s], Say("update", named[s])) \in Seq(Message) /\ (down[s] # <<>> => Tail(down[s]) \in Seq(Message))
  BY <1>1, WireFacts DEF AskTypes, Said
<1>4. /\ down[s] # <<>> /\ at[s] = "asked" /\ Told(s) # named[s] /\ Told(s) # None
      /\ at' = [at EXCEPT ![s] = "folding"]
      /\ taken' = [taken EXCEPT ![s] = Told(s)]
      /\ up' = up \/ up' = [up EXCEPT ![s] = Append(@, Say("update", named[s]))]
      /\ down' = [down EXCEPT ![s] = Tail(@)]
      /\ UNCHANGED <<homes, faults, peer, named, fork, answer, server, mine, kept>>
  BY <1>2 DEF HearTheirs, Hears, Told, Hear, Send, DownMessage, tells
<1>5. HomeTypes' /\ HeldRefused' /\ Grows /\ Held' = Held /\ Message' = Message
  BY <1>1, <1>4, QuietHomes DEF homes
<1>6. AskTypes' /\ TellTypes'
  <2>1. AskTypes'
    BY <1>1, <1>4, <1>5, <1>2, <1>3 DEF AskTypes
  <2>2. TellTypes'
    BY <1>1, <1>4, <1>5, <1>2, <1>3 DEF TellTypes
  <2> QED
    BY <2>1, <2>2
<1>7. WireTypes'
  BY <1>1, <1>4, <1>5, <1>2, <1>3 DEF WireTypes
<1>8. faults' \in Nat /\ faults <= faults'
  <2>1. faults' = faults \/ faults' = faults + 1
    BY <1>4
  <2> QED
    BY <1>1, <1>4, <2>1
<1>9. TypeOK' /\ Around
  BY <1>1, <1>4, <1>5, <1>6, <1>7, <1>8, TypesAfter DEF Around
<1>10. Session(s)'
  <2>1. peer'[s] = peer[s] /\ named'[s] = named[s]
    BY <1>1, <1>4 DEF AskTypes
  <2>2. up'[s] \in Seq(UpMessage(s))'
    <3>1. Say("update", named[s]) \in UpMessage(s)'
      BY <1>1, <1>5, <2>1 DEF Say, Said, UpMessage, Message, AskTypes
    <3> QED
      BY <1>1, <1>9, <1>4, <2>1, <3>1, Kept DEF WireTypes
  <2>3. down'[s] \in Seq(DownMessage(s))'
    BY <1>1, <1>4, <1>9, <2>1, Kept DEF WireTypes
  <2>4. True(s)'
    BY <1>1, <1>4 DEF Session, Place, True
  <2>5. Place(s)'
    BY <1>1, <1>4, <1>9, <2>1, <1>2, <1>3, Kept DEF Session, Place, AskTypes
  <2> QED
    BY <2>2, <2>3, <2>4, <2>5 DEF Session
<1>11. \A r \in Dialer \ {s} : Still(r)
  BY <1>1, <1>4 DEF Still, WireTypes
<1> QED
  BY <1>5, <1>8, <1>9, <1>10, <1>11, OneSession

\* The dialer hears send yours.
LEMMA HearSendYoursStep ==
    ASSUME IInv, NEW s \in Dialer, HearSendYours(s)
    PROVE  IInv'
<1>1. /\ TypeOK /\ HeldRefused /\ Session(s)
      /\ HomeTypes /\ faults \in Nat /\ AskTypes /\ TellTypes /\ WireTypes
      /\ None \in Held
  BY Types DEF IInv, Held
<1>2. Head(down[s]) \in DownMessage(s) /\ Told(s) \in Held
  BY <1>1, Heard DEF HearSendYours, Told, Hears, DownMessage, Message
<1>3. HomeTypes' /\ HeldRefused' /\ Grows /\ Held' = Held /\ Message' = Message
  BY <1>1, QuietHomes DEF HearSendYours
<1>4. AskTypes' /\ TellTypes'
  <2>1. AskTypes'
    BY <1>1, <1>3, <1>2 DEF HearSendYours, AskTypes
  <2>2. TellTypes'
    BY <1>1, <1>3, <1>2 DEF HearSendYours, tells, TellTypes
  <2> QED
    BY <2>1, <2>2
<1>5. WireTypes'
  BY <1>1, <1>3, WireFacts, <1>2 DEF HearSendYours, Hears, Hear, Send, WireTypes, AskTypes, Said
<1>6. faults' \in Nat /\ faults <= faults'
  <2>1. faults' = faults \/ faults' = faults + 1
    BY DEF HearSendYours
  <2> QED
    BY <1>1, <2>1
<1>7. TypeOK' /\ Around
  BY <1>1, <1>3, <1>4, <1>5, <1>6, TypesAfter DEF Around
<1>8. Session(s)'
  <2>1. peer'[s] = peer[s] /\ named'[s] = named[s]
    BY <1>1 DEF HearSendYours
  <2>2. up'[s] \in Seq(UpMessage(s))'
    BY <1>2, <1>1, <1>3, <1>7, <2>1, Kept DEF HearSendYours, Send, Say, Said, UpMessage, Message, AskTypes,
       WireTypes
  <2>3. down'[s] \in Seq(DownMessage(s))'
    BY <1>1, <1>7, <2>1, Kept DEF HearSendYours, Hears, Hear, WireTypes
  <2>4. True(s)'
    BY <1>1, <1>7, <2>1, AnswersStable DEF HearSendYours, Session
  <2>5. Place(s)'
    BY <1>1, <1>7, <2>1, <1>2, Kept DEF HearSendYours, tells, Session, Place, AskTypes
  <2> QED
    BY <2>2, <2>3, <2>4, <2>5 DEF Session
<1>9. \A r \in Dialer \ {s} : Still(r)
  BY <1>1 DEF HearSendYours, Hear, Send, tells, Still, AskTypes, WireTypes
<1> QED
  BY <1>3, <1>6, <1>7, <1>8, <1>9, OneSession

\* The dialer hears what came of its update.
LEMMA HearVerdictStep ==
    ASSUME IInv, NEW s \in Dialer, HearVerdict(s)
    PROVE  IInv'
<1>1. /\ TypeOK /\ HeldRefused /\ Session(s)
      /\ HomeTypes /\ faults \in Nat /\ AskTypes /\ TellTypes /\ WireTypes
      /\ None \in Held
  BY Types DEF IInv, Held
<1>2. Head(down[s]) \in DownMessage(s) /\ Told(s) \in Held
  BY <1>1, Heard DEF HearVerdict, Told, Hears, DownMessage, Message
<1>3. HomeTypes' /\ HeldRefused' /\ Grows /\ Held' = Held /\ Message' = Message
  BY <1>1, QuietHomes DEF HearVerdict
<1>4. AskTypes' /\ TellTypes'
  <2>1. AskTypes'
    BY <1>1, <1>3, <1>2 DEF HearVerdict, Answered, AskTypes, Answers
  <2>2. TellTypes'
    BY <1>1, <1>3, <1>2 DEF HearVerdict, tells, TellTypes
  <2> QED
    BY <2>1, <2>2
<1>5. WireTypes'
  BY <1>1, <1>3, WireFacts, <1>2 DEF HearVerdict, Hears, Hear, WireTypes
<1>6. faults' \in Nat /\ faults <= faults'
  <2>1. faults' = faults \/ faults' = faults + 1
    BY DEF HearVerdict
  <2> QED
    BY <1>1, <2>1
<1>7. TypeOK' /\ Around
  BY <1>1, <1>3, <1>4, <1>5, <1>6, TypesAfter DEF Around
<1>8. Session(s)'
  <2>1. peer'[s] = peer[s] /\ named'[s] = named[s]
    BY <1>1 DEF HearVerdict
  <2>2. up'[s] \in Seq(UpMessage(s))'
    BY <1>1, <1>7, <2>1, Kept DEF HearVerdict
  <2>3. down'[s] \in Seq(DownMessage(s))'
    BY <1>1, <1>7, <2>1, Kept DEF HearVerdict, Hears, Hear, WireTypes
  <2>4. True(s)'
    <3>1. /\ answer'[s] \in {"gave", "refused", "fork recorded"}
          /\ answer'[s] = "gave" => Head(down[s]).say = "folded"
          /\ answer'[s] = "refused" => Head(down[s]).say = "refused"
          /\ answer'[s] = "fork recorded" => Head(down[s]).say = "fork recorded"
      BY <1>1 DEF HearVerdict, Hears, Answered, AskTypes
    <3>2. /\ answer'[s] = "gave" => PeerHas(s, named[s])
          /\ answer'[s] = "refused" => Past(s)
          /\ answer'[s] = "fork recorded" => Recorded(s)
      BY <1>2, <3>1 DEF DownMessage
    <3> QED
      BY <1>1, <1>7, <2>1, <3>1, <3>2, TruthStable DEF True, AskTypes
  <2>5. Place(s)'
    BY <1>1, <1>7, <2>1, <1>2, Kept DEF HearVerdict, Answered, tells, Session, Place, AskTypes
  <2> QED
    BY <2>2, <2>3, <2>4, <2>5 DEF Session
<1>9. \A r \in Dialer \ {s} : Still(r)
  BY <1>1 DEF HearVerdict, Hear, Answered, tells, Still, AskTypes, WireTypes
<1> QED
  BY <1>3, <1>6, <1>7, <1>8, <1>9, OneSession

\* The dialer passes on the fork it kept.
LEMMA PassForkStep ==
    ASSUME IInv, NEW s \in Dialer, PassFork(s)
    PROVE  IInv'
<1>1. /\ TypeOK /\ HeldRefused /\ Session(s)
      /\ HomeTypes /\ faults \in Nat /\ AskTypes /\ TellTypes /\ WireTypes
      /\ None \in Held
  BY Types DEF IInv, Held
<1>2. HomeTypes' /\ HeldRefused' /\ Grows /\ Held' = Held /\ Message' = Message
  BY <1>1, QuietHomes DEF PassFork
<1>3. AskTypes' /\ TellTypes'
  <2>1. AskTypes'
    BY <1>1, <1>2 DEF PassFork, AskTypes
  <2>2. TellTypes'
    BY <1>1, <1>2 DEF PassFork, tells, TellTypes
  <2> QED
    BY <2>1, <2>2
<1>4. WireTypes'
  BY <1>1, <1>2, WireFacts DEF PassFork, Send, WireTypes, AskTypes, Said
<1>5. faults' \in Nat /\ faults <= faults'
  <2>1. faults' = faults \/ faults' = faults + 1
    BY DEF PassFork
  <2> QED
    BY <1>1, <2>1
<1>6. TypeOK' /\ Around
  BY <1>1, <1>2, <1>3, <1>4, <1>5, TypesAfter DEF Around
<1>7. Session(s)'
  <2>1. peer'[s] = peer[s] /\ named'[s] = named[s]
    BY <1>1 DEF PassFork
  <2>2. up'[s] \in Seq(UpMessage(s))'
    BY <1>1, <1>2, <1>6, <2>1, Kept DEF PassFork, Send, Say, Said, UpMessage, Message, AskTypes, WireTypes
  <2>3. down'[s] \in Seq(DownMessage(s))'
    BY <1>1, <1>6, <2>1, Kept DEF PassFork
  <2>4. True(s)'
    BY <1>1, <1>6, <2>1, AnswersStable DEF PassFork, Session
  <2>5. Place(s)'
    BY <1>1, <1>6, <2>1, Kept DEF PassFork, tells, Session, Place
  <2> QED
    BY <2>2, <2>3, <2>4, <2>5 DEF Session
<1>8. \A r \in Dialer \ {s} : Still(r)
  BY <1>1 DEF PassFork, Send, tells, Still
<1> QED
  BY <1>2, <1>5, <1>6, <1>7, <1>8, OneSession

\* The dialer has nothing left to read.
LEMMA DialerEndsStep ==
    ASSUME IInv, NEW s \in Dialer, DialerEnds(s)
    PROVE  IInv'
<1>1. /\ TypeOK /\ HeldRefused /\ Session(s)
      /\ HomeTypes /\ faults \in Nat /\ AskTypes /\ TellTypes /\ WireTypes
      /\ None \in Held
  BY Types DEF IInv, Held
<1>2. HomeTypes' /\ HeldRefused' /\ Grows /\ Held' = Held /\ Message' = Message
  BY <1>1, QuietHomes DEF DialerEnds
<1>3. AskTypes' /\ TellTypes'
  <2>1. AskTypes'
    BY <1>1, <1>2 DEF DialerEnds, AskTypes
  <2>2. TellTypes'
    BY <1>1, <1>2 DEF DialerEnds, tells, TellTypes
  <2> QED
    BY <2>1, <2>2
<1>4. WireTypes'
  BY <1>1, <1>2 DEF DialerEnds, wires, WireTypes
<1>5. faults' \in Nat /\ faults <= faults'
  <2>1. faults' = faults \/ faults' = faults + 1
    BY DEF DialerEnds
  <2> QED
    BY <1>1, <2>1
<1>6. TypeOK' /\ Around
  BY <1>1, <1>2, <1>3, <1>4, <1>5, TypesAfter DEF Around
<1>7. Session(s)'
  <2>1. peer'[s] = peer[s] /\ named'[s] = named[s]
    BY <1>1 DEF DialerEnds
  <2>2. up'[s] \in Seq(UpMessage(s))'
    BY <1>1, <1>6, <2>1, Kept DEF DialerEnds, wires
  <2>3. down'[s] \in Seq(DownMessage(s))'
    BY <1>1, <1>6, <2>1 DEF DialerEnds, wires, WireTypes
  <2>4. True(s)'
    BY <1>1, <1>6, <2>1, AnswersStable DEF DialerEnds, Session
  <2>5. Place(s)'
    BY <1>1, <1>6, <2>1 DEF DialerEnds, tells, Session, Place
  <2> QED
    BY <2>2, <2>3, <2>4, <2>5 DEF Session
<1>8. \A r \in Dialer \ {s} : Still(r)
  BY <1>1 DEF DialerEnds, tells, wires, Still
<1> QED
  BY <1>2, <1>5, <1>6, <1>7, <1>8, OneSession

\* The dialer stops.
LEMMA DialerStopsStep ==
    ASSUME IInv, NEW s \in Dialer, DialerStops(s)
    PROVE  IInv'
<1>1. /\ TypeOK /\ HeldRefused /\ Session(s)
      /\ HomeTypes /\ faults \in Nat /\ AskTypes /\ TellTypes /\ WireTypes
      /\ None \in Held
  BY Types DEF IInv, Held
<1>2. HomeTypes' /\ HeldRefused' /\ Grows /\ Held' = Held /\ Message' = Message
  BY <1>1, QuietHomes DEF DialerStops
<1>3. AskTypes' /\ TellTypes'
  <2>1. AskTypes'
    BY <1>1, <1>2 DEF DialerStops, AskTypes
  <2>2. TellTypes'
    BY <1>1, <1>2 DEF DialerStops, tells, TellTypes
  <2> QED
    BY <2>1, <2>2
<1>4. WireTypes'
  BY <1>1, <1>2 DEF DialerStops, wires, WireTypes
<1>5. faults' \in Nat /\ faults <= faults'
  <2>1. faults' = faults \/ faults' = faults + 1
    BY DEF DialerStops
  <2> QED
    BY <1>1, <2>1
<1>6. TypeOK' /\ Around
  BY <1>1, <1>2, <1>3, <1>4, <1>5, TypesAfter DEF Around
<1>7. Session(s)'
  <2>1. peer'[s] = peer[s] /\ named'[s] = named[s]
    BY <1>1 DEF DialerStops
  <2>2. up'[s] \in Seq(UpMessage(s))'
    BY <1>1, <1>6, <2>1, Kept DEF DialerStops, wires
  <2>3. down'[s] \in Seq(DownMessage(s))'
    BY <1>1, <1>6, <2>1, Kept DEF DialerStops, wires
  <2>4. True(s)'
    BY <1>1, <1>6, <2>1, AnswersStable DEF DialerStops, Session
  <2>5. Place(s)'
    BY <1>1, <1>6, <2>1, Kept DEF DialerStops, tells, Session, Place
  <2> QED
    BY <2>2, <2>3, <2>4, <2>5 DEF Session
<1>8. \A r \in Dialer \ {s} : Still(r)
  BY <1>1 DEF DialerStops, tells, wires, Still
<1> QED
  BY <1>2, <1>5, <1>6, <1>7, <1>8, OneSession

\* The dialer folds what it was sent.
LEMMA FoldTakenStep ==
    ASSUME IInv, NEW s \in Dialer, FoldTaken(s)
    PROVE  IInv'
<1>1. /\ TypeOK /\ HeldRefused /\ Session(s)
      /\ HomeTypes /\ faults \in Nat /\ AskTypes /\ TellTypes /\ WireTypes
      /\ None \in Held
  BY Types DEF IInv, Held
<1>2. Machine[s] \in Device /\ taken[s] \in cut /\ FoldUpdate(Machine[s], taken[s])
      /\ Took(Machine[s], taken[s]) \in {"forked", "protocol", "took"}
  BY <1>1, MachineAssumption DEF FoldTaken, Session, Place, AskTypes, Held, Took
<1>3. HomeTypes' /\ HeldRefused' /\ Grows /\ Held' = Held /\ Message' = Message
  <2>1. /\ cut' = cut
        /\ devices' \in [Device -> Held] /\ conflict' \in [Device -> Held]
        /\ revoked' \in [Device -> SUBSET Entry]
        /\ HeldRefused' /\ Grows
    BY <1>2, <1>1, FoldHomes DEF FoldTaken
  <2>2. Held' = Held /\ Message' = Message
    BY <2>1 DEF Held, Message
  <2> QED
    BY <1>1, <2>1, <2>2 DEF HomeTypes
<1>4. AskTypes' /\ TellTypes'
  <2>1. AskTypes'
    BY <1>1, <1>3, <1>2 DEF FoldTaken, AskTypes, Answers
  <2>2. TellTypes'
    BY <1>1, <1>3, <1>2 DEF FoldTaken, tells, TellTypes
  <2> QED
    BY <2>1, <2>2
<1>5. WireTypes'
  BY <1>1, <1>3, <1>2 DEF FoldTaken, wires, WireTypes
<1>6. faults' \in Nat /\ faults <= faults'
  <2>1. faults' = faults \/ faults' = faults + 1
    BY DEF FoldTaken
  <2> QED
    BY <1>1, <2>1
<1>7. TypeOK' /\ Around
  BY <1>1, <1>3, <1>4, <1>5, <1>6, TypesAfter DEF Around
<1>8. Session(s)'
  <2>1. peer'[s] = peer[s] /\ named'[s] = named[s]
    BY <1>1 DEF FoldTaken
  <2>2. up'[s] \in Seq(UpMessage(s))'
    BY <1>1, <1>7, <2>1, Kept DEF FoldTaken, wires
  <2>3. down'[s] \in Seq(DownMessage(s))'
    BY <1>1, <1>7, <2>1, Kept DEF FoldTaken, wires
  <2>4. True(s)'
    <3>1. taken'[s] = taken[s] /\ answer'[s] = Took(Machine[s], taken[s])
      BY <1>1 DEF FoldTaken, AskTypes
    <3>2. /\ answer'[s] \in {"took", "forked"} => Has(Machine[s], taken[s])'
          /\ answer'[s] = "protocol" => Number(devices'[Machine[s]]) > taken[s].number
          /\ answer'[s] = "forked" => conflict'[Machine[s]] # None
      BY <1>2, <1>1, <3>1, FoldVerdict DEF Took, Has
    <3>3. taken[s] # None
      BY <1>1 DEF FoldTaken, Session, Place
    <3> QED
      BY <1>2, <3>1, <3>2, <3>3 DEF True
  <2>5. Place(s)'
    BY <1>1, <1>7, <2>1, <1>2, Kept DEF FoldTaken, tells, Session, Place, AskTypes
  <2> QED
    BY <2>2, <2>3, <2>4, <2>5 DEF Session
<1>9. \A r \in Dialer \ {s} : Still(r)
  BY <1>1 DEF FoldTaken, tells, wires, Still
<1> QED
  BY <1>3, <1>6, <1>7, <1>8, <1>9, OneSession

\* The dialer takes the fork passed to it.
LEMMA TakeTheirForkStep ==
    ASSUME IInv, NEW s \in Dialer, TakeTheirFork(s)
    PROVE  IInv'
<1>1. /\ TypeOK /\ HeldRefused /\ Session(s)
      /\ HomeTypes /\ faults \in Nat /\ AskTypes /\ TellTypes /\ WireTypes
      /\ None \in Held
  BY Types DEF IInv, Held
<1>2. Head(down[s]) \in DownMessage(s) /\ Told(s) \in Held
  BY <1>1, Heard DEF TakeTheirFork, Told, Hears, DownMessage, Message
<1>3. Machine[s] \in Device /\ TakeFork(Machine[s], Told(s))
  BY MachineAssumption DEF TakeTheirFork
<1>4. HomeTypes' /\ HeldRefused' /\ Grows /\ Held' = Held /\ Message' = Message
  <2>1. /\ cut' = cut
        /\ devices' \in [Device -> Held] /\ conflict' \in [Device -> Held]
        /\ revoked' \in [Device -> SUBSET Entry]
        /\ HeldRefused' /\ Grows
    BY <1>2, <1>1, <1>3, TakeHomes
  <2>2. Held' = Held /\ Message' = Message
    BY <2>1 DEF Held, Message
  <2> QED
    BY <1>1, <2>1, <2>2 DEF HomeTypes
<1>5. AskTypes' /\ TellTypes'
  <2>1. AskTypes'
    BY <1>1, <1>4, <1>2 DEF TakeTheirFork, AskTypes
  <2>2. TellTypes'
    BY <1>1, <1>4, <1>2 DEF TakeTheirFork, tells, TellTypes
  <2> QED
    BY <2>1, <2>2
<1>6. WireTypes'
  BY <1>1, <1>4, <1>2 DEF TakeTheirFork, Hears, Hear, WireTypes
<1>7. faults' \in Nat /\ faults <= faults'
  <2>1. faults' = faults \/ faults' = faults + 1
    BY DEF TakeTheirFork
  <2> QED
    BY <1>1, <2>1
<1>8. TypeOK' /\ Around
  BY <1>1, <1>4, <1>5, <1>6, <1>7, TypesAfter DEF Around
<1>9. Session(s)'
  <2>1. peer'[s] = peer[s] /\ named'[s] = named[s]
    BY <1>1 DEF TakeTheirFork
  <2>2. up'[s] \in Seq(UpMessage(s))'
    BY <1>1, <1>8, <2>1, Kept DEF TakeTheirFork
  <2>3. down'[s] \in Seq(DownMessage(s))'
    BY <1>1, <1>8, <2>1, Kept DEF TakeTheirFork, Hears, Hear
  <2>4. True(s)'
    BY <1>1, <1>8, <2>1, AnswersStable DEF TakeTheirFork, Session
  <2>5. Place(s)'
    BY <1>1, <1>8, <2>1, <1>2, Kept DEF TakeTheirFork, tells, Session, Place
  <2> QED
    BY <2>2, <2>3, <2>4, <2>5 DEF Session
<1>10. \A r \in Dialer \ {s} : Still(r)
  BY <1>1 DEF TakeTheirFork, Hear, tells, Still
<1> QED
  BY <1>4, <1>7, <1>8, <1>9, <1>10, OneSession

\* The server reads what it holds.
LEMMA ReadHeldStep ==
    ASSUME IInv, NEW s \in Dialer, ReadHeld(s)
    PROVE  IInv'
<1>1. /\ TypeOK /\ HeldRefused /\ Session(s)
      /\ HomeTypes /\ faults \in Nat /\ AskTypes /\ TellTypes /\ WireTypes
      /\ None \in Held
  BY Types DEF IInv, Held
<1>2. peer[s] \in Device => devices[peer[s]] \in Held /\ (devices[peer[s]] # None => Has(peer[s], devices[peer[s]]))
  <2>1. ASSUME peer[s] \in Device, devices[peer[s]] # None PROVE Has(peer[s], devices[peer[s]])
    BY <1>1, <2>1, SignedShape DEF HeldRefused, Has, HomeTypes, Held
  <2> QED
    BY <1>1, <2>1 DEF HomeTypes
<1>3. peer[s] \in Device \cup Outsider /\ Append(down[s], Say("same", None)) \in Seq(Message)
  BY <1>1, WireFacts DEF ReadHeld, Session, Place, Said
<1>4. HomeTypes' /\ HeldRefused' /\ Grows /\ Held' = Held /\ Message' = Message
  BY <1>1, QuietHomes DEF ReadHeld
<1>5. AskTypes' /\ TellTypes'
  <2>1. AskTypes'
    BY <1>1, <1>4, <1>2, <1>3 DEF ReadHeld, asks, AskTypes
  <2>2. TellTypes'
    BY <1>1, <1>4, <1>2, <1>3 DEF ReadHeld, Serve, TellTypes
  <2> QED
    BY <2>1, <2>2
<1>6. WireTypes'
  BY <1>1, <1>4, <1>2, <1>3 DEF ReadHeld, Send, WireTypes
<1>7. faults' \in Nat /\ faults <= faults'
  <2>1. faults' = faults \/ faults' = faults + 1
    BY DEF ReadHeld
  <2> QED
    BY <1>1, <2>1
<1>8. TypeOK' /\ Around
  BY <1>1, <1>4, <1>5, <1>6, <1>7, TypesAfter DEF Around
<1>9. Session(s)'
  <2>1. peer'[s] = peer[s] /\ named'[s] = named[s]
    BY <1>1 DEF ReadHeld, asks
  <2>2. up'[s] \in Seq(UpMessage(s))'
    BY <1>1, <1>8, <2>1, Kept DEF ReadHeld
  <2>3. down'[s] \in Seq(DownMessage(s))'
    <3>1. Say("same", None) \in DownMessage(s)'
      BY <1>1, <1>4 DEF Say, Said, DownMessage, Message
    <3> QED
      BY <1>1, <1>8, <2>1, <3>1, Kept DEF ReadHeld, Send, WireTypes
  <2>4. True(s)'
    BY <1>1, <1>8, <2>1, AnswersStable DEF ReadHeld, asks, Session
  <2>5. Place(s)'
    <3>1. CASE peer[s] \in Outsider
      BY <1>1, <3>1 DEF ReadHeld, Serve, asks, Session, Place, TellTypes
    <3>2. CASE peer[s] \notin Outsider
      <4>1. /\ peer[s] \in Device /\ mine'[s] = devices[peer[s]] /\ server'[s] = "held"
            /\ UNCHANGED <<devices, revoked, at, answer, taken, peer, named>>
        BY <1>1, <1>3, <3>2 DEF ReadHeld, Serve, asks, homes, TellTypes
      <4>2. devices[peer[s]] # None => Has(peer[s], devices[peer[s]])
        BY <1>2, <4>1
      <4> QED
        BY <1>1, <4>1, <4>2 DEF Session, Place, Has
    <3> QED
      BY <3>1, <3>2
  <2> QED
    BY <2>2, <2>3, <2>4, <2>5 DEF Session
<1>10. \A r \in Dialer \ {s} : Still(r)
  BY <1>1 DEF ReadHeld, Send, Serve, asks, Still, TellTypes, WireTypes
<1> QED
  BY <1>4, <1>7, <1>8, <1>9, <1>10, OneSession

\* The server answers with what it found.
LEMMA CompareStep ==
    ASSUME IInv, NEW s \in Dialer, Compare(s)
    PROVE  IInv'
<1>1. /\ TypeOK /\ HeldRefused /\ Session(s)
      /\ HomeTypes /\ faults \in Nat /\ AskTypes /\ TellTypes /\ WireTypes
      /\ None \in Held
  BY Types DEF IInv, Held
<1>2. /\ Head(up[s]) \in UpMessage(s) /\ Asked(s) \in Held
      /\ Head(up[s]).say \in {"exchange", "update"} => Asked(s) = named[s]
  BY <1>1, Heard DEF Compare, Asked, Asks, UpMessage, Message
<1>3. /\ peer[s] \in Device /\ conflict[peer[s]] \in Held /\ mine[s] \in Held
      /\ Reply(named[s], mine[s]) \in {"same", "mine", "both", "send yours"}
      /\ Reply(named[s], mine[s]) \in {"both", "send yours"} => named[s] # None
      /\ Reply(named[s], mine[s]) \in {"mine", "both"} => mine[s] # None /\ mine[s] # named[s]
  <2>1. peer[s] \in Device
    BY <1>1 DEF Compare, Session, Place
  <2>2. mine[s] \in Held /\ named[s] \in Held /\ conflict[peer[s]] \in Held
    BY <1>1, <2>1 DEF TellTypes, AskTypes, HomeTypes
  <2>3. \A u \in Held : Number(u) \in Nat /\ (Number(u) = 0 <=> u = None)
    BY <1>1, SignedShape DEF Number, Held, HomeTypes
  <2> QED
    BY <2>1, <2>2, <2>3 DEF Reply
<1>4. /\ up' = [up EXCEPT ![s] = Tail(@)] /\ Tail(up[s]) \in Seq(Message)
      /\ Append(down[s], Say(Reply(named[s], mine[s]), mine[s])) \in Seq(Message)
      /\ down' = [down EXCEPT ![s] = Append(@, Say(Reply(named[s], mine[s]), mine[s]))]
      /\ server' \in [Dialer -> {"both", "sent", "ended", "forks"} \cup {"admitted", "held"}]
      /\ server'[s] \in {"both", "sent", "ended", "forks"}
      /\ server'[s] \in {"both", "sent"} => named[s] # None
      /\ \A r \in Dialer \ {s} : server'[r] = server[r]
  <2> DEFINE reply == Reply(named[s], mine[s])
  <2>1. Asked(s) = named[s]
    BY <1>2 DEF Compare, Asks
  <2>2. down' = Send(down, s, reply, mine[s])
    BY <2>1 DEF Compare
  <2>3. PICK place : /\ Serve(s, place)
                     /\ place \in {"both", "sent", "ended", "forks"}
                     /\ place \in {"both", "sent"} => reply \in {"both", "send yours"}
    <3>1. CASE reply = "both"
      BY <2>1, <3>1 DEF Compare
    <3>2. CASE reply = "send yours"
      BY <2>1, <3>2 DEF Compare
    <3>3. CASE reply = "same" /\ mine[s] = None
      BY <2>1, <3>3 DEF Compare
    <3>4. CASE reply = "same" /\ mine[s] # None
      BY <2>1, <3>4 DEF Compare
    <3>5. CASE reply = "mine"
      BY <2>1, <3>5 DEF Compare
    <3> QED
      BY <1>3, <3>1, <3>2, <3>3, <3>4, <3>5
  <2>4. Append(down[s], Say(reply, mine[s])) \in Seq(Message)
    BY <1>1, <1>3, WireFacts DEF Said
  <2>5. up' = [up EXCEPT ![s] = Tail(@)] /\ Tail(up[s]) \in Seq(Message)
    BY <1>1, WireFacts DEF Compare, Asks, Read
  <2> QED
    BY <1>1, <1>3, <2>2, <2>3, <2>4, <2>5 DEF Send, Serve, TellTypes
<1>5. HomeTypes' /\ HeldRefused' /\ Grows /\ Held' = Held /\ Message' = Message
  BY <1>1, QuietHomes DEF Compare
<1>6. AskTypes' /\ TellTypes'
  <2>1. AskTypes'
    BY <1>1, <1>5, <1>2, <1>3, <1>4 DEF Compare, asks, AskTypes
  <2>2. TellTypes'
    BY <1>1, <1>5, <1>2, <1>3, <1>4 DEF Compare, TellTypes
  <2> QED
    BY <2>1, <2>2
<1>7. WireTypes'
  BY <1>1, <1>5, <1>4 DEF WireTypes
<1>8. faults' \in Nat /\ faults <= faults'
  <2>1. faults' = faults \/ faults' = faults + 1
    BY DEF Compare
  <2> QED
    BY <1>1, <2>1
<1>9. TypeOK' /\ Around
  BY <1>1, <1>5, <1>6, <1>7, <1>8, TypesAfter DEF Around
<1>10. Session(s)'
  <2>1. peer'[s] = peer[s] /\ named'[s] = named[s]
    BY <1>1 DEF Compare, asks
  <2>2. up'[s] \in Seq(UpMessage(s))'
    BY <1>1, <1>9, <2>1, Kept DEF Compare, Asks, Read, WireTypes
  <2>3. down'[s] \in Seq(DownMessage(s))'
    <3>1. Say(Reply(named[s], mine[s]), mine[s]) \in Message'
      BY <1>5, <1>3 DEF Say, Said, Message
    <3>2. mine[s] # None => PeerHas(s, mine[s])
      BY <1>1, <1>3 DEF Compare, Session, Place, PeerHas
    <3>3. Say(Reply(named[s], mine[s]), mine[s]) \in DownMessage(s)'
      BY <1>9, <1>3, <2>1, <3>1, <3>2, TruthStable DEF Say, DownMessage
    <3> QED
      BY <1>1, <1>9, <1>4, <2>1, <3>3, Kept DEF WireTypes
  <2>4. True(s)'
    BY <1>1, <1>9, <2>1, AnswersStable DEF Compare, asks, Session
  <2>5. Place(s)'
    BY <1>1, <1>3, <1>4, <2>1 DEF Compare, Session, Place, asks
  <2> QED
    BY <2>2, <2>3, <2>4, <2>5 DEF Session
<1>11. \A r \in Dialer \ {s} : Still(r)
  BY <1>1 DEF Compare, Send, Read, Serve, asks, Still, TellTypes, WireTypes
<1> QED
  BY <1>5, <1>8, <1>9, <1>10, <1>11, OneSession

\* The server folds the other side of a fork.
LEMMA FoldTheirsStep ==
    ASSUME IInv, NEW s \in Dialer, FoldTheirs(s)
    PROVE  IInv'
<1>1. /\ TypeOK /\ HeldRefused /\ Session(s)
      /\ HomeTypes /\ faults \in Nat /\ AskTypes /\ TellTypes /\ WireTypes
      /\ None \in Held
  BY Types DEF IInv, Held
<1>2. /\ Head(up[s]) \in UpMessage(s) /\ Asked(s) \in Held
      /\ Head(up[s]).say \in {"exchange", "update"} => Asked(s) = named[s]
  BY <1>1, Heard DEF FoldTheirs, Asked, Asks, UpMessage, Message
<1>3. peer[s] \in Device /\ Asked(s) \in cut /\ Asked(s) = named[s] /\ FoldUpdate(peer[s], Asked(s))
  <2>1. named[s] # None /\ peer[s] \in Device
    BY <1>1 DEF FoldTheirs, Session, Place
  <2>2. Asked(s) = named[s]
    BY <1>2 DEF FoldTheirs, Asks
  <2> QED
    BY <1>2, <2>1, <2>2 DEF FoldTheirs, Held
<1>4. HomeTypes' /\ HeldRefused' /\ Grows /\ Held' = Held /\ Message' = Message
  <2>1. /\ cut' = cut
        /\ devices' \in [Device -> Held] /\ conflict' \in [Device -> Held]
        /\ revoked' \in [Device -> SUBSET Entry]
        /\ HeldRefused' /\ Grows
    BY <1>1, <1>3, FoldHomes DEF FoldTheirs
  <2>2. Held' = Held /\ Message' = Message
    BY <2>1 DEF Held, Message
  <2> QED
    BY <1>1, <2>1, <2>2 DEF HomeTypes
<1>5. AskTypes' /\ TellTypes'
  <2>1. AskTypes'
    BY <1>1, <1>4, <1>2 DEF FoldTheirs, asks, AskTypes
  <2>2. TellTypes'
    BY <1>1, <1>4, <1>2 DEF FoldTheirs, Serve, TellTypes
  <2> QED
    BY <2>1, <2>2
<1>6. WireTypes'
  BY <1>1, <1>4, <1>2 DEF FoldTheirs, Asks, Read, WireTypes
<1>7. faults' \in Nat /\ faults <= faults'
  <2>1. faults' = faults \/ faults' = faults + 1
    BY DEF FoldTheirs
  <2> QED
    BY <1>1, <2>1
<1>8. TypeOK' /\ Around
  BY <1>1, <1>4, <1>5, <1>6, <1>7, TypesAfter DEF Around
<1>9. Session(s)'
  <2>1. peer'[s] = peer[s] /\ named'[s] = named[s]
    BY <1>1 DEF FoldTheirs, asks
  <2>2. up'[s] \in Seq(UpMessage(s))'
    BY <1>1, <1>8, <2>1, Kept DEF FoldTheirs, Asks, Read
  <2>3. down'[s] \in Seq(DownMessage(s))'
    BY <1>1, <1>8, <2>1, Kept DEF FoldTheirs
  <2>4. True(s)'
    BY <1>1, <1>8, <2>1, AnswersStable DEF FoldTheirs, asks, Session
  <2>5. Place(s)'
    BY <1>1, <1>8, <2>1, <1>2 DEF FoldTheirs, Serve, asks, Session, Place
  <2> QED
    BY <2>2, <2>3, <2>4, <2>5 DEF Session
<1>10. \A r \in Dialer \ {s} : Still(r)
  BY <1>1 DEF FoldTheirs, Read, Serve, asks, Still
<1> QED
  BY <1>4, <1>7, <1>8, <1>9, <1>10, OneSession

\* The server folds what it asked for and says what came of it.
LEMMA FoldGivenStep ==
    ASSUME IInv, NEW s \in Dialer, FoldGiven(s)
    PROVE  IInv'
<1>1. /\ TypeOK /\ HeldRefused /\ Session(s)
      /\ HomeTypes /\ faults \in Nat /\ AskTypes /\ TellTypes /\ WireTypes
      /\ None \in Held
  BY Types DEF IInv, Held
<1>2. /\ Head(up[s]) \in UpMessage(s) /\ Asked(s) \in Held
      /\ Head(up[s]).say \in {"exchange", "update"} => Asked(s) = named[s]
  BY <1>1, Heard DEF FoldGiven, Asked, Asks, UpMessage, Message
<1>3. peer[s] \in Device /\ Asked(s) \in cut /\ Asked(s) = named[s] /\ FoldUpdate(peer[s], Asked(s))
  <2>1. named[s] # None /\ peer[s] \in Device
    BY <1>1 DEF FoldGiven, Session, Place
  <2>2. Asked(s) = named[s]
    BY <1>2 DEF FoldGiven, Asks
  <2> QED
    BY <1>2, <2>1, <2>2 DEF FoldGiven, Held
<1>4. devices[peer[s]] \in Held /\ Verdict(peer[s], Asked(s)) \in {"fork recorded", "refused", "folded"}
  BY <1>1, <1>3 DEF HomeTypes, Verdict
<1>5. HomeTypes' /\ HeldRefused' /\ Grows /\ Held' = Held /\ Message' = Message
  <2>1. /\ cut' = cut
        /\ devices' \in [Device -> Held] /\ conflict' \in [Device -> Held]
        /\ revoked' \in [Device -> SUBSET Entry]
        /\ HeldRefused' /\ Grows
    BY <1>1, <1>3, FoldHomes DEF FoldGiven
  <2>2. Held' = Held /\ Message' = Message
    BY <2>1 DEF Held, Message
  <2> QED
    BY <1>1, <2>1, <2>2 DEF HomeTypes
<1>6. AskTypes' /\ TellTypes'
  <2>1. AskTypes'
    BY <1>1, <1>5, <1>2, <1>3, <1>4 DEF FoldGiven, asks, AskTypes
  <2>2. TellTypes'
    BY <1>1, <1>5, <1>2, <1>3, <1>4 DEF FoldGiven, Serve, TellTypes
  <2> QED
    BY <2>1, <2>2
<1>7. WireTypes'
  BY <1>1, <1>5, WireFacts, <1>2, <1>3, <1>4 DEF FoldGiven, Asks, Read, Send, WireTypes, Said
<1>8. faults' \in Nat /\ faults <= faults'
  <2>1. faults' = faults \/ faults' = faults + 1
    BY DEF FoldGiven
  <2> QED
    BY <1>1, <2>1
<1>9. TypeOK' /\ Around
  BY <1>1, <1>5, <1>6, <1>7, <1>8, TypesAfter DEF Around
<1>10. Session(s)'
  <2>1. peer'[s] = peer[s] /\ named'[s] = named[s]
    BY <1>1 DEF FoldGiven, asks
  <2>2. up'[s] \in Seq(UpMessage(s))'
    BY <1>1, <1>9, <2>1, Kept DEF FoldGiven, Asks, Read
  <2>3. down'[s] \in Seq(DownMessage(s))'
    <3> DEFINE p == peer[s]
                u == named[s]
    <3>1. Say(Verdict(p, u), devices[p]) \in Message'
      BY <1>5, <1>3, <1>4 DEF Say, Said, Message
    <3>2. u # None /\ p \in Device /\ peer'[s] = p /\ named'[s] = u
      BY <1>1, <1>3, <2>1, SignedShape DEF HomeTypes
    <3>3. /\ Verdict(p, u) = "folded" => PeerHas(s, u)'
          /\ Verdict(p, u) = "fork recorded" => Recorded(s)'
          /\ Verdict(p, u) = "refused" => Past(s)'
      BY <1>1, <1>3, <3>2, FoldVerdict DEF Verdict, PeerHas, Has, Recorded, Past
    <3>4. Say(Verdict(p, u), devices[p]) \in DownMessage(s)'
      BY <1>3, <1>4, <3>1, <3>2, <3>3 DEF Say, DownMessage
    <3>5. down' = [down EXCEPT ![s] = Append(@, Say(Verdict(p, u), devices[p]))]
      BY <1>3 DEF FoldGiven, Send
    <3> QED
      BY <1>1, <1>9, <2>1, <3>4, <3>5, Kept DEF WireTypes
  <2>4. True(s)'
    BY <1>1, <1>9, <2>1, AnswersStable DEF FoldGiven, asks, Session
  <2>5. Place(s)'
    BY <1>1, <1>9, <2>1, <1>2, <1>3, <1>4 DEF FoldGiven, Serve, asks, Session, Place, TellTypes
  <2> QED
    BY <2>2, <2>3, <2>4, <2>5 DEF Session
<1>11. \A r \in Dialer \ {s} : Still(r)
  BY <1>1 DEF FoldGiven, Read, Send, Serve, asks, Still
<1> QED
  BY <1>5, <1>8, <1>9, <1>10, <1>11, OneSession

\* A fold fails on the server.
LEMMA FoldFailsStep ==
    ASSUME IInv, NEW s \in Dialer, FoldFails(s)
    PROVE  IInv'
<1>1. /\ TypeOK /\ HeldRefused /\ Session(s)
      /\ HomeTypes /\ faults \in Nat /\ AskTypes /\ TellTypes /\ WireTypes
      /\ None \in Held
  BY Types DEF IInv, Held
<1>2. /\ Head(up[s]) \in UpMessage(s) /\ Asked(s) \in Held
      /\ Head(up[s]).say \in {"exchange", "update"} => Asked(s) = named[s]
  BY <1>1, Heard DEF FoldFails, Asked, Asks, UpMessage, Message
<1>3. HomeTypes' /\ HeldRefused' /\ Grows /\ Held' = Held /\ Message' = Message
  BY <1>1, QuietHomes DEF FoldFails
<1>4. AskTypes' /\ TellTypes'
  <2>1. AskTypes'
    BY <1>1, <1>3, <1>2 DEF FoldFails, asks, AskTypes
  <2>2. TellTypes'
    BY <1>1, <1>3, <1>2 DEF FoldFails, Serve, TellTypes
  <2> QED
    BY <2>1, <2>2
<1>5. WireTypes'
  BY <1>1, <1>3, WireFacts, <1>2 DEF FoldFails, Asks, Read, Send, WireTypes, Said
<1>6. faults' \in Nat /\ faults <= faults'
  <2>1. faults' = faults \/ faults' = faults + 1
    BY DEF FoldFails
  <2> QED
    BY <1>1, <2>1
<1>7. TypeOK' /\ Around
  BY <1>1, <1>3, <1>4, <1>5, <1>6, TypesAfter DEF Around
<1>8. Session(s)'
  <2>1. peer'[s] = peer[s] /\ named'[s] = named[s]
    BY <1>1 DEF FoldFails, asks
  <2>2. up'[s] \in Seq(UpMessage(s))'
    BY <1>1, <1>7, <2>1, Kept DEF FoldFails, Asks, Read
  <2>3. down'[s] \in Seq(DownMessage(s))'
    <3>1. server[s] = "sent" => Say("refused", None) \in DownMessage(s)'
      <4>1. faults' # 0 /\ (server[s] = "sent" => named'[s] # None /\ peer'[s] \in Device)
        BY <1>1, <2>1 DEF FoldFails, Session, Place
      <4> QED
        BY <1>1, <1>3, <4>1 DEF Say, Said, DownMessage, Message, Past
    <3> QED
      BY <1>1, <1>7, <2>1, <3>1, Kept DEF FoldFails, Send
  <2>4. True(s)'
    BY <1>1, <1>7, <2>1, AnswersStable DEF FoldFails, asks, Session
  <2>5. Place(s)'
    BY <1>1, <1>7, <2>1, <1>2 DEF FoldFails, Serve, asks, Session, Place
  <2> QED
    BY <2>2, <2>3, <2>4, <2>5 DEF Session
<1>9. \A r \in Dialer \ {s} : Still(r)
  BY <1>1 DEF FoldFails, Read, Send, Serve, asks, Still
<1> QED
  BY <1>3, <1>6, <1>7, <1>8, <1>9, OneSession

\* The server takes the fork passed to it and passes its own on.
LEMMA PassForksStep ==
    ASSUME IInv, NEW s \in Dialer, PassForks(s)
    PROVE  IInv'
<1>1. /\ TypeOK /\ HeldRefused /\ Session(s)
      /\ HomeTypes /\ faults \in Nat /\ AskTypes /\ TellTypes /\ WireTypes
      /\ None \in Held
  BY Types DEF IInv, Held
<1>2. /\ Head(up[s]) \in UpMessage(s) /\ Asked(s) \in Held
      /\ Head(up[s]).say \in {"exchange", "update"} => Asked(s) = named[s]
  BY <1>1, Heard DEF PassForks, Asked, Asks, UpMessage, Message
<1>3. peer[s] \in Device /\ kept[s] \in Held /\ TakeFork(peer[s], Asked(s))
  BY <1>1 DEF PassForks, Session, Place, TellTypes
<1>4. HomeTypes' /\ HeldRefused' /\ Grows /\ Held' = Held /\ Message' = Message
  <2>1. /\ cut' = cut
        /\ devices' \in [Device -> Held] /\ conflict' \in [Device -> Held]
        /\ revoked' \in [Device -> SUBSET Entry]
        /\ HeldRefused' /\ Grows
    BY <1>2, <1>1, <1>3, TakeHomes
  <2>2. Held' = Held /\ Message' = Message
    BY <2>1 DEF Held, Message
  <2> QED
    BY <1>1, <2>1, <2>2 DEF HomeTypes
<1>5. AskTypes' /\ TellTypes'
  <2>1. AskTypes'
    BY <1>1, <1>4, <1>2, <1>3 DEF PassForks, asks, AskTypes
  <2>2. TellTypes'
    BY <1>1, <1>4, <1>2, <1>3 DEF PassForks, Serve, TellTypes
  <2> QED
    BY <2>1, <2>2
<1>6. WireTypes'
  BY <1>1, <1>4, WireFacts, <1>2, <1>3 DEF PassForks, Asks, Read, Send, WireTypes, Said
<1>7. faults' \in Nat /\ faults <= faults'
  <2>1. faults' = faults \/ faults' = faults + 1
    BY DEF PassForks
  <2> QED
    BY <1>1, <2>1
<1>8. TypeOK' /\ Around
  BY <1>1, <1>4, <1>5, <1>6, <1>7, TypesAfter DEF Around
<1>9. Session(s)'
  <2>1. peer'[s] = peer[s] /\ named'[s] = named[s]
    BY <1>1 DEF PassForks, asks
  <2>2. up'[s] \in Seq(UpMessage(s))'
    BY <1>1, <1>8, <2>1, Kept DEF PassForks, Asks, Read
  <2>3. down'[s] \in Seq(DownMessage(s))'
    <3>1. Say("fork", kept[s]) \in DownMessage(s)'
      BY <1>4, <1>3 DEF Say, Said, DownMessage, Message
    <3> QED
      BY <1>1, <1>8, <2>1, <3>1, Kept DEF PassForks, Send
  <2>4. True(s)'
    BY <1>1, <1>8, <2>1, AnswersStable DEF PassForks, asks, Session
  <2>5. Place(s)'
    BY <1>1, <1>8, <2>1, <1>2, <1>3 DEF PassForks, Serve, asks, Session, Place
  <2> QED
    BY <2>2, <2>3, <2>4, <2>5 DEF Session
<1>10. \A r \in Dialer \ {s} : Still(r)
  BY <1>1 DEF PassForks, Read, Send, Serve, asks, Still
<1> QED
  BY <1>4, <1>7, <1>8, <1>9, <1>10, OneSession

\* The server drops the fork passed to it and passes its own on.
LEMMA DropForkStep ==
    ASSUME IInv, NEW s \in Dialer, DropFork(s)
    PROVE  IInv'
<1>1. /\ TypeOK /\ HeldRefused /\ Session(s)
      /\ HomeTypes /\ faults \in Nat /\ AskTypes /\ TellTypes /\ WireTypes
      /\ None \in Held
  BY Types DEF IInv, Held
<1>2. /\ Head(up[s]) \in UpMessage(s) /\ Asked(s) \in Held
      /\ Head(up[s]).say \in {"exchange", "update"} => Asked(s) = named[s]
  BY <1>1, Heard DEF DropFork, Asked, Asks, UpMessage, Message
<1>3. peer[s] \in Device /\ kept[s] \in Held
  BY <1>1 DEF DropFork, Session, Place, TellTypes
<1>4. HomeTypes' /\ HeldRefused' /\ Grows /\ Held' = Held /\ Message' = Message
  BY <1>1, QuietHomes DEF DropFork
<1>5. AskTypes' /\ TellTypes'
  <2>1. AskTypes'
    BY <1>1, <1>4, <1>2, <1>3 DEF DropFork, asks, AskTypes
  <2>2. TellTypes'
    BY <1>1, <1>4, <1>2, <1>3 DEF DropFork, Serve, TellTypes
  <2> QED
    BY <2>1, <2>2
<1>6. WireTypes'
  BY <1>1, <1>4, WireFacts, <1>2, <1>3 DEF DropFork, Asks, Read, Send, WireTypes, Said
<1>7. faults' \in Nat /\ faults <= faults'
  <2>1. faults' = faults \/ faults' = faults + 1
    BY DEF DropFork
  <2> QED
    BY <1>1, <2>1
<1>8. TypeOK' /\ Around
  BY <1>1, <1>4, <1>5, <1>6, <1>7, TypesAfter DEF Around
<1>9. Session(s)'
  <2>1. peer'[s] = peer[s] /\ named'[s] = named[s]
    BY <1>1 DEF DropFork, asks
  <2>2. up'[s] \in Seq(UpMessage(s))'
    BY <1>1, <1>8, <2>1, Kept DEF DropFork, Asks, Read
  <2>3. down'[s] \in Seq(DownMessage(s))'
    <3>1. Say("fork", kept[s]) \in DownMessage(s)'
      BY <1>4, <1>3 DEF Say, Said, DownMessage, Message
    <3> QED
      BY <1>1, <1>8, <2>1, <3>1, Kept DEF DropFork, Send
  <2>4. True(s)'
    BY <1>1, <1>8, <2>1, AnswersStable DEF DropFork, asks, Session
  <2>5. Place(s)'
    BY <1>1, <1>8, <2>1, <1>2, <1>3 DEF DropFork, Serve, asks, Session, Place
  <2> QED
    BY <2>2, <2>3, <2>4, <2>5 DEF Session
<1>10. \A r \in Dialer \ {s} : Still(r)
  BY <1>1 DEF DropFork, Read, Send, Serve, asks, Still
<1> QED
  BY <1>4, <1>7, <1>8, <1>9, <1>10, OneSession

\* The server has nothing left to read.
LEMMA ServerEndsStep ==
    ASSUME IInv, NEW s \in Dialer, ServerEnds(s)
    PROVE  IInv'
<1>1. /\ TypeOK /\ HeldRefused /\ Session(s)
      /\ HomeTypes /\ faults \in Nat /\ AskTypes /\ TellTypes /\ WireTypes
      /\ None \in Held
  BY Types DEF IInv, Held
<1>2. HomeTypes' /\ HeldRefused' /\ Grows /\ Held' = Held /\ Message' = Message
  BY <1>1, QuietHomes DEF ServerEnds
<1>3. AskTypes' /\ TellTypes'
  <2>1. AskTypes'
    BY <1>1, <1>2 DEF ServerEnds, asks, AskTypes
  <2>2. TellTypes'
    BY <1>1, <1>2 DEF ServerEnds, Serve, TellTypes
  <2> QED
    BY <2>1, <2>2
<1>4. WireTypes'
  BY <1>1, <1>2 DEF ServerEnds, wires, WireTypes
<1>5. faults' \in Nat /\ faults <= faults'
  <2>1. faults' = faults \/ faults' = faults + 1
    BY DEF ServerEnds
  <2> QED
    BY <1>1, <2>1
<1>6. TypeOK' /\ Around
  BY <1>1, <1>2, <1>3, <1>4, <1>5, TypesAfter DEF Around
<1>7. Session(s)'
  <2>1. peer'[s] = peer[s] /\ named'[s] = named[s]
    BY <1>1 DEF ServerEnds, asks
  <2>2. up'[s] \in Seq(UpMessage(s))'
    BY <1>1, <1>6, <2>1 DEF ServerEnds, wires, WireTypes
  <2>3. down'[s] \in Seq(DownMessage(s))'
    BY <1>1, <1>6, <2>1, Kept DEF ServerEnds, wires
  <2>4. True(s)'
    BY <1>1, <1>6, <2>1, AnswersStable DEF ServerEnds, asks, Session
  <2>5. Place(s)'
    BY <1>1, <1>6, <2>1 DEF ServerEnds, Serve, asks, Session, Place
  <2> QED
    BY <2>2, <2>3, <2>4, <2>5 DEF Session
<1>8. \A r \in Dialer \ {s} : Still(r)
  BY <1>1 DEF ServerEnds, Serve, asks, wires, Still
<1> QED
  BY <1>2, <1>5, <1>6, <1>7, <1>8, OneSession

\* The server stops.
LEMMA ServerStopsStep ==
    ASSUME IInv, NEW s \in Dialer, ServerStops(s)
    PROVE  IInv'
<1>1. /\ TypeOK /\ HeldRefused /\ Session(s)
      /\ HomeTypes /\ faults \in Nat /\ AskTypes /\ TellTypes /\ WireTypes
      /\ None \in Held
  BY Types DEF IInv, Held
<1>2. HomeTypes' /\ HeldRefused' /\ Grows /\ Held' = Held /\ Message' = Message
  BY <1>1, QuietHomes DEF ServerStops
<1>3. AskTypes' /\ TellTypes'
  <2>1. AskTypes'
    BY <1>1, <1>2 DEF ServerStops, asks, AskTypes
  <2>2. TellTypes'
    BY <1>1, <1>2 DEF ServerStops, Serve, TellTypes
  <2> QED
    BY <2>1, <2>2
<1>4. WireTypes'
  BY <1>1, <1>2 DEF ServerStops, wires, WireTypes
<1>5. faults' \in Nat /\ faults <= faults'
  <2>1. faults' = faults \/ faults' = faults + 1
    BY DEF ServerStops
  <2> QED
    BY <1>1, <2>1
<1>6. TypeOK' /\ Around
  BY <1>1, <1>2, <1>3, <1>4, <1>5, TypesAfter DEF Around
<1>7. Session(s)'
  <2>1. peer'[s] = peer[s] /\ named'[s] = named[s]
    BY <1>1 DEF ServerStops, asks
  <2>2. up'[s] \in Seq(UpMessage(s))'
    BY <1>1, <1>6, <2>1, Kept DEF ServerStops, wires
  <2>3. down'[s] \in Seq(DownMessage(s))'
    BY <1>1, <1>6, <2>1, Kept DEF ServerStops, wires
  <2>4. True(s)'
    BY <1>1, <1>6, <2>1, AnswersStable DEF ServerStops, asks, Session
  <2>5. Place(s)'
    BY <1>1, <1>6, <2>1 DEF ServerStops, Serve, asks, Session, Place, TellTypes
  <2> QED
    BY <2>2, <2>3, <2>4, <2>5 DEF Session
<1>8. \A r \in Dialer \ {s} : Still(r)
  BY <1>1 DEF ServerStops, Serve, asks, wires, Still
<1> QED
  BY <1>2, <1>5, <1>6, <1>7, <1>8, OneSession

\* A root act cuts.
LEMMA CutStep ==
    ASSUME IInv, NEW u \in Signed, Cut(u)
    PROVE  IInv'
<1>1. TypeOK /\ HeldRefused /\ HomeTypes /\ faults \in Nat /\ AskTypes /\ TellTypes /\ WireTypes
  BY Types DEF IInv
<1>2. HomeTypes' /\ HeldRefused' /\ Grows /\ Held \subseteq Held' /\ Message \subseteq Message'
  <2>1. /\ cut' = cut \cup {u}
        /\ devices' \in [Device -> Held'] /\ conflict' \in [Device -> Held']
        /\ revoked' \in [Device -> SUBSET Entry]
        /\ HeldRefused' /\ Grows
    BY <1>1, CutHomes
  <2>2. Held \subseteq Held' /\ Message \subseteq Message'
    BY <2>1 DEF Held, Message
  <2> QED
    BY <1>1, <2>1, <2>2 DEF HomeTypes
<1>3. UNCHANGED <<faults, at, peer, named, fork, taken, answer, server, mine, kept, up, down>>
  BY DEF Cut, asks, tells, wires
<1>4. AskTypes' /\ TellTypes'
  BY <1>1, <1>2, <1>3 DEF AskTypes, TellTypes
<1>5. WireTypes'
  <2>1. \A q \in Seq(Message) : q \in Seq(Message')
    BY <1>2
  <2> QED
    BY <1>1, <1>3, <2>1 DEF WireTypes
<1>6. TypeOK' /\ Around
  BY <1>1, <1>2, <1>3, <1>4, <1>5, TypesAfter DEF Around
<1>7. ASSUME NEW s \in Dialer PROVE Session(s)'
  BY <1>3, <1>6, SessionStable DEF IInv, Still
<1> QED
  BY <1>2, <1>6, <1>7 DEF IInv

\* Every step keeps the invariant.
LEMMA StepInv == IInv /\ [Next]_vars => IInv'
<1> SUFFICES ASSUME IInv, [Next]_vars PROVE IInv'
  OBVIOUS
<1>1. ASSUME NEW u \in Signed, Cut(u) PROVE IInv'
  BY <1>1, CutStep
<1>2. ASSUME NEW s \in Dialer, NEW p \in Device \cup Outsider, NEW u \in Updates, Dial(s, p, u) PROVE IInv'
  BY <1>2, DialStep
<1>3. ASSUME NEW s \in Dialer, Asking(s) PROVE IInv'
  BY <1>3, ReadForkStep, HearSameStep, HearTheirsStep, FoldTakenStep, HearSendYoursStep, HearVerdictStep,
     PassForkStep, TakeTheirForkStep, DialerEndsStep DEF Asking
<1>4. ASSUME NEW s \in Dialer, Answering(s) PROVE IInv'
  BY <1>4, ReadHeldStep, CompareStep, FoldTheirsStep, FoldGivenStep, PassForksStep, ServerEndsStep DEF
     Answering
<1>5. ASSUME NEW s \in Dialer, Failing(s) PROVE IInv'
  BY <1>5, DialerStopsStep, FoldFailsStep, DropForkStep, ServerStopsStep DEF Failing
<1>6. ASSUME NEW s \in Dialer, NEW p \in Device, NotAdmitted(s, p) PROVE IInv'
  BY <1>6, NotAdmittedStep
<1>7. CASE UNCHANGED vars
  <2>1. UNCHANGED <<cut, devices, conflict, revoked, faults, at, peer, named, fork, taken, answer, server, mine, kept, up, down>>
    BY <1>7 DEF vars, homes, asks, tells, wires
  <2>2. TypeOK'
    BY <2>1 DEF IInv, TypeOK
  <2>3. HeldRefused' /\ Grows
    BY <2>1, NumberType DEF IInv, HeldRefused, Grows
  <2>4. Around
    <3>1. faults <= faults'
      BY <2>1 DEF IInv, TypeOK
    <3> QED
      BY <2>2, <2>3, <3>1 DEF IInv, Around
  <2>5. ASSUME NEW s \in Dialer PROVE Session(s)'
    BY <2>1, <2>4, SessionStable DEF IInv, Still
  <2> QED
    BY <2>2, <2>3, <2>5 DEF IInv
<1> QED
  BY <1>1, <1>2, <1>3, <1>4, <1>5, <1>7, <1>6 DEF Next

\* The invariant holds in every state of every behaviour.
LEMMA Inductive == Spec => []IInv
<1>1. IInv /\ [Next]_vars => IInv'
  BY StepInv
<1> QED
  BY InitInv, <1>1, PTL DEF Spec

-----------------------------------------------------------------------------

\* No update is held, kept, named or on the way before its root act has committed it.
THEOREM TypeCorrect == Spec => []TypeOK
BY Inductive, PTL DEF IInv

\* A device that is said to have an update has it, and keeps it or a later one.
THEOREM AnswersHave == Spec => []AnsweredHas
<1>1. IInv => AnsweredHas
  BY DEF IInv, Session, True, AnsweredHas, PeerHas
<1> QED
  BY <1>1, Inductive, PTL

\* A dialer that says it took an update or found a fork has done so.
THEOREM AnswersTook == Spec => []AnsweredTook
<1>1. IInv => AnsweredTook
  BY DEF IInv, Session, True, AnsweredTook
<1> QED
  BY <1>1, Inductive, PTL

\* What a dialer is told of an exchange is true of the two homes.
THEOREM AnswersTrue == Spec => []AnswersHold
BY AnswersHave, AnswersTook, PTL DEF AnswersHold

\* Honest devices disagree about whose turn it is only when one has been overtaken.
THEOREM AnswersOvertaken == Spec => []OnlyOvertaken
<1>1. IInv => OnlyOvertaken
  BY DEF IInv, Session, True, Past, OnlyOvertaken
<1> QED
  BY <1>1, Inductive, PTL

\* A fork found stays recorded until a later update comes.
THEOREM ForksLeft == Spec => []ForkLeft
<1>1. IInv => ForkLeft
  BY DEF IInv, Session, True, Recorded, PeerHas, Has, ForkLeft
<1> QED
  BY <1>1, Inductive, PTL

\* Every step of the exchange, and every cut, lets homes only grow.
LEMMA StepGrows == IInv /\ [Next]_vars => Grows
<1> SUFFICES ASSUME IInv, [Next]_vars PROVE Grows
  OBVIOUS
<1>1. TypeOK /\ HeldRefused /\ AskTypes /\ TellTypes
  BY Types DEF IInv
<1>2. ASSUME UNCHANGED homes PROVE Grows
  BY <1>2, QuietHomes
<1>3. ASSUME NEW u \in Signed, Cut(u) PROVE Grows
  BY <1>1, <1>3, CutHomes
<1>4. ASSUME NEW s \in Dialer, FoldTaken(s) PROVE Grows
  <2>1. Machine[s] \in Device /\ taken[s] \in cut
    BY <1>1, <1>4, MachineAssumption DEF FoldTaken, IInv, Session, Place, AskTypes, Held
  <2> QED
    BY <1>1, <1>4, <2>1, FoldHomes DEF FoldTaken
<1>5. ASSUME NEW s \in Dialer, TakeTheirFork(s) PROVE Grows
  <2>1. Machine[s] \in Device /\ Told(s) \in Held
    BY <1>5, Heard, MachineAssumption DEF TakeTheirFork, IInv, Hears, Told, DownMessage, Message
  <2> QED
    BY <1>1, <1>5, <2>1, TakeHomes DEF TakeTheirFork
<1>6. ASSUME NEW s \in Dialer, FoldTheirs(s) \/ FoldGiven(s) PROVE Grows
  <2>1. Asked(s) = named[s] /\ named[s] # None /\ named[s] \in Held /\ peer[s] \in Device
    BY <1>1, <1>6, Heard DEF FoldTheirs, FoldGiven, IInv, Session, Place, Asks, Asked, UpMessage, AskTypes
  <2> QED
    BY <1>1, <1>6, <2>1, FoldHomes DEF FoldTheirs, FoldGiven, Held
<1>7. ASSUME NEW s \in Dialer, PassForks(s) PROVE Grows
  <2>1. peer[s] \in Device /\ Asked(s) \in Held
    BY <1>7, Heard DEF PassForks, IInv, Session, Place, Asks, Asked, UpMessage, Message
  <2> QED
    BY <1>1, <1>7, <2>1, TakeHomes DEF PassForks
<1>8. ASSUME NEW s \in Dialer, Asking(s) PROVE Grows
  BY <1>2, <1>4, <1>5, <1>8 DEF Asking, ReadFork, HearSame, HearTheirs, HearSendYours, HearVerdict,
     PassFork, DialerEnds
<1>9. ASSUME NEW s \in Dialer, Answering(s) PROVE Grows
  BY <1>2, <1>6, <1>7, <1>9 DEF Answering, ReadHeld, Compare, ServerEnds
<1>10. ASSUME NEW s \in Dialer, Failing(s) PROVE Grows
  BY <1>2, <1>10 DEF Failing, DialerStops, FoldFails, DropFork, ServerStops
<1>11. ASSUME NEW s \in Dialer, NEW p \in Device \cup Outsider, NEW u \in Updates, Dial(s, p, u) PROVE Grows
  BY <1>2, <1>11 DEF Dial
<1>12. ASSUME NEW s \in Dialer, NEW p \in Device, NotAdmitted(s, p) PROVE Grows
  BY <1>2, <1>12 DEF NotAdmitted
<1>13. CASE UNCHANGED vars
  BY <1>2, <1>13 DEF vars
<1> QED
  BY <1>3, <1>8, <1>9, <1>10, <1>11, <1>13, <1>12 DEF Next

\* No exchange and no cut takes a device to a lower number, changes the update under a number, or takes a
\* revocation back.
THEOREM NeverGoesBack == Spec => NeverBack
<1>1. IInv /\ [Next]_vars => [\A d \in Device :
                                 /\ Number(devices'[d]) >= Number(devices[d])
                                 /\ Number(devices'[d]) = Number(devices[d]) => devices'[d] = devices[d]
                                 /\ revoked[d] \subseteq revoked'[d]]_homes
  BY StepGrows DEF Grows
<1> QED
  BY <1>1, Inductive, PTL DEF Spec, NeverBack
=============================================================================
