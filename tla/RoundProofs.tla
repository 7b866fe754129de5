---------------------------- MODULE RoundProofs -----------------------------
(***************************************************************************)
(* Proofs about asking other devices: Round, for any devices, any order    *)
(* drawn and any signed updates, and Renewal as MCReaching has it, for any *)
(* lists and peers.  Induction over data comes from the well-foundedness   *)
(* of <: a set of numbers that is not empty has a least one.               *)
(***************************************************************************)
EXTENDS MCReaching, WellFoundedInduction, TLAPS

\* A set of numbers that is not empty has a least one.
LEMMA LeastNat ==
    ASSUME NEW S, S \subseteq Nat, S # {}
    PROVE  \E m \in S : \A k \in S : m <= k
<1> DEFINE R == OpToRel(<, Nat)
<1>1. IsWellFoundedOn(R, Nat)
  BY NatLessThanWellFounded
<1>2. \A m, k \in S : <<k, m>> \in R <=> k < m
  BY DEF OpToRel
<1> HIDE DEF R
<1>3. PICK m \in S : \A k \in S : ~(<<k, m>> \in R)
  BY <1>1, WFMin
<1>4. ASSUME NEW k \in S
      PROVE  m <= k
  <2>1. ~(k < m)
    BY <1>2, <1>3
  <2>2. k \in Nat /\ m \in Nat
    OBVIOUS
  <2> QED BY <2>1, <2>2
<1> QED BY <1>4

\* A set that holds 0 and the successor of each of its numbers holds them all.
LEMMA SetInduction ==
    ASSUME NEW S, 0 \in S, \A n \in Nat : n \in S => n + 1 \in S
    PROVE  Nat \subseteq S
<1> DEFINE Out == {n \in Nat : n \notin S}
<1> SUFFICES ASSUME Out # {} PROVE FALSE
  OBVIOUS
<1>1. PICK m \in Out : \A k \in Out : m <= k
  <2>1. Out \subseteq Nat
    OBVIOUS
  <2> HIDE DEF Out
  <2> QED BY <2>1, LeastNat
<1>2. m - 1 \in Nat /\ m - 1 \in S
  BY <1>1
<1> QED BY <1>1, <1>2

-----------------------------------------------------------------------------
(* Picked *)

In(q, d) == \E i \in DOMAIN q : q[i] = d
Once(q)  == \A i, j \in DOMAIN q : q[i] = q[j] => i = j

\* The recursion of Picked, of a function on 0..n.
Built(g, n, s, T) ==
    g = [i \in 0..n |->
            IF i = 0 THEN <<>>
            ELSE IF s[i] \in T THEN Append(g[i - 1], s[i]) ELSE g[i - 1]]

\* The function Picked is defined by exists.
LEMMA PickedBuilt ==
    ASSUME NEW S, NEW s \in Seq(S), NEW T
    PROVE  \E f : Built(f, Len(s), s, T) /\ Picked(s, T) = f[Len(s)]
<1> DEFINE OK == {n \in Nat : \E g : Built(g, n, s, T)}
<1>1. 0 \in OK
  <2> DEFINE g == [i \in 0..0 |-> <<>>]
  <2>1. Built(g, 0, s, T)
    BY DEF Built
  <2> QED BY <2>1
<1>2. ASSUME NEW n \in Nat, n \in OK
      PROVE  n + 1 \in OK
  <2>1. PICK g : Built(g, n, s, T)
    BY <1>2
  <2> DEFINE h == [i \in 0..(n + 1) |->
                      IF i <= n THEN g[i]
                      ELSE IF s[n + 1] \in T THEN Append(g[n], s[n + 1]) ELSE g[n]]
  <2>2. \A i \in 0..n : g[i] = IF i = 0 THEN <<>>
                               ELSE IF s[i] \in T THEN Append(g[i - 1], s[i]) ELSE g[i - 1]
    BY <2>1 DEF Built
  <2>3. \A i \in 0..(n + 1) : h[i] = IF i = 0 THEN <<>>
                               ELSE IF s[i] \in T THEN Append(h[i - 1], s[i]) ELSE h[i - 1]
    BY <2>2
  <2>4. Built(h, n + 1, s, T)
    BY <2>3 DEF Built
  <2> QED BY <2>4
<1>3. Len(s) \in OK
  <2> HIDE DEF OK
  <2> QED BY <1>1, <1>2, SetInduction
<1>4. \E g : Built(g, Len(s), s, T)
  BY <1>3
<1>5. Built(CHOOSE g : Built(g, Len(s), s, T), Len(s), s, T)
  BY <1>4
<1>6. Picked(s, T) = (CHOOSE g : Built(g, Len(s), s, T))[Len(s)]
  BY DEF Picked, Built
<1> QED BY <1>5, <1>6

\* q is made of the elements of s up to n that are in T: each is there, and nothing else is; and none is
\* there twice when none is in s.
From(q, s, n, T, S) ==
    /\ q \in Seq(S)
    /\ \A d \in S : In(q, d) <=> d \in T /\ \E i \in 1..n : s[i] = d
    /\ Once(s) => Once(q)

\* Append adds one element, at the end.
LEMMA Appended ==
    ASSUME NEW S, NEW q \in Seq(S), NEW e \in S
    PROVE  /\ Append(q, e) \in Seq(S)
           /\ \A d \in S : In(Append(q, e), d) <=> In(q, d) \/ d = e
           /\ Once(q) /\ ~In(q, e) => Once(Append(q, e))
<1>1. /\ Append(q, e) \in Seq(S)
      /\ DOMAIN q = 1..Len(q)
      /\ DOMAIN Append(q, e) = 1..(Len(q) + 1)
      /\ Len(q) \in Nat
      /\ Append(q, e)[Len(q) + 1] = e
      /\ \A i \in 1..Len(q) : Append(q, e)[i] = q[i]
  OBVIOUS
<1>2. ASSUME NEW d \in S
      PROVE  In(Append(q, e), d) <=> In(q, d) \/ d = e
  <2>1. In(q, d) => In(Append(q, e), d)
    BY <1>1 DEF In
  <2>2. In(Append(q, e), e)
    BY <1>1 DEF In
  <2>3. In(Append(q, e), d) => In(q, d) \/ d = e
    BY <1>1 DEF In
  <2> QED BY <2>1, <2>2, <2>3
<1>3. ASSUME Once(q), ~In(q, e)
      PROVE  Once(Append(q, e))
  BY <1>1, <1>3 DEF Once, In
<1> QED BY <1>1, <1>2, <1>3

\* Picked selects what it says, in any sequence.
THEOREM PickedFrom ==
    ASSUME NEW S, NEW s \in Seq(S), NEW T
    PROVE  From(Picked(s, T), s, Len(s), T, S)
<1>1. PICK f : Built(f, Len(s), s, T) /\ Picked(s, T) = f[Len(s)]
  BY PickedBuilt
<1> DEFINE OK == {n \in Nat : n <= Len(s) => From(f[n], s, n, T, S)}
<1>2. /\ f[0] = <<>>
      /\ \A n \in 1..Len(s) :
            f[n] = IF s[n] \in T THEN Append(f[n - 1], s[n]) ELSE f[n - 1]
  <2>1. \A n \in 0..Len(s) : f[n] = IF n = 0 THEN <<>>
                                    ELSE IF s[n] \in T THEN Append(f[n - 1], s[n]) ELSE f[n - 1]
    <3> HIDE DEF OK
    <3> QED BY <1>1 DEF Built
  <2> HIDE DEF OK
  <2> QED BY <2>1
<1>3. 0 \in OK
  <2>1. From(<<>>, s, 0, T, S)
    BY DEF From, In, Once
  <2> QED BY <2>1, <1>2
<1>4. ASSUME NEW n \in Nat, n \in OK
      PROVE  n + 1 \in OK
  <2> SUFFICES ASSUME n + 1 <= Len(s)
               PROVE  From(f[n + 1], s, n + 1, T, S)
    OBVIOUS
  <2>1. From(f[n], s, n, T, S)
    BY <1>4
  <2>2. s[n + 1] \in S
    OBVIOUS
  <2>3. f[n + 1] = IF s[n + 1] \in T THEN Append(f[n], s[n + 1]) ELSE f[n]
    BY <1>2
  <2>4. \A d : (\E i \in 1..(n + 1) : s[i] = d) <=> (\E i \in 1..n : s[i] = d) \/ s[n + 1] = d
    <3>1. 1..(n + 1) = 1..n \cup {n + 1}
      OBVIOUS
    <3> QED BY <3>1
  <2>5. CASE s[n + 1] \notin T
    BY <2>1, <2>3, <2>4, <2>5 DEF From
  <2>6. CASE s[n + 1] \in T
    <3>1. f[n] \in Seq(S)
      BY <2>1 DEF From
    <3>2. /\ f[n + 1] \in Seq(S)
          /\ \A d \in S : In(f[n + 1], d) <=> In(f[n], d) \/ d = s[n + 1]
          /\ Once(f[n]) /\ ~In(f[n], s[n + 1]) => Once(f[n + 1])
      BY <2>2, <2>3, <2>6, <3>1, Appended
    <3>3. ASSUME Once(s)
          PROVE  ~In(f[n], s[n + 1])
      <4>1. ~(\E i \in 1..n : s[i] = s[n + 1])
        BY <3>3 DEF Once
      <4> QED BY <4>1, <2>1, <2>2 DEF From
    <3>4. \A d \in S : In(f[n + 1], d) <=> d \in T /\ \E i \in 1..(n + 1) : s[i] = d
      BY <3>2, <2>1, <2>4, <2>6 DEF From
    <3>5. Once(s) => Once(f[n + 1])
      BY <3>2, <3>3, <2>1 DEF From
    <3> QED BY <3>2, <3>4, <3>5 DEF From
  <2> QED BY <2>5, <2>6
<1>5. Len(s) \in OK
  <2> HIDE DEF OK
  <2> QED BY <1>3, <1>4, SetInduction
<1> QED BY <1>1, <1>5

-----------------------------------------------------------------------------
(* The inductive invariant *)

\* What this machine holds is never before what the round's last take brought, nor is the update named to
\* the device being asked; and that device goes on holding what it held when it compared.
Levels ==
    /\ Number(taken) <= Number(own)
    /\ asked # Nobody => Number(taken) <= Number(named)
    /\ heard => asked # Nobody /\ Number(theirs) <= Number(holds[asked])

\* A device reported as level holds what the last take brought, or is asked (again).
Level ==
    until = "every" /\ taken # None =>
        \A d \in Device : Behind(d) => d = asked \/ In(queue, d) \/ Number(taken) <= Number(holds[d])

\* A device without a reply is being asked or will be, unless a take ended the round.
Waiting ==
    \A d \in Device : replies[d] = "unasked" =>
        \/ d = asked \/ In(queue, d)
        \/ until = "newer" /\ \E e \in Device : replies[e] = "took"

\* Where any newer update will do, nothing is asked after a take.
Stopped == until = "newer" /\ (\E d \in Device : replies[d] = "took") => Done

IInv == TypeOK /\ Levels /\ Level /\ Waiting /\ Stopped

-----------------------------------------------------------------------------
(* Folds and the queue *)

\* A number is that of the update held.
LEMMA Numbers ==
    /\ \A u \in Signed : u # None /\ Number(u) = u.number /\ Number(u) \in Nat /\ Number(u) > 0
    /\ \A u \in Signed \cup {None} : Number(u) \in Nat
    /\ Number(None) = 0
BY SignedAssumption DEF Number, UpdateShape

\* A fold keeps the update held or moves it on; and what it takes, or finds the same, it holds.
LEMMA FoldUp ==
    ASSUME NEW h \in Signed \cup {None}, NEW u \in Signed
    PROVE  /\ Fold(h, u) \in Signed \cup {None}
           /\ Number(h) <= Number(Fold(h, u))
           /\ Folded(h, u) \in {"newer", "same"} => Fold(h, u) = u
BY Numbers DEF Fold, Folded

\* The devices are those of the order drawn.
LEMMA OrderDrawn ==
    /\ Order \in Seq(Device)
    /\ Once(Order)
    /\ \A d \in Device : \E i \in 1..Len(Order) : Order[i] = d
    /\ Nobody \notin Device
BY OrderAssumption DEF Device, Once

\* The devices a take leaves behind, each once.
LEMMA Behinds ==
    /\ Earlier \in Seq(Device)
    /\ Once(Earlier)
    /\ \A d \in Device : In(Earlier, d) <=> d # asked /\ Behind(d) /\ ~In(queue, d)
<1> DEFINE T == {d \in Device : d # asked /\ Behind(d) /\ ~Queued(d)}
<1>1. From(Picked(Order, T), Order, Len(Order), T, Device)
  <2> HIDE DEF T
  <2> QED BY OrderDrawn, PickedFrom
<1>2. Earlier = Picked(Order, T)
  BY DEF Earlier
<1>3. \A d \in Device : d \in T <=> d # asked /\ Behind(d) /\ ~In(queue, d)
  BY DEF Queued, In
<1> HIDE DEF T
<1> QED BY <1>1, <1>2, <1>3, OrderDrawn DEF From

\* Joining two sequences that share nothing.
LEMMA Joined ==
    ASSUME NEW S, NEW q \in Seq(S), NEW r \in Seq(S)
    PROVE  /\ q \o r \in Seq(S)
           /\ \A d \in S : In(q \o r, d) <=> In(q, d) \/ In(r, d)
           /\ Once(q) /\ Once(r) /\ (\A d \in S : ~(In(q, d) /\ In(r, d))) => Once(q \o r)
<1>1. /\ q \o r \in Seq(S)
      /\ Len(q) \in Nat /\ Len(r) \in Nat
      /\ DOMAIN q = 1..Len(q) /\ DOMAIN r = 1..Len(r)
      /\ DOMAIN (q \o r) = 1..(Len(q) + Len(r))
      /\ \A i \in 1..Len(q) : (q \o r)[i] = q[i]
      /\ \A i \in 1..Len(r) : (q \o r)[Len(q) + i] = r[i]
  OBVIOUS
<1>2. \A i \in DOMAIN (q \o r) :
         \/ i \in DOMAIN q /\ (q \o r)[i] = q[i]
         \/ i - Len(q) \in DOMAIN r /\ (q \o r)[i] = r[i - Len(q)]
  BY <1>1
<1>3. ASSUME NEW d \in S
      PROVE  In(q \o r, d) <=> In(q, d) \/ In(r, d)
  <2>1. In(q, d) => In(q \o r, d)
    BY <1>1 DEF In
  <2>2. In(r, d) => In(q \o r, d)
    <3> SUFFICES ASSUME NEW i \in DOMAIN r, r[i] = d
                 PROVE  In(q \o r, d)
      BY DEF In
    <3>1. Len(q) + i \in DOMAIN (q \o r) /\ (q \o r)[Len(q) + i] = d
      BY <1>1
    <3> QED BY <3>1 DEF In
  <2>3. In(q \o r, d) => In(q, d) \/ In(r, d)
    BY <1>2 DEF In
  <2> QED BY <2>1, <2>2, <2>3
<1>4. ASSUME Once(q), Once(r), \A d \in S : ~(In(q, d) /\ In(r, d))
      PROVE  Once(q \o r)
  <2> SUFFICES ASSUME NEW i \in DOMAIN (q \o r), NEW j \in DOMAIN (q \o r),
                      (q \o r)[i] = (q \o r)[j]
               PROVE  i = j
    BY DEF Once
  <2>0. i \in Int /\ j \in Int
    BY <1>1
  <2>1. CASE i \in DOMAIN q /\ (q \o r)[i] = q[i] /\ j \in DOMAIN q /\ (q \o r)[j] = q[j]
    BY <2>1, <1>4 DEF Once
  <2>2. CASE /\ i - Len(q) \in DOMAIN r /\ (q \o r)[i] = r[i - Len(q)]
             /\ j - Len(q) \in DOMAIN r /\ (q \o r)[j] = r[j - Len(q)]
    <3>1. i - Len(q) = j - Len(q)
      BY <2>2, <1>4 DEF Once
    <3> QED BY <3>1, <2>0, <1>1
  <2>3. ASSUME NEW k \in DOMAIN q, NEW l \in DOMAIN r, q[k] = r[l]
        PROVE  FALSE
    <3>1. q[k] \in S
      BY <1>1
    <3> QED BY <2>3, <3>1, <1>4 DEF In
  <2> QED BY <1>2, <2>1, <2>2, <2>3
<1> QED BY <1>1, <1>3, <1>4

\* What is left to ask after a reply: whoever was left, each once and not the device asked; in a round
\* that asks every device, after a take, also those it leaves behind; in the other round, then, nobody.
LEMMA Left ==
    ASSUME TypeOK, NEW reply, asked # Nobody
    PROVE  /\ Again(reply) \in Seq(Device)
           /\ Once(Again(reply))
           /\ ~In(Again(reply), asked)
           /\ reply = "took" /\ until = "newer" => Again(reply) = <<>>
           /\ ~(reply = "took" /\ until = "newer") =>
                  \A d \in Device : In(queue, d) => In(Again(reply), d)
           /\ reply = "took" /\ until = "every" =>
                  \A d \in Device : d # asked /\ Behind(d) => In(Again(reply), d)
<1>0. queue \in Seq(Device) /\ Once(queue) /\ ~In(queue, asked) /\ asked \in Device
  BY DEF TypeOK, Once, In, Queued
<1>1. CASE reply = "took" /\ until = "newer"
  <2>1. Again(reply) = <<>>
    BY <1>1 DEF Again
  <2>2. <<>> \in Seq(Device) /\ DOMAIN <<>> = {}
    OBVIOUS
  <2>3. Once(<<>>) /\ \A d : ~In(<<>>, d)
    BY <2>2 DEF In, Once
  <2> QED BY <1>1, <2>1, <2>2, <2>3
<1>2. CASE reply = "took" /\ until = "every"
  <2>1. Again(reply) = queue \o Earlier
    BY <1>2 DEF Again
  <2>2. /\ queue \o Earlier \in Seq(Device)
        /\ \A d \in Device : In(queue \o Earlier, d) <=> In(queue, d) \/ In(Earlier, d)
        /\ Once(queue \o Earlier)
    BY <1>0, Behinds, Joined
  <2> QED BY <1>0, <1>2, <2>1, <2>2, Behinds
<1>3. CASE reply # "took"
  BY <1>0, <1>3 DEF Again
<1> QED BY <1>1, <1>2, <1>3 DEF TypeOK

-----------------------------------------------------------------------------
(* The steps *)

\* What a reply to this machine comes with, whichever it is.
Answered(reply) ==
    /\ Replied(reply)
    /\ asked \in Device /\ reply \in Replies \ {"unasked"}
    /\ own' \in Signed \cup {None} /\ Number(own) <= Number(own')
    /\ holds' \in [Device -> Signed \cup {None}]
    /\ \A d \in Device : Number(holds[d]) <= Number(holds'[d])
    /\ taken' \in Signed \cup {None} /\ Number(taken') <= Number(own')
    /\ reply # "took" => taken' = taken
    /\ reply \in {"same", "gave", "took"} => Number(taken') <= Number(holds'[asked])

\* Every end of an exchange is such a reply.
LEMMA EndsAnswered ==
    ASSUME TypeOK, Levels, EndsSame \/ EndsTheirs \/ EndsMine \/ Fails
    PROVE  \E reply : Answered(reply)
<1>0. /\ asked \in Device
      /\ \A d \in Device : holds[d] \in Signed \cup {None}
      /\ own \in Signed \cup {None} /\ named \in Signed \cup {None}
      /\ theirs \in Signed \cup {None} /\ taken \in Signed \cup {None}
      /\ Number(taken) <= Number(own) /\ Number(taken) <= Number(named)
      /\ heard => Number(theirs) <= Number(holds[asked])
  <2>1. asked # Nobody
    BY DEF Levels, EndsSame, EndsTheirs, EndsMine, Fails
  <2> QED BY <2>1 DEF TypeOK, Levels
<1>1. /\ Number(own) \in Nat /\ Number(named) \in Nat /\ Number(theirs) \in Nat /\ Number(taken) \in Nat
      /\ \A d \in Device : Number(holds[d]) \in Nat
  BY <1>0, Numbers
<1>2. holds \in [Device -> Signed \cup {None}] /\ asked \in Device
  BY <1>0 DEF TypeOK
\* What need not be said again of what a step leaves alone.
<1>3. ASSUME holds' = holds
      PROVE  /\ holds' \in [Device -> Signed \cup {None}]
             /\ \A d \in Device : Number(holds[d]) <= Number(holds'[d])
  BY <1>1, <1>2, <1>3
<1>4. ASSUME own' = own
      PROVE  own' \in Signed \cup {None} /\ Number(own) <= Number(own')
  BY <1>0, <1>1, <1>4
<1>5. ASSUME own' \in Signed \cup {None}, Number(own) <= Number(own'), taken' = taken
      PROVE  taken' \in Signed \cup {None} /\ Number(taken') <= Number(own')
  <2>1. Number(own') \in Nat
    BY <1>5, Numbers
  <2> QED BY <2>1, <1>0, <1>1, <1>5
<1>6. CASE EndsSame
  <2>1. Replied("same") /\ own' = own /\ holds' = holds /\ taken' = taken /\ heard /\ theirs = named
    BY <1>6 DEF EndsSame, homes
  <2>2. Number(taken) <= Number(holds[asked])
    BY <2>1, <1>0, <1>1
  <2>3. Answered("same")
    BY <2>1, <2>2, <1>2, <1>3, <1>4, <1>5 DEF Answered, Replies
  <2> QED BY <2>3
<1>7. CASE EndsTheirs
  <2>0. PICK reply :
            /\ reply = CASE Folded(own, theirs) = "fork"      -> "forked"
                         [] Folded(own, theirs) = "not newer" -> "silent"
                         [] OTHER                             -> "took"
            /\ Replied(reply)
    BY <1>7 DEF EndsTheirs
  <2>1. /\ heard /\ theirs # named /\ Number(theirs) >= Number(named)
        /\ own' = Fold(own, theirs) /\ Replied(reply) /\ holds' = holds
        /\ taken' = IF Folded(own, theirs) \in {"newer", "same"} THEN theirs ELSE taken
    BY <1>7, <2>0 DEF EndsTheirs
  <2>2. theirs \in Signed
    BY <2>1, <1>0, <1>1, Numbers
  <2>3. /\ own' \in Signed \cup {None}
        /\ Number(own) <= Number(own')
        /\ Folded(own, theirs) \in {"newer", "same"} => own' = theirs
    BY <2>1, <2>2, <1>0, FoldUp
  <2>4. Folded(own, theirs) \in {"newer", "same", "fork", "not newer"}
    BY DEF Folded
  <2>5. /\ reply \in {"forked", "silent", "took"}
        /\ reply = "took" <=> Folded(own, theirs) \in {"newer", "same"}
    BY <2>0, <2>4
  <2>6. CASE reply = "took"
    <3>1. taken' = theirs /\ own' = theirs
      BY <2>6, <2>1, <2>3, <2>5
    <3>2. taken' \in Signed \cup {None} /\ Number(taken') <= Number(own')
      BY <3>1, <2>2, Numbers
    <3>3. Number(taken') <= Number(holds'[asked])
      BY <2>1, <3>1, <1>0
    <3> QED BY <2>0, <2>1, <2>3, <2>6, <3>2, <3>3, <1>2, <1>3 DEF Answered, Replies
  <2>7. CASE reply # "took"
    <3>1. taken' = taken
      BY <2>7, <2>1, <2>5
    <3> QED BY <2>0, <2>1, <2>3, <2>5, <2>7, <3>1, <1>2, <1>3, <1>5 DEF Answered, Replies
  <2> QED BY <2>6, <2>7
<1>8. CASE EndsMine
  <2>0. PICK reply :
            /\ reply = CASE Folded(holds[asked], named) = "fork"      -> "fork recorded"
                         [] Folded(holds[asked], named) = "not newer" -> "refused"
                         [] OTHER                                     -> "gave"
            /\ Replied(reply)
    BY <1>8 DEF EndsMine
  <2>1. /\ heard /\ Number(theirs) < Number(named)
        /\ holds' = [holds EXCEPT ![asked] = Fold(holds[asked], named)]
        /\ Replied(reply) /\ own' = own /\ taken' = taken
    BY <1>8, <2>0 DEF EndsMine
  <2>2. named \in Signed
    BY <2>1, <1>0, <1>1, Numbers
  <2>3. /\ holds'[asked] = Fold(holds[asked], named)
        /\ holds'[asked] \in Signed \cup {None}
        /\ Number(holds[asked]) <= Number(holds'[asked])
        /\ Folded(holds[asked], named) \in {"newer", "same"} => holds'[asked] = named
    BY <2>1, <2>2, <1>0, <1>2, FoldUp
  <2>4. /\ holds' \in [Device -> Signed \cup {None}]
        /\ \A d \in Device : Number(holds[d]) <= Number(holds'[d])
    <3>1. \A d \in Device : d # asked => holds'[d] = holds[d]
      BY <2>1, <1>2
    <3>2. holds' \in [Device -> Signed \cup {None}]
      BY <2>1, <2>3, <1>2
    <3>3. ASSUME NEW d \in Device
          PROVE  Number(holds[d]) <= Number(holds'[d])
      <4>1. CASE d = asked
        BY <4>1, <2>3
      <4>2. CASE d # asked
        BY <4>2, <3>1, <1>1
      <4> QED BY <4>1, <4>2
    <3> QED BY <3>2, <3>3
  <2>5. Folded(holds[asked], named) \in {"newer", "same", "fork", "not newer"}
    BY DEF Folded
  <2>6. /\ reply \in {"fork recorded", "refused", "gave"}
        /\ reply = "gave" <=> Folded(holds[asked], named) \in {"newer", "same"}
    BY <2>0, <2>5
  <2>7. reply = "gave" => Number(taken') <= Number(holds'[asked])
    BY <2>1, <2>3, <2>6, <1>0
  <2>8. Answered(reply)
    BY <2>0, <2>1, <2>4, <2>6, <2>7, <1>2, <1>4, <1>5 DEF Answered, Replies
  <2> QED BY <2>8
<1>9. CASE Fails
  <2>1. /\ own' = own /\ holds' = holds /\ taken' = taken
        /\ Replied("not admitted") \/ Replied("silent")
    BY <1>9 DEF Fails, homes
  <2>2. Answered("not admitted") \/ Answered("silent")
    BY <2>1, <1>2, <1>3, <1>4, <1>5 DEF Answered, Replies
  <2> QED BY <2>2
<1> QED BY <1>6, <1>7, <1>8, <1>9

\* A reply keeps the invariant.
LEMMA AnsweredInv ==
    ASSUME IInv, NEW reply, Answered(reply)
    PROVE  IInv'
<1>1. /\ asked \in Device /\ asked # Nobody /\ asked' = Nobody
      /\ queue' = Again(reply) /\ named' = None /\ heard' = FALSE /\ theirs' = None
      /\ until' = until /\ late' = late
      /\ replies' = [replies EXCEPT ![asked] = reply]
      /\ reply \in Replies /\ reply # "unasked"
  BY OrderDrawn DEF Answered, Replied
<1>2. /\ replies \in [Device -> Replies] /\ replies'[asked] = reply
      /\ \A d \in Device : d # asked => replies'[d] = replies[d]
  BY <1>1 DEF IInv, TypeOK
<1>3. /\ queue' \in Seq(Device) /\ Once(queue') /\ ~In(queue', asked)
      /\ reply = "took" /\ until = "newer" => queue' = <<>>
      /\ ~(reply = "took" /\ until = "newer") => \A d \in Device : In(queue, d) => In(queue', d)
      /\ reply = "took" /\ until = "every" =>
             \A d \in Device : d # asked /\ Behind(d) => In(queue', d)
  BY <1>1, Left DEF IInv
<1>4. TypeOK'
  <2>1. replies' \in [Device -> Replies]
    BY <1>1, <1>2
  <2>2. ~Queued(asked)'
    <3>1. \A i \in DOMAIN queue' : queue'[i] \in Device
      BY <1>3
    <3> QED BY <3>1, <1>1, OrderDrawn DEF Queued
  <2> QED BY <1>1, <1>3, <2>1, <2>2 DEF IInv, TypeOK, Answered, Once
<1>5. Levels'
  BY <1>1 DEF Levels, Answered
<1>6. Level'
  <2> SUFFICES ASSUME until = "every", taken' # None, NEW d \in Device, Behind(d)', ~In(queue', d)
               PROVE  Number(taken') <= Number(holds'[d])
    BY <1>1 DEF Level, In
  <2>1. CASE d = asked
    <3>1. reply \in {"same", "gave", "took"}
      BY <2>1, <1>2 DEF Behind
    <3> QED BY <2>1, <3>1 DEF Answered
  <2>2. CASE d # asked
    <3>1. Behind(d)
      BY <2>2, <1>2 DEF Behind
    <3>2. ~In(queue, d)
      BY <1>3
    <3>3. reply # "took"
      BY <2>2, <3>1, <1>3
    <3>4. taken' = taken
      BY <3>3 DEF Answered
    <3>5. Number(taken) <= Number(holds[d])
      BY <2>2, <3>1, <3>2, <3>4 DEF IInv, Level
    <3>6. /\ Number(taken) \in Nat /\ Number(holds[d]) \in Nat /\ Number(holds'[d]) \in Nat
          /\ Number(holds[d]) <= Number(holds'[d])
      BY Numbers DEF IInv, TypeOK, Answered
    <3> QED BY <3>4, <3>5, <3>6
  <2> QED BY <2>1, <2>2
<1>7. ASSUME until = "newer"
      PROVE  ~\E d \in Device : replies[d] = "took"
  BY <1>1, <1>7 DEF IInv, Stopped, Done
<1>8. Waiting'
  <2> SUFFICES ASSUME NEW d \in Device, replies'[d] = "unasked", ~In(queue', d)
               PROVE  until = "newer" /\ \E e \in Device : replies'[e] = "took"
    BY <1>1 DEF Waiting, In
  <2>1. d # asked /\ replies[d] = "unasked"
    BY <1>1, <1>2
  <2>2. In(queue, d) \/ (until = "newer" /\ \E e \in Device : replies[e] = "took")
    BY <2>1 DEF IInv, Waiting
  <2>3. In(queue, d)
    BY <2>2, <1>7
  <2>4. reply = "took" /\ until = "newer"
    BY <2>3, <1>3
  <2> QED BY <2>4, <1>1, <1>2
<1>9. Stopped'
  <2> SUFFICES ASSUME until = "newer", NEW d \in Device, replies'[d] = "took"
               PROVE  queue' = <<>>
    BY <1>1 DEF Stopped, Done
  <2>1. d = asked
    BY <1>2, <1>7
  <2> QED BY <2>1, <1>2, <1>3
<1> QED BY <1>4, <1>5, <1>6, <1>8, <1>9 DEF IInv

\* An update folded elsewhere keeps it.
LEMMA ElsewhereInv == IInv /\ Elsewhere => IInv'
<1> SUFFICES ASSUME IInv, Elsewhere
             PROVE  IInv'
  OBVIOUS
<1>0. UNCHANGED <<until, queue, replies, asked, named, heard, theirs, late, taken>>
  BY DEF Elsewhere
<1>1. PICK u \in Signed :
         \/ own' = Fold(own, u) /\ UNCHANGED holds
         \/ \E d \in Device : holds' = [holds EXCEPT ![d] = Fold(@, u)] /\ UNCHANGED own
  BY DEF Elsewhere
<1>2. /\ own \in Signed \cup {None} /\ taken \in Signed \cup {None} /\ theirs \in Signed \cup {None}
      /\ holds \in [Device -> Signed \cup {None}]
      /\ Number(own) \in Nat /\ Number(taken) \in Nat /\ Number(theirs) \in Nat
      /\ \A d \in Device : Number(holds[d]) \in Nat
  BY Numbers DEF IInv, TypeOK
<1>3. own' \in Signed \cup {None} /\ Number(own) <= Number(own')
  BY <1>1, <1>2, FoldUp
<1>4. /\ holds' \in [Device -> Signed \cup {None}]
      /\ \A d \in Device : Number(holds[d]) <= Number(holds'[d])
  <2>1. CASE UNCHANGED holds
    BY <2>1, <1>2
  <2>2. ASSUME NEW d \in Device, holds' = [holds EXCEPT ![d] = Fold(holds[d], u)]
        PROVE  <1>4!1 /\ <1>4!2
    <3>1. /\ Fold(holds[d], u) \in Signed \cup {None}
          /\ Number(holds[d]) <= Number(Fold(holds[d], u))
      BY <1>2, FoldUp
    <3>2. holds'[d] = Fold(holds[d], u) /\ \A e \in Device : e # d => holds'[e] = holds[e]
      BY <2>2, <1>2
    <3>3. holds' \in [Device -> Signed \cup {None}]
      BY <2>2, <3>1, <1>2
    <3>4. ASSUME NEW e \in Device
          PROVE  Number(holds[e]) <= Number(holds'[e])
      <4>1. CASE e = d
        BY <4>1, <3>1, <3>2
      <4>2. CASE e # d
        BY <4>2, <3>2, <1>2
      <4> QED BY <4>1, <4>2
    <3> QED BY <3>3, <3>4
  <2> QED BY <2>1, <2>2, <1>1
<1>5. Number(own') \in Nat /\ \A d \in Device : Number(holds'[d]) \in Nat
  BY <1>3, <1>4, Numbers
<1>6. TypeOK'
  BY <1>0, <1>3, <1>4 DEF IInv, TypeOK, Queued
<1>7. Levels'
  <2>1. Number(taken) <= Number(own')
    BY <1>2, <1>3, <1>5 DEF IInv, Levels
  <2>2. heard => asked \in Device /\ Number(theirs) <= Number(holds[asked])
    BY DEF IInv, Levels, TypeOK
  <2>3. heard => Number(theirs) <= Number(holds'[asked])
    BY <2>2, <1>2, <1>4, <1>5
  <2>4. taken' = taken /\ theirs' = theirs /\ asked' = asked /\ named' = named /\ heard' = heard
    BY <1>0
  <2> QED BY <2>1, <2>3, <2>4 DEF IInv, Levels
<1>8. Level'
  <2> SUFFICES ASSUME until = "every", taken # None, NEW d \in Device, Behind(d), d # asked, ~In(queue, d)
               PROVE  Number(taken) <= Number(holds'[d])
    BY <1>0 DEF Level, In, Behind
  <2>1. Number(taken) <= Number(holds[d])
    BY DEF IInv, Level
  <2> QED BY <2>1, <1>2, <1>4, <1>5
<1>9. Waiting' /\ Stopped'
  BY <1>0 DEF IInv, Waiting, Stopped, Done, In
<1> QED BY <1>6, <1>7, <1>8, <1>9 DEF IInv

\* The next device in the queue is asked.
LEMMA AskInv == IInv /\ Ask => IInv'
<1> SUFFICES ASSUME IInv, Ask
             PROVE  IInv'
  OBVIOUS
<1>1. /\ asked = Nobody /\ queue # <<>> /\ asked' = Head(queue) /\ queue' = Tail(queue) /\ named' = own
      /\ UNCHANGED <<own, holds, until, replies, heard, theirs, late, taken>>
  BY DEF Ask, homes
<1>2. queue \in Seq(Device) /\ Once(queue)
  BY DEF IInv, TypeOK, Once
<1>3. /\ Head(queue) \in Device /\ Tail(queue) \in Seq(Device)
      /\ Len(Tail(queue)) = Len(queue) - 1 /\ Len(queue) \in Nat \ {0}
      /\ DOMAIN queue = 1..Len(queue) /\ DOMAIN Tail(queue) = 1..(Len(queue) - 1)
      /\ Head(queue) = queue[1]
      /\ \A i \in 1..(Len(queue) - 1) : Tail(queue)[i] = queue[i + 1]
  BY <1>1, <1>2
<1>4. Once(queue') /\ ~In(queue', asked')
  <2>1. Once(Tail(queue))
    BY <1>2, <1>3 DEF Once
  <2>2. ~In(Tail(queue), Head(queue))
    BY <1>2, <1>3 DEF Once, In
  <2> QED BY <2>1, <2>2, <1>1
<1>5. ASSUME NEW d \in Device, In(queue, d)
      PROVE  d = asked' \/ In(queue', d)
  <2>1. PICK i \in 1..Len(queue) : queue[i] = d
    BY <1>3, <1>5 DEF In
  <2>2. CASE i = 1
    BY <2>1, <2>2, <1>1, <1>3
  <2>3. CASE i # 1
    <3>1. i - 1 \in 1..(Len(queue) - 1) /\ Tail(queue)[i - 1] = d
      BY <2>1, <2>3, <1>3
    <3> QED BY <3>1, <1>1, <1>3 DEF In
  <2> QED BY <2>2, <2>3
<1>6. TypeOK'
  BY <1>1, <1>3, <1>4 DEF IInv, TypeOK, Once, In, Queued
<1>7. Levels'
  BY <1>1 DEF IInv, Levels
<1>8. Level'
  <2> SUFFICES ASSUME until = "every", taken # None, NEW d \in Device, Behind(d), d # asked', ~In(queue', d)
               PROVE  Number(taken) <= Number(holds[d])
    BY <1>1 DEF Level, In, Behind
  <2>1. d # asked /\ ~In(queue, d)
    BY <1>1, <1>5, OrderDrawn
  <2> QED BY <2>1 DEF IInv, Level
<1>9. Waiting'
  <2> SUFFICES ASSUME NEW d \in Device, replies[d] = "unasked", d # asked', ~In(queue', d)
               PROVE  until = "newer" /\ \E e \in Device : replies[e] = "took"
    BY <1>1 DEF Waiting, In
  <2>1. d # asked /\ ~In(queue, d)
    BY <1>1, <1>5, OrderDrawn
  <2> QED BY <2>1 DEF IInv, Waiting
<1>10. Stopped'
  BY <1>1 DEF IInv, Stopped, Done
<1> QED BY <1>6, <1>7, <1>8, <1>9, <1>10 DEF IInv

\* The device asked compares.
LEMMA CompareInv == IInv /\ Compare => IInv'
<1> SUFFICES ASSUME IInv, Compare
             PROVE  IInv'
  OBVIOUS
<1>1. /\ asked # Nobody /\ heard' = TRUE /\ theirs' = holds[asked]
      /\ UNCHANGED <<own, holds, until, queue, replies, asked, named, late, taken>>
  BY DEF Compare, homes
<1>2. asked \in Device /\ holds[asked] \in Signed \cup {None}
  BY <1>1 DEF IInv, TypeOK
<1>3. TypeOK'
  BY <1>1, <1>2 DEF IInv, TypeOK, Queued
<1>4. Levels'
  <2>1. Number(holds[asked]) \in Nat
    BY <1>2, Numbers
  <2> QED BY <1>1, <2>1 DEF IInv, Levels
<1>5. Level' /\ Waiting' /\ Stopped'
  BY <1>1 DEF IInv, Level, Waiting, Stopped, Done, In, Behind
<1> QED BY <1>3, <1>4, <1>5 DEF IInv

\* The round's time passes.
LEMMA TimeUpInv == IInv /\ (TimeUp \/ UNCHANGED vars) => IInv'
<1> SUFFICES ASSUME IInv, TimeUp \/ UNCHANGED vars
             PROVE  IInv'
  OBVIOUS
<1>1. /\ late' \in BOOLEAN
      /\ UNCHANGED <<own, holds, until, queue, replies, asked, named, heard, theirs, taken>>
  BY DEF TimeUp, vars, homes, IInv, TypeOK
<1>2. TypeOK'
  BY <1>1 DEF IInv, TypeOK, Queued
<1>3. Levels' /\ Level' /\ Waiting' /\ Stopped'
  BY <1>1 DEF IInv, Levels, Level, Waiting, Stopped, Done, In, Behind
<1> QED BY <1>2, <1>3 DEF IInv

\* A round starts with the invariant,
LEMMA InitInv == Init => IInv
<1> SUFFICES ASSUME Init
             PROVE  IInv
  OBVIOUS
<1>1. TypeOK
  <2>1. ~Queued(asked)
    <3>1. \A i \in DOMAIN Order : Order[i] \in Device
      BY OrderDrawn
    <3> QED BY <3>1, OrderDrawn DEF Init, Queued
  <2> QED BY <2>1, OrderDrawn DEF Init, TypeOK, Once, Replies
<1>2. Levels
  BY Numbers DEF Init, Levels
<1>3. Level /\ Stopped
  BY DEF Init, Level, Stopped
<1>4. Waiting
  BY OrderDrawn DEF Init, Waiting, In
<1> QED BY <1>1, <1>2, <1>3, <1>4 DEF IInv

\* and each of its steps keeps it.
LEMMA NextInv == IInv /\ [Next]_vars => IInv'
<1> SUFFICES ASSUME IInv, [Next]_vars
             PROVE  IInv'
  OBVIOUS
<1>1. CASE EndsSame \/ EndsTheirs \/ EndsMine \/ Fails
  BY <1>1, EndsAnswered, AnsweredInv DEF IInv
<1> QED BY <1>1, ElsewhereInv, AskInv, CompareInv, TimeUpInv DEF Next, Asking

-----------------------------------------------------------------------------
(* What a round tells its caller *)

\* Whatever order is drawn and whatever else both ends fold meanwhile, a round that is over has asked every
\* device unless a take ended a round for a newer update, and reports none as level that holds less than
\* its last take brought (round, sync.rs 633-681).
THEOREM RoundIsTrue == Spec => []RoundTrue
<1>1. IInv => RoundTrue
  <2> SUFFICES ASSUME IInv
               PROVE  RoundTrue
    OBVIOUS
  <2>1. NoneBehind
    <3> SUFFICES ASSUME Done, until = "every", taken # None, NEW d \in Device,
                        replies[d] \in {"same", "gave", "took"}
                 PROVE  Number(holds[d]) >= taken.number
      BY DEF NoneBehind
    <3>1. d # asked /\ ~In(queue, d)
      BY OrderDrawn DEF Done, In
    <3>2. Number(taken) <= Number(holds[d])
      BY <3>1 DEF IInv, Level, Behind
    <3>3. /\ taken \in Signed /\ Number(taken) = taken.number /\ Number(taken) \in Nat
          /\ Number(holds[d]) \in Nat
      BY Numbers DEF IInv, TypeOK
    <3> QED BY <3>2, <3>3
  <2>2. EveryoneAsked
    <3> SUFFICES ASSUME Done, NEW d \in Device, replies[d] = "unasked"
                 PROVE  until = "newer" /\ \E e \in Device : replies[e] = "took"
      BY DEF EveryoneAsked
    <3>1. d # asked /\ ~In(queue, d)
      BY OrderDrawn DEF Done, In
    <3> QED BY <3>1 DEF IInv, Waiting
  <2> QED BY <2>1, <2>2 DEF IInv, RoundTrue
<1> QED BY <1>1, InitInv, NextInv, PTL DEF Spec

-----------------------------------------------------------------------------
(* The pick-up of a renewal                                                *)

ListShape  == [row : Nat, gone : Nat]
BadgeShape == [root : {"ours", "other"}, until : Nat]
ActShape ==
    [step : {"idle", "round", "picking"}, todo : SUBSET Peers, newer : BOOLEAN, refused : BOOLEAN, got : Nat,
     again : BOOLEAN, faults : Nat]

\* The rows the root has signed for this machine.
Rows == {lists[i].row : i \in 1 .. Len(lists)}

\* Each device holds a list the root signed, or none; this machine's standing is of its pin, and, when that is the root
\* of the lists, one the root signed, as is what it has fetched.
RenewalInv ==
    /\ now \in Nat
    /\ lists \in Seq(ListShape) /\ Len(lists) > 0
    /\ held \in [Peers -> 0 .. Len(lists)] /\ mine \in 0 .. Len(lists)
    /\ badge \in BadgeShape /\ badge.root = pin /\ (pin = "ours" => badge.until \in Rows)
    /\ act \in ActShape /\ act.got \in Rows \cup {0}

\* What a step may do to the standing: under one pin it only ever ends later, and never is one that the list this
\* machine then holds revokes.
OnlyLonger ==
    pin' = pin => \/ badge' = badge
                  \/ /\ badge'.root = pin /\ badge'.until > badge.until
                     /\ badge'.until \notin N!Gone(mine)'

LEMMA RowsNat == RenewalInv => Rows \subseteq Nat
<1> SUFFICES ASSUME RenewalInv, NEW i \in 1 .. Len(lists) PROVE lists[i].row \in Nat
  BY DEF Rows
<1>1. lists[i] \in ListShape
  BY DEF RenewalInv
<1> QED
  BY <1>1 DEF ListShape

LEMMA RenewalInit == MCInit => RenewalInv
<1> SUFFICES ASSUME N!Init PROVE RenewalInv
  BY DEF MCInit
<1> DEFINE first == [row |-> 2, gone |-> 0]
<1>1. first \in ListShape
  BY DEF ListShape
<1> HIDE DEF first
<1>2. lists = <<first>>
  BY DEF N!Init, first
<1>3. lists \in Seq(ListShape) /\ Len(lists) = 1 /\ lists[1] = first
  BY <1>1, <1>2
<1>4. 2 \in Rows
  BY <1>3 DEF Rows, first
<1>5. badge \in BadgeShape /\ act \in ActShape /\ act.got = 0
  BY DEF N!Init, N!Idle, BadgeShape, ActShape
<1> QED
  BY <1>3, <1>4, <1>5 DEF N!Init, RenewalInv

\* A step that signs nothing keeps the invariant if what it moves stays in it.
LEMMA SameLists ==
    ASSUME RenewalInv, UNCHANGED lists,
           now' \in Nat, held' \in [Peers -> 0 .. Len(lists)], mine' \in 0 .. Len(lists),
           badge' \in BadgeShape, badge'.root = pin', pin' = "ours" => badge'.until \in Rows,
           act' \in ActShape, act'.got \in Rows \cup {0}
    PROVE  RenewalInv'
BY DEF RenewalInv, Rows

\* What a peer answers is a row the root signed, or nothing.
LEMMA AnswerListed ==
    ASSUME RenewalInv, NEW p \in Peers
    PROVE  N!Answer(p) \in Rows \cup {0}
<1>1. held[p] \in 0 .. Len(lists) /\ Len(lists) \in Nat
  BY DEF RenewalInv
<1>2. held[p] # 0 => lists[held[p]].row \in Rows
  BY <1>1 DEF Rows
<1> QED
  BY <1>2 DEF N!Answer, N!Row

\* What an ask leaves of what this machine does, and what the steps of its own do.
LEMMA AskKept ==
    ASSUME RenewalInv, NEW p \in Peers, N!Exchange(p) \/ N!Refuse(p) \/ N!Silent(p) \/ N!Fetch(p)
    PROVE  act' \in ActShape /\ act'.got \in {act.got, N!Answer(p)}
<1>1. act \in ActShape /\ N!Answer(p) \in Nat
  BY AnswerListed, RowsNat DEF RenewalInv
<1>2. N!Asked(p) \in ActShape /\ N!Asked(p).got = act.got
  BY <1>1 DEF N!Asked, ActShape
<1> HIDE DEF N!Asked
<1>3. CASE N!Exchange(p)
  BY <1>1, <1>2, <1>3 DEF N!Exchange, ActShape
<1>4. CASE N!Refuse(p)
  BY <1>1, <1>2, <1>4 DEF N!Refuse, ActShape
<1>5. CASE N!Silent(p) \/ N!Fetch(p)
  BY <1>1, <1>2, <1>5 DEF N!Silent, N!Fetch, ActShape
<1> QED
  BY <1>3, <1>4, <1>5

LEMMA HomeKept ==
    ASSUME RenewalInv, N!Round \/ N!EndRound \/ N!BeforeDial \/ N!Missed \/ N!Take
    PROVE  act' \in ActShape /\ act'.got \in {act.got, 0}
<1> DEFINE idle == N!Idle
<1>1. act \in ActShape /\ idle \in ActShape /\ idle.got = 0
  BY DEF N!Idle, RenewalInv, ActShape
<1>2. \/ act' = [idle EXCEPT !.step = "round", !.todo = Peers, !.faults = act.faults]
      \/ act' = [idle EXCEPT !.faults = act.faults]
      \/ act' = [idle EXCEPT !.step = "picking", !.todo = Peers, !.again = TRUE, !.faults = act.faults]
      \/ act' = [idle EXCEPT !.step = "round", !.todo = Peers, !.again = TRUE, !.faults = act.faults]
      \/ act' = [act EXCEPT !.got = 0]
      \/ act' = [act EXCEPT !.step = "picking", !.todo = Peers]
      \/ act' = [act EXCEPT !.step = "picking", !.todo = {}]
  BY DEF N!Round, N!EndRound, N!BeforeDial, N!Missed, N!Take
<1> HIDE DEF idle
<1> QED
  BY <1>1, <1>2 DEF ActShape

LEMMA RenewalStep == RenewalInv /\ [MCNext]_all => RenewalInv' /\ [OnlyLonger]_renewal
<1> SUFFICES ASSUME RenewalInv, [MCNext]_all PROVE RenewalInv' /\ [OnlyLonger]_renewal
  OBVIOUS
<1>r. Rows \subseteq Nat /\ Len(lists) \in Nat
  BY RowsNat DEF RenewalInv
<1>1. ASSUME NEW p \in Peers, N!Exchange(p) PROVE RenewalInv' /\ OnlyLonger
  <2> DEFINE new == IF held[p] > mine THEN held[p] ELSE mine
             row == N!Row(new)
  <2>1. held[p] \in 0 .. Len(lists) /\ mine \in 0 .. Len(lists) /\ new \in 0 .. Len(lists)
    BY DEF RenewalInv
  <2>2. new > mine => row \in Rows
    BY <2>1, <1>r DEF N!Row, Rows
  <2>3. \/ UNCHANGED <<held, mine, badge>>
        \/ /\ held' = [held EXCEPT ![p] = new] /\ mine' = new /\ pin = "ours"
           /\ \/ badge' = badge
              \/ badge' = [badge EXCEPT !.until = row] /\ new > mine /\ row > badge.until /\ row \notin N!Gone(new)
    BY <1>1 DEF N!Exchange
  <2>4. UNCHANGED <<now, lists, pin>> /\ act' \in ActShape /\ act'.got \in Rows \cup {0}
    BY <1>1, AskKept, AnswerListed DEF N!Exchange, RenewalInv
  <2> HIDE DEF new, row
  <2>5. held' \in [Peers -> 0 .. Len(lists)] /\ mine' \in 0 .. Len(lists)
    BY <2>1, <2>3 DEF RenewalInv
  <2>6. badge' \in BadgeShape /\ badge'.root = pin /\ (pin = "ours" => badge'.until \in Rows)
    BY <2>2, <2>3, <1>r DEF RenewalInv, BadgeShape
  <2>7. RenewalInv'
    BY <2>4, <2>5, <2>6, SameLists DEF RenewalInv
  <2>8. OnlyLonger
    <3>1. CASE badge' = badge
      BY <3>1 DEF OnlyLonger
    <3>2. CASE badge' # badge
      <4>1. badge' = [badge EXCEPT !.until = row] /\ mine' = new /\ row > badge.until /\ row \notin N!Gone(new)
        BY <2>3, <3>2
      <4>2. badge'.until = row /\ N!Gone(new) = N!Gone(mine)'
        BY <4>1, <2>4 DEF RenewalInv, BadgeShape, N!Gone
      <4> QED
        BY <4>1, <4>2, <2>6 DEF OnlyLonger
    <3> QED
      BY <3>1, <3>2
  <2> QED
    BY <2>7, <2>8
<1>2. ASSUME NEW p \in Peers, N!Refuse(p) \/ N!Silent(p) \/ N!Fetch(p) PROVE RenewalInv' /\ OnlyLonger
  <2>1. UNCHANGED <<now, lists, held, pin, badge, mine>>
    BY <1>2 DEF N!Refuse, N!Silent, N!Fetch
  <2>2. act' \in ActShape /\ act'.got \in Rows \cup {0}
    BY <1>2, AskKept, AnswerListed DEF RenewalInv
  <2> QED
    BY <2>1, <2>2, SameLists DEF RenewalInv, OnlyLonger
<1>3. ASSUME NEW p \in Peers, NEW q \in Peers, N!Spread(p, q) PROVE RenewalInv' /\ OnlyLonger
  BY <1>3, SameLists DEF N!Spread, RenewalInv, OnlyLonger
<1>4. CASE N!Sign
  <2> PICK row \in Nat, gone \in Nat, p \in Peers :
           /\ lists' = Append(lists, [row |-> row, gone |-> gone])
           /\ held' = [held EXCEPT ![p] = Len(lists')]
    <3>1. N!Row(Len(lists)) \in Nat /\ lists[Len(lists)].gone \in Nat
      <4>1. lists[Len(lists)] \in ListShape /\ Len(lists) # 0
        BY <1>r DEF RenewalInv
      <4> QED
        BY <4>1 DEF N!Row, ListShape
    <3>2. /\ \A x \in N!Row(Len(lists)) .. LastDay + 1 : x \in Nat
          /\ \A x \in lists[Len(lists)].gone .. LastDay : x \in Nat
      BY <3>1, ReachingAssumption
    <3> QED
      BY <1>4, <3>2 DEF N!Sign
  <2> DEFINE new == [row |-> row, gone |-> gone]
  <2>1. new \in ListShape
    BY DEF ListShape
  <2> HIDE DEF new
  <2>2. lists' = Append(lists, new)
    BY DEF new
  <2>3. /\ lists' \in Seq(ListShape) /\ Len(lists') = Len(lists) + 1
        /\ \A i \in 1 .. Len(lists) : lists'[i] = lists[i]
    BY <2>1, <2>2 DEF RenewalInv
  <2>4. Rows \subseteq Rows'
    BY <2>3, <1>r DEF Rows
  <2>5. held' \in [Peers -> 0 .. Len(lists')] /\ mine \in 0 .. Len(lists')
    BY <2>3, <1>r DEF RenewalInv
  <2>6. UNCHANGED <<now, pin, badge, mine, act>>
    BY <1>4 DEF N!Sign
  <2>7. RenewalInv'
    <3>1. now' \in Nat /\ lists' \in Seq(ListShape) /\ Len(lists') > 0
      BY <2>3, <2>6, <1>r DEF RenewalInv
    <3>2. badge' \in BadgeShape /\ badge'.root = pin' /\ (pin' = "ours" => badge'.until \in Rows')
      BY <2>4, <2>6 DEF RenewalInv
    <3>3. act' \in ActShape /\ act'.got \in Rows' \cup {0}
      BY <2>4, <2>6 DEF RenewalInv
    <3> QED
      BY <2>5, <2>6, <3>1, <3>2, <3>3 DEF RenewalInv
  <2> QED
    BY <2>6, <2>7 DEF OnlyLonger
<1>5. CASE N!Tick
  BY <1>5, SameLists DEF N!Tick, RenewalInv, OnlyLonger
<1>6. CASE N!Round \/ N!EndRound \/ N!BeforeDial \/ N!Missed
  <2>1. UNCHANGED <<now, lists, held, pin, badge, mine>>
    BY <1>6 DEF N!Round, N!EndRound, N!BeforeDial, N!Missed
  <2>2. act' \in ActShape /\ act'.got \in Rows \cup {0}
    BY <1>6, HomeKept DEF RenewalInv
  <2> QED
    BY <2>1, <2>2, SameLists DEF RenewalInv, OnlyLonger
<1>7. CASE N!Take
  <2>1. UNCHANGED <<now, lists, held, pin, mine>> /\ act' \in ActShape /\ act'.got \in Rows \cup {0}
    BY <1>7, HomeKept DEF N!Take, RenewalInv
  <2>2. \/ badge' = badge
        \/ /\ badge' = [root |-> "ours", until |-> act.got]
           /\ pin = "ours" /\ act.got # 0 /\ act.got > badge.until /\ act.got \notin N!Gone(mine)
    BY <1>7 DEF N!Take, N!Takes, N!Denied
  <2>3. RenewalInv'
    <3>1. badge' \in BadgeShape /\ badge'.root = pin /\ (pin = "ours" => badge'.until \in Rows)
      <4>1. act.got # 0 => act.got \in Rows /\ [root |-> "ours", until |-> act.got] \in BadgeShape
        BY <1>r DEF RenewalInv, BadgeShape
      <4> QED
        BY <2>2, <4>1 DEF RenewalInv
    <3> QED
      BY <2>1, <3>1, SameLists DEF RenewalInv
  <2>4. OnlyLonger
    BY <2>1, <2>2 DEF OnlyLonger, N!Gone
  <2> QED
    BY <2>3, <2>4
<1>8. CASE N!Switch
  <2>1. LastDay \in Nat /\ 0 \in 0 .. Len(lists)
    BY <1>r, ReachingAssumption
  <2>2. badge' \in BadgeShape /\ badge'.root = pin'
    BY <1>8, <2>1 DEF N!Switch, BadgeShape
  <2> QED
    BY <1>8, <2>1, <2>2, SameLists DEF N!Switch, RenewalInv, OnlyLonger
<1>9. CASE N!Join
  <2>1. N!Row(Len(lists)) \in Rows
    BY <1>r DEF N!Row, Rows, RenewalInv
  <2>2. badge' \in BadgeShape /\ badge'.root = pin' /\ badge'.until \in Rows
    BY <1>9, <1>r, <2>1 DEF N!Join, BadgeShape
  <2> QED
    BY <1>9, <2>2, SameLists DEF N!Join, RenewalInv, OnlyLonger
<1>10. CASE N!Revoke
  BY <1>10, SameLists DEF N!Revoke, RenewalInv, OnlyLonger
<1>11. CASE UNCHANGED renewal
  BY <1>11, SameLists DEF renewal, RenewalInv
<1>12. CASE N!Next
  BY <1>12, <1>1, <1>2, <1>3, <1>4, <1>5, <1>6, <1>7, <1>8, <1>9, <1>10 DEF N!Next, N!Asks
<1>13. N!Next \/ UNCHANGED renewal
  BY DEF MCNext, InRound, InRenewal, InDial, all
<1> QED
  BY <1>11, <1>12, <1>13

\* Whatever the peers hold and whenever the home changes hands: the standing this machine presents for the root of the
\* lists is one that root signed for it, and under one pin a step only ever gives it one that ends later and that the
\* list it then holds does not revoke (joining.rs 80-87, roster/fold.rs).
StandingSigned == badge.root = "ours" => badge.until \in Rows

THEOREM StandingIsSigned == MCSpec => []StandingSigned /\ [][OnlyLonger]_renewal
<1>1. RenewalInv => StandingSigned
  BY DEF RenewalInv, StandingSigned
<1> QED
  BY <1>1, RenewalInit, RenewalStep, PTL DEF MCSpec

\* The standing of the other root.
Other == [root |-> "other", until |-> LastDay]

\* The newest row ends last; a standing put aside is one of the other root, or one the root of the lists signed, and ends
\* before the one this machine presents for that root.
LeftInv ==
    /\ \A r \in Rows : r <= N!Row(Len(lists))
    /\ \A x \in left : x \in BadgeShape /\ (x.root = "ours" => x.until \in Rows)
    /\ \A x \in left : x.root = badge.root => x.root = "ours" /\ x.until < badge.until
    /\ \A x \in left \cup {badge} : x.root = "other" => x = Other

\* A step that leaves the standing and the lists as they are, or gives a later one of the root of the lists.
LEMMA LeftKept ==
    ASSUME RenewalInv, RenewalInv', LeftInv, UNCHANGED lists, N!Replaces \/ UNCHANGED left,
           \/ badge' = badge
           \/ /\ N!Replaces /\ badge.root = "ours" /\ badge'.root = "ours" /\ badge'.until > badge.until
    PROVE  LeftInv'
<1>1. UNCHANGED <<Rows, N!Row(Len(lists))>> /\ badge \in BadgeShape /\ (badge.root = "ours" => badge.until \in Rows)
  BY DEF RenewalInv, Rows, N!Row
<1>2. CASE badge' = badge
  <2>1. left' = left
    BY <1>2 DEF N!Replaces
  <2> QED
    BY <1>1, <1>2, <2>1 DEF LeftInv
<1>3. CASE badge' # badge
  <2>1. left' = left \cup {badge} /\ badge.root = "ours" /\ badge'.root = "ours" /\ badge'.until > badge.until
    BY <1>3 DEF N!Replaces
  <2>2. badge.until \in Nat /\ badge'.until \in Nat /\ badge'.until > badge.until
    BY <2>1 DEF RenewalInv, BadgeShape
  <2>3. \A x \in left' : x \in BadgeShape /\ (x.root = "ours" => x.until \in Rows)
    BY <1>1, <2>1 DEF LeftInv
  <2>4. ASSUME NEW x \in left', x.root = badge'.root PROVE x.root = "ours" /\ x.until <= badge.until /\ x.until \in Nat
    <3>1. x.until \in Nat
      BY <2>3 DEF BadgeShape
    <3> QED
      BY <3>1, <2>1, <2>2, <2>4 DEF LeftInv
  <2>5. \A x \in left' \cup {badge'} : x.root = "other" => x = Other
    BY <2>1 DEF LeftInv
  <2> QED
    BY <1>1, <2>1, <2>2, <2>3, <2>4, <2>5 DEF LeftInv
<1> QED
  BY <1>2, <1>3

LEMMA LeftInit == MCInit => LeftInv
<1> SUFFICES ASSUME N!Init PROVE LeftInv
  BY DEF MCInit
<1> DEFINE first == [row |-> 2, gone |-> 0]
<1>1. lists = <<first>> /\ first.row = 2
  BY DEF N!Init
<1> HIDE DEF first
<1>2. Len(lists) = 1 /\ lists[1].row = 2
  BY <1>1
<1>3. Rows = {2} /\ N!Row(Len(lists)) = 2
  BY <1>2 DEF Rows, N!Row
<1> QED
  BY <1>3 DEF N!Init, LeftInv

\* The root signs a row that ends no sooner than those before it.
LEMMA LeftSigned == ASSUME RenewalInv, LeftInv, N!Sign PROVE LeftInv'
<1>r. Rows \subseteq Nat /\ Len(lists) \in Nat /\ Len(lists) > 0
  BY RowsNat DEF RenewalInv
<1>1. N!Row(Len(lists)) \in Rows
  BY <1>r DEF N!Row, Rows
<1>2. PICK row \in N!Row(Len(lists)) .. LastDay + 1, gone \in lists[Len(lists)].gone .. LastDay :
         lists' = Append(lists, [row |-> row, gone |-> gone])
  BY DEF N!Sign
<1>3. row \in Nat /\ row >= N!Row(Len(lists))
  <2> DEFINE last == N!Row(Len(lists))
  <2>1. last \in Nat /\ row \in last .. LastDay + 1
    BY <1>r, <1>1, <1>2
  <2>3. LastDay + 1 \in Nat
    BY ReachingAssumption
  <2> HIDE DEF last
  <2>2. row \in Nat /\ row >= last
    BY <2>1, <2>3
  <2> QED
    BY <2>2 DEF last
<1> DEFINE new == [row |-> row, gone |-> gone]
<1>4. new.row = row
  OBVIOUS
<1> HIDE DEF new
<1>5. lists' = Append(lists, new)
  BY <1>2 DEF new
<1>6. /\ Len(lists') = Len(lists) + 1 /\ lists'[Len(lists) + 1] = new
      /\ \A i \in 1 .. Len(lists) : lists'[i] = lists[i]
  BY <1>5 DEF RenewalInv
<1>7. N!Row(Len(lists))' = row
  BY <1>4, <1>6, <1>r DEF N!Row
<1>8. Rows' \subseteq Rows \cup {row} /\ Rows \subseteq Rows'
  BY <1>4, <1>6, <1>r DEF Rows
<1>9. \A r \in Rows' : r <= N!Row(Len(lists))'
  <2> SUFFICES ASSUME NEW r \in Rows, r # row PROVE r <= row
    BY <1>3, <1>7, <1>8
  <2> DEFINE last == N!Row(Len(lists))
  <2>1. r <= last /\ last <= row /\ r \in Nat /\ last \in Nat
    BY <1>1, <1>3, <1>r DEF LeftInv
  <2> HIDE DEF last
  <2> QED
    BY <2>1, <1>3
<1>10. UNCHANGED <<badge, left>>
  BY DEF N!Sign
<1> QED
  BY <1>8, <1>9, <1>10 DEF LeftInv

\* A person joins it away, or back: the standing given is the other root's one, or the newest of this one.
LEMMA LeftGiven == ASSUME RenewalInv, RenewalInv', LeftInv, N!Switch \/ N!Join PROVE LeftInv'
<1>r. Rows \subseteq Nat /\ UNCHANGED <<Rows, N!Row(Len(lists))>>
  BY RowsNat DEF Rows, N!Row, N!Switch, N!Join
<1>1. left' = (left \cup {badge}) \ {badge'}
  BY DEF N!Switch, N!Join, N!Given
<1>2. badge \in BadgeShape /\ badge' \in BadgeShape /\ (badge.root = "ours" => badge.until \in Rows)
  BY DEF RenewalInv
<1>3. \A x \in left' : x \in BadgeShape /\ (x.root = "ours" => x.until \in Rows)
  BY <1>1, <1>2, <1>r DEF LeftInv
<1>4. \/ badge' = Other /\ badge'.root = "other"
      \/ badge'.root = "ours" /\ badge'.until = N!Row(Len(lists))
  BY DEF N!Switch, N!Join, Other
<1>5. \A x \in left' \cup {badge'} : x.root = "other" => x = Other
  BY <1>1, <1>4 DEF LeftInv
<1>6. ASSUME NEW x \in left', x.root = badge'.root PROVE x.root = "ours" /\ x.until < badge'.until
  <2>1. x # badge' /\ x \in BadgeShape
    BY <1>1, <1>3
  <2>2. badge'.root = "ours"
    BY <1>4, <1>5, <1>6, <2>1
  <2>3. x.until \in Rows /\ x.until <= badge'.until
    BY <1>3, <1>4, <1>6, <2>2, <1>r DEF LeftInv
  <2>4. x.until # badge'.until
    BY <1>2, <1>6, <2>1 DEF BadgeShape
  <2>5. x.until \in Nat /\ badge'.until \in Nat
    BY <2>1, <1>2 DEF BadgeShape
  <2>6. x.until < badge'.until
    BY <2>3, <2>4, <2>5
  <2> QED
    BY <1>6, <2>2, <2>6
<1> QED
  BY <1>3, <1>5, <1>6, <1>r DEF LeftInv

LEMMA LeftStep == RenewalInv /\ RenewalInv' /\ [OnlyLonger]_renewal /\ LeftInv /\ [MCNext]_all => LeftInv'
<1> SUFFICES ASSUME RenewalInv, RenewalInv', [OnlyLonger]_renewal, LeftInv, [MCNext]_all PROVE LeftInv'
  OBVIOUS
<1>1. ASSUME NEW p \in Peers, N!Exchange(p) PROVE LeftInv'
  <2>1. N!Replaces /\ UNCHANGED <<lists, pin>> /\ (badge' # badge => pin = "ours")
    BY <1>1 DEF N!Exchange
  <2>2. badge' # badge => badge'.root = pin /\ badge.root = pin /\ badge'.until > badge.until
    BY <2>1 DEF OnlyLonger, renewal, RenewalInv
  <2> QED
    BY <2>1, <2>2, LeftKept
<1>2. CASE N!Take
  <2>1. N!Replaces /\ UNCHANGED <<lists, pin>> /\ (badge' # badge => pin = "ours")
    BY <1>2 DEF N!Take, N!Takes
  <2>2. badge' # badge => badge'.root = pin /\ badge.root = pin /\ badge'.until > badge.until
    BY <2>1 DEF OnlyLonger, renewal, RenewalInv
  <2> QED
    BY <2>1, <2>2, LeftKept
<1>3. ASSUME NEW p \in Peers, N!Refuse(p) \/ N!Silent(p) \/ N!Fetch(p) \/ (\E q \in Peers : N!Spread(p, q))
      PROVE  LeftInv'
  <2>1. UNCHANGED <<lists, badge, left>>
    BY <1>3 DEF N!Refuse, N!Silent, N!Fetch, N!Spread
  <2> QED
    BY <2>1, LeftKept
<1>4. CASE N!Tick \/ N!Round \/ N!EndRound \/ N!BeforeDial \/ N!Missed \/ N!Revoke
  <2>1. UNCHANGED <<lists, badge, left>>
    BY <1>4 DEF N!Tick, N!Round, N!EndRound, N!BeforeDial, N!Missed, N!Revoke
  <2> QED
    BY <2>1, LeftKept
<1>5. CASE UNCHANGED renewal
  <2>1. UNCHANGED <<lists, badge, left>>
    BY <1>5 DEF renewal
  <2> QED
    BY <2>1, LeftKept
<1>6. CASE N!Next
  BY <1>6, <1>1, <1>2, <1>3, <1>4, LeftSigned, LeftGiven DEF N!Next, N!Asks
<1>7. N!Next \/ UNCHANGED renewal
  BY DEF MCNext, InRound, InRenewal, InDial, all
<1> QED
  BY <1>5, <1>6, <1>7

\* Whatever spreads late, lags or is still on its way, a standing this machine put aside, for a later one or for another
\* root, it never presents again until a person gives it that very one (joining.rs 80-87, renewal.rs 256-262).
THEOREM NothingComesBack == MCSpec => []NothingBack
<1>1. RenewalInv /\ LeftInv => NothingBack
  <2> SUFFICES ASSUME RenewalInv, LeftInv, badge \in left PROVE FALSE
    BY DEF NothingBack, N!NothingBack
  <2>1. badge.until < badge.until
    BY DEF LeftInv
  <2>2. badge.until \in Nat
    BY DEF RenewalInv, BadgeShape
  <2> QED
    BY <2>1, <2>2
<1> QED
  BY <1>1, RenewalInit, LeftInit, RenewalStep, LeftStep, PTL DEF MCSpec

=============================================================================
