------------------------------ MODULE HomeProofs ------------------------------
(***************************************************************************)
(* Proofs about Home, for any commands, roots and keys, and any number of  *)
(* verbs, stops and list numbers.                                          *)
(***************************************************************************)
EXTENDS Home, SequenceTheorems, TLAPS

-----------------------------------------------------------------------------
(* What a home is like between any two files. *)

\* The lists there are have numbers from 1.
Lists == {l \in List : l.number > 0}

Homes == {f \in Files : f.list \in Lists \cup {None} /\ f.copyList \in Lists \cup {None}}

\* A root kept here and a pin are the same root, and its list is here.
OneRoot(f) ==
    LiveRoot(f) # None /\ LivePin(f) # None =>
        LivePin(f) = LiveRoot(f) /\ f.list # None /\ f.list.root = LiveRoot(f)

\* A device's list is its root's.
DeviceList(f) ==
    LiveRoot(f) = None /\ LivePin(f) # None /\ f.badge # None /\ f.badge.root = LivePin(f) /\ f.list # None
        => f.list.root = LivePin(f)

\* A standing beside a root without its pin is that root's, or of one revoked here.
HalfMade(f) ==
    LiveRoot(f) # None /\ LivePin(f) = None /\ f.badge # None => f.badge.root \in f.revoked \cup {LiveRoot(f)}

\* A root kept here after it was revoked leaves no standing.
Spent(f) ==
    f.root # None /\ f.root \in f.revoked => LivePin(f) = None /\ (f.badge # None => f.badge.root \in f.revoked)

Good(f) == OneRoot(f) /\ DeviceList(f) /\ HalfMade(f) /\ Spent(f)

\* One file to write, of a value its kind allows.
Writes ==
    [name : {"key"}, to : Key, cut : {FALSE}]
    \cup [name : {"root", "pin", "invited"}, to : Root \cup {None}, cut : {FALSE}]
    \cup [name : {"badge"}, to : Badge \cup {None}, cut : {FALSE}]
    \cup [name : {"list"}, to : Lists \cup {None}, cut : {FALSE}]
    \cup [name : {"list"}, to : Lists, cut : {TRUE}]
    \cup [name : {"revoked"}, to : SUBSET Root, cut : {FALSE}]
    \cup [name : {"copyKey"}, to : Root, cut : {FALSE}]
    \cup [name : {"copyList"}, to : Lists, cut : {FALSE}]

Ats == {"idle", "printed", "asked", "armed", "locked", "writing", "syncing", "undoing", "recutting"}

Actions ==
    [verb : Verbs \cup {"none"}, at : Ats, root : Root \cup {None}, was : Standings,
     own : Key \cup {None}, list : Lists \cup {None}, held : Root \cup {None}, number : Nat,
     made : Key \cup {None}, todo : Seq(Writes)]

Residents == [by : Proc \cup {None, "serve"}, key : Key \cup {None}, admit : Root \cup {None}]

Shape ==
    /\ files \in Homes
    /\ lock \in Proc \cup {None}
    /\ resident \in Residents
    /\ acts \in [Proc -> Actions]
    /\ signed \subseteq Lists
    /\ begun \in 0 .. MaxActs /\ stops \in 0 .. MaxStops
    /\ stopped \subseteq Verbs
    /\ \A p \in Proc : acts[p].at \in {"locked", "writing"} <=> lock = p
    /\ \E l \in signed : FirstKey \in l.rows

\* What a verb has read.
Reading(a) ==
    /\ a.at = "printed"   => a.verb = "join"
    /\ a.at = "armed"     => a.verb = "new key"
    /\ a.at = "syncing"   => a.verb = "restore" /\ a.root # None
    /\ a.at = "undoing"   => a.verb = "undo"
    /\ a.at = "recutting" => a.verb = "recut" /\ a.root # None
    /\ a.at # "idle" => a.verb # "none"
    /\ a.at \notin {"idle", "printed"} => a.own # None
    /\ a.verb \in {"join", "mint", "finish", "restore", "backup", "forget", "revoke"}
       /\ a.at \in {"asked", "locked", "writing"} => a.root # None
    /\ a.verb = "join" /\ a.at = "asked" => a.was.is \in {"unpinned", "switching", "device"}
    /\ a.verb = "leave" /\ a.at = "asked" => CanLeave(a.was)
    /\ a.verb = "new key" /\ a.at \in {"asked", "armed"} => CanLeave(a.was) \/ a.was = Unpinned
    /\ a.verb = "mint" /\ a.at = "asked" => a.was = Unpinned
    /\ a.verb = "finish" /\ a.at = "asked"
         => a.was = Minting(a.root) /\ (a.list # None => a.list.root = a.root)
    /\ a.verb = "restore" /\ a.at = "asked"
         => /\ a.was \in {Unpinned, Minting(a.root), Device(a.root)}
            /\ a.list # None /\ a.list.root = a.root
    /\ a.verb = "backup" /\ a.at \in {"asked", "locked", "writing"} => a.held \in {None, a.root}
    /\ a.verb = "forget" /\ a.at = "asked" => a.list # None

\* The key a verb read is FirstKey while the machine has it: it never gets it back.
FirstRead(a, f) ==
    a.at \notin {"idle", "printed"} /\ (a.verb = "join" => a.made = None) /\ f.key = FirstKey => a.own = FirstKey

Pasted(a) == a.verb = "join" /\ a.made # None /\ a.at = "asked" => a.own # FirstKey

\* What a backup and a forget do with the copy, and have done of it.
CopyTodo(a, f) ==
    LET l == File("copyList", f.list)
        k == File("copyKey", f.root)
        r == File("root", None)
    IN  /\ a.verb = "backup" /\ a.at = "asked" => (a.list # None => f.copyList # None)
        /\ a.verb = "backup" /\ a.at \in {"locked", "writing"} =>
             /\ a.todo \in {<<>>, <<l>>, <<k>>, <<l, k>>}
             /\ a.todo \in {<<>>, <<k>>} => f.list = None \/ f.copyList # None
             /\ a.todo \in {<<>>, <<l>>} => a.held = f.root \/ f.copyKey = f.root
        /\ a.verb = "forget" /\ a.at \in {"locked", "writing"} =>
             /\ f.copyKey = a.root /\ f.list # None /\ f.copyList # None
             /\ a.todo \in {<<>>, <<l>>, <<r>>, <<l, r>>}
             /\ a.todo \in {<<>>, <<r>>} => f.copyList.number >= f.list.number

\* The list a finish read is still that root's.
StillOwn(a, f) ==
    a.verb = "finish" /\ a.at = "asked" /\ LiveRoot(f) = a.root =>
        /\ a.list # None => f.list # None
        /\ f.list # None => f.list.root = a.root

\* What one verb has read, beside the home as it is now.
Read(a, f) == Reading(a) /\ FirstRead(a, f) /\ Pasted(a) /\ StillOwn(a, f) /\ CopyTodo(a, f)

\* A root its mint has not put here yet is nowhere, and nobody else's but to revoke.
Unborn(a, f) ==
    a.verb = "mint" /\ (a.at = "asked" \/ (a.at \in {"locked", "writing"} /\ f.root # a.root))

Alone(p, a) ==
    /\ a.root \notin {files.root, files.copyKey} \cup Abroad
    /\ \A q \in Proc \ {p} : acts[q].root = a.root => acts[q].verb = "revoke"

Unheard == \A p \in Proc : Unborn(acts[p], files) => Alone(p, acts[p])

\* What the serve s holds beside a verb, and beside the home.
Pinning == {"join", "mint", "finish", "restore"}

Beside(p, a, s) ==
    /\ a.verb \in Pinning /\ a.at \in {"locked", "writing"} => s.admit = None
    /\ a.verb = "new key" /\ a.at \in {"armed", "locked", "writing"} => s = [Free EXCEPT !.by = p]

Alongside ==
    /\ NeverBoth /\ KeyServed
    /\ \A p \in Proc : Beside(p, acts[p], resident)

-----------------------------------------------------------------------------
(* The files a verb writes one by one, and the homes they lead through.  A copy's list is left out: the copy may be *)
(* used elsewhere meanwhile.                                                                                       *)

Here(f) == [f EXCEPT !.copyList = None]

Put(f, w) == IF w.name = "copyList" THEN f ELSE [f EXCEPT ![w.name] = w.to]

\* A home that is right while the verb writes, and if it stops there.
Sound(v, by, f) == f \in Homes /\ Good(f) /\ (f.key = FirstKey => Named(f, by \cup {v}))

\* No list comes beside a root that another root signed, but where a mint puts its own.
ListStays(v, r, f, g) ==
    LiveRoot(g) # None =>
        \/ LiveRoot(f) = LiveRoot(g) /\ g.list = f.list
        \/ g.list # None /\ g.list.root = LiveRoot(g)
        \/ v = "mint" /\ LiveRoot(g) = r /\ f.root # r

\* A root that goes is revoked, or its copy stays.
Loses(v, f, g) ==
    \A c \in Root : c \in {f.root, f.copyKey} /\ c \notin {g.root, g.copyKey} =>
        c \in f.revoked \/ v = "undo" \/ (v = "backup" /\ g.root = f.root /\ g.copyKey = f.root)

\* What one file of a verb about r may change.
Fair(v, r, f, g) ==
    /\ f.revoked \subseteq g.revoked
    /\ LivePin(g) # None => LivePin(f) # None \/ v \in Pinning
    /\ g.key # f.key => v = "new key" /\ g.key # FirstKey
    /\ g.root \in {None, f.root} \/ (v \in {"mint", "restore"} /\ g.root = r)
    /\ v = "mint" /\ f.root = r => g.root = r
    /\ g.copyKey \in {f.copyKey, f.root}
    /\ ListStays(v, r, f, g)
    /\ Loses(v, f, g)

\* The writes t lead from f to g, every home between them right.
Path(v, r, by, f, t, g) ==
    /\ t \in Seq(Writes)
    /\ \E c \in Seq(Homes) :
         /\ Len(c) = Len(t) + 1
         /\ c[1] = f /\ c[Len(c)] = g
         /\ \A i \in 1 .. Len(c) : Sound(v, by, c[i])
         /\ \A i \in 1 .. Len(t) : c[i + 1] = Put(c[i], t[i]) /\ Fair(v, r, c[i], c[i + 1])

LEMMA PathNone ==
    ASSUME NEW v, NEW r, NEW by, NEW f, Sound(v, by, f)
    PROVE  Path(v, r, by, f, <<>>, f)
<1> DEFINE c == <<f>>
<1>1. c \in Seq(Homes) /\ Len(c) = 1 /\ c[1] = f
  BY DEF Sound
<1>2. <<>> \in Seq(Writes) /\ Len(<<>>) = 0
  OBVIOUS
<1> HIDE DEF c
<1> QED BY <1>1, <1>2 DEF Path

LEMMA PathOne ==
    ASSUME NEW v, NEW r, NEW by, NEW f, NEW w \in Writes,
           Sound(v, by, f), Sound(v, by, Put(f, w)), Fair(v, r, f, Put(f, w))
    PROVE  Path(v, r, by, f, <<w>>, Put(f, w))
<1> DEFINE g == Put(f, w)
           c == <<f, g>>
           t == <<w>>
<1>0. f \in Homes /\ g \in Homes
  BY DEF Sound
<1>1. c \in Seq(Homes) /\ Len(c) = 2 /\ c[1] = f /\ c[2] = g
  BY <1>0
<1>2. t \in Seq(Writes) /\ Len(t) = 1 /\ t[1] = w
  OBVIOUS
<1>3. Sound(v, by, f) /\ Sound(v, by, g) /\ Fair(v, r, f, g) /\ g = Put(f, w)
  OBVIOUS
<1> HIDE DEF c, t, g
<1>4. /\ \A i \in 1 .. Len(c) : Sound(v, by, c[i])
      /\ \A i \in 1 .. Len(t) : c[i + 1] = Put(c[i], t[i]) /\ Fair(v, r, c[i], c[i + 1])
  <2>1. ASSUME NEW i \in 1 .. Len(c) PROVE Sound(v, by, c[i])
    <3>1. i = 1 \/ i = 2
      BY <1>1
    <3> QED BY <3>1, <1>1, <1>3
  <2>2. ASSUME NEW i \in 1 .. Len(t) PROVE c[i + 1] = Put(c[i], t[i]) /\ Fair(v, r, c[i], c[i + 1])
    <3>1. i = 1 /\ i + 1 = 2
      BY <1>2
    <3> QED BY <3>1, <1>1, <1>2, <1>3
  <2> QED BY <2>1, <2>2
<1>5. Path(v, r, by, f, t, g)
  <2>1. Len(c) = Len(t) + 1 /\ c[1] = f /\ c[Len(c)] = g
    BY <1>1, <1>2
  <2> QED BY <2>1, <1>1, <1>2, <1>4 DEF Path
<1> QED BY <1>5 DEF t, g

LEMMA PathJoin ==
    ASSUME NEW v, NEW r, NEW by, NEW f, NEW s, NEW g, NEW t, NEW h,
           Path(v, r, by, f, s, g), Path(v, r, by, g, t, h)
    PROVE  Path(v, r, by, f, s \o t, h)
<1>1. PICK c \in Seq(Homes) :
         /\ Len(c) = Len(s) + 1
         /\ c[1] = f /\ c[Len(c)] = g
         /\ \A i \in 1 .. Len(c) : Sound(v, by, c[i])
         /\ \A i \in 1 .. Len(s) : c[i + 1] = Put(c[i], s[i]) /\ Fair(v, r, c[i], c[i + 1])
  BY DEF Path
<1>2. PICK d \in Seq(Homes) :
         /\ Len(d) = Len(t) + 1
         /\ d[1] = g /\ d[Len(d)] = h
         /\ \A i \in 1 .. Len(d) : Sound(v, by, d[i])
         /\ \A i \in 1 .. Len(t) : d[i + 1] = Put(d[i], t[i]) /\ Fair(v, r, d[i], d[i + 1])
  BY DEF Path
<1>3. s \in Seq(Writes) /\ t \in Seq(Writes)
  BY DEF Path
<1> DEFINE m == Len(s)
           n == Len(t)
           u == s \o t
           e == [i \in 1 .. m + n + 1 |-> IF i <= m THEN c[i] ELSE d[i - m]]
<1>4. m \in Nat /\ n \in Nat
  BY <1>3, LenProperties
<1>5. u \in Seq(Writes) /\ Len(u) = m + n
  BY <1>3, ConcatProperties
<1>6. \A i \in 1 .. m + n : u[i] = IF i <= m THEN s[i] ELSE t[i - m]
  BY <1>3, ConcatProperties
<1>7. e \in Seq(Homes) /\ Len(e) = m + n + 1
  <2>1. ASSUME NEW i \in 1 .. m + n + 1 PROVE (IF i <= m THEN c[i] ELSE d[i - m]) \in Homes
    <3>1. CASE i <= m
      <4>1. i \in 1 .. Len(c)
        BY <1>1, <1>4, <3>1
      <4> QED BY <4>1, <3>1, <1>1, ElementOfSeq
    <3>2. CASE ~(i <= m)
      <4>1. i - m \in 1 .. Len(d)
        BY <1>2, <1>4, <3>2
      <4> QED BY <4>1, <3>2, <1>2, ElementOfSeq
    <3> QED BY <3>1, <3>2
  <2>2. m + n + 1 \in Nat
    BY <1>4
  <2> QED BY <2>1, <2>2
<1>8. \A i \in 1 .. m + n + 1 : e[i] = IF i <= m THEN c[i] ELSE d[i - m]
  OBVIOUS
<1>9. c[m + 1] = d[1]
  BY <1>1, <1>2
<1> HIDE DEF e, u
<1>10. e[1] = f /\ e[Len(e)] = h
  <2>1. e[1] = f
    BY <1>1, <1>2, <1>4, <1>8, <1>9
  <2>2. e[m + n + 1] = d[n + 1]
    BY <1>4, <1>8
  <2> QED BY <2>1, <2>2, <1>2, <1>7
<1>11. ASSUME NEW i \in 1 .. Len(e) PROVE Sound(v, by, e[i])
  <2>1. CASE i <= m
    BY <2>1, <1>1, <1>4, <1>7, <1>8
  <2>2. CASE ~(i <= m)
    <3>1. i - m \in 1 .. Len(d) /\ e[i] = d[i - m]
      BY <2>2, <1>2, <1>4, <1>7, <1>8
    <3> QED BY <3>1, <1>2
  <2> QED BY <2>1, <2>2
<1>12. ASSUME NEW i \in 1 .. Len(u) PROVE e[i + 1] = Put(e[i], u[i]) /\ Fair(v, r, e[i], e[i + 1])
  <2>0. i \in 1 .. m + n /\ i \in 1 .. m + n + 1 /\ i + 1 \in 1 .. m + n + 1 /\ i \in Nat
    BY <1>4, <1>5
  <2>1. /\ e[i] = IF i <= m THEN c[i] ELSE d[i - m]
        /\ e[i + 1] = IF i + 1 <= m THEN c[i + 1] ELSE d[(i + 1) - m]
        /\ u[i] = IF i <= m THEN s[i] ELSE t[i - m]
    BY <2>0, <1>6, <1>8
  <2>2. CASE i < m
    <3>1. i \in 1 .. Len(s) /\ i <= m /\ i + 1 <= m
      BY <2>0, <2>2, <1>4
    <3> QED BY <3>1, <2>1, <1>1
  <2>3. CASE i = m
    <3>1. i \in 1 .. Len(s) /\ i <= m /\ ~(i + 1 <= m) /\ (i + 1) - m = 1
      BY <2>0, <2>3, <1>4
    <3>2. e[i] = c[i] /\ e[i + 1] = d[1] /\ u[i] = s[i] /\ c[i + 1] = d[1]
      BY <3>1, <2>1, <2>3, <1>9
    <3> QED BY <3>1, <3>2, <1>1
  <2>4. CASE i > m
    <3>1. i - m \in 1 .. Len(t) /\ ~(i <= m) /\ ~(i + 1 <= m) /\ (i + 1) - m = (i - m) + 1
      BY <2>0, <2>4, <1>4
    <3>2. e[i] = d[i - m] /\ e[i + 1] = d[(i - m) + 1] /\ u[i] = t[i - m]
      BY <3>1, <2>1
    <3> QED BY <3>1, <3>2, <1>2
  <2>5. i < m \/ i = m \/ i > m
    BY <2>0, <1>4
  <2> QED BY <2>2, <2>3, <2>4, <2>5
<1>13. Path(v, r, by, f, u, h)
  <2>1. Len(e) = Len(u) + 1
    BY <1>5, <1>7
  <2>2. \E x \in Seq(Homes) :
           /\ Len(x) = Len(u) + 1
           /\ x[1] = f /\ x[Len(x)] = h
           /\ \A i \in 1 .. Len(x) : Sound(v, by, x[i])
           /\ \A i \in 1 .. Len(u) : x[i + 1] = Put(x[i], u[i]) /\ Fair(v, r, x[i], x[i + 1])
    <3> USE <1>7
    <3> WITNESS e \in Seq(Homes)
    <3> QED BY <2>1, <1>10, <1>11, <1>12
  <2> QED BY <1>5, <2>2 DEF Path
<1> QED BY <1>13 DEF u

\* Tuples, as the concatenations they are.
LEMMA Pair == ASSUME NEW a, NEW b PROVE <<a, b>> = <<a>> \o <<b>>
<1> DEFINE S == {a, b}
           s == <<a>>
           t == <<b>>
           u == <<a, b>>
<1>1. s \in Seq(S) /\ t \in Seq(S) /\ Len(s) = 1 /\ Len(t) = 1 /\ s[1] = a /\ t[1] = b
  OBVIOUS
<1>2. u \in Seq(S) /\ Len(u) = 2 /\ u[1] = a /\ u[2] = b
  OBVIOUS
<1> HIDE DEF S, s, t, u
<1>3. s \o t \in Seq(S) /\ Len(s \o t) = 2 /\ (s \o t)[1] = a /\ (s \o t)[2] = b
  <2>1. /\ s \o t \in Seq(S) /\ Len(s \o t) = Len(s) + Len(t)
        /\ \A i \in 1 .. Len(s) + Len(t) : (s \o t)[i] = IF i <= Len(s) THEN s[i] ELSE t[i - Len(s)]
    BY <1>1, ConcatProperties
  <2>2. \A i \in 1 .. 2 : (s \o t)[i] = IF i <= 1 THEN s[i] ELSE t[i - 1]
    BY <1>1, <2>1
  <2>3. 1 \in 1 .. 2 /\ 2 \in 1 .. 2 /\ 1 <= 1 /\ ~(2 <= 1) /\ 2 - 1 = 1
    OBVIOUS
  <2>4. (s \o t)[1] = s[1]
    BY <2>2, <2>3
  <2>5. (s \o t)[2] = t[1]
    <3> HIDE DEF s
    <3>1. (s \o t)[2] = IF 2 <= 1 THEN s[2] ELSE t[2 - 1]
      BY <2>2, <2>3
    <3>2. t[2 - 1] = t[1]
      BY <2>3
    <3> QED BY <3>1, <3>2, <2>3
  <2> QED BY <1>1, <2>1, <2>4, <2>5
<1>4. \A i \in 1 .. Len(s \o t) : (s \o t)[i] = u[i]
  <2>1. \A i \in 1 .. 2 : i = 1 \/ i = 2
    OBVIOUS
  <2> QED BY <1>2, <1>3, <2>1
<1>5. s \o t = u
  BY <1>2, <1>3, <1>4, SeqEqual
<1> QED BY <1>5 DEF s, t, u

LEMMA Triple == ASSUME NEW a, NEW b, NEW c PROVE <<a, b, c>> = <<a>> \o <<b, c>>
OBVIOUS

LEMMA Four == ASSUME NEW a, NEW b, NEW c, NEW d PROVE <<a, b, c, d>> = <<a>> \o <<b, c, d>>
OBVIOUS

\* The next file, and what is left.
LEMMA PathHead ==
    ASSUME NEW v, NEW r, NEW by, NEW f, NEW t, NEW h, Path(v, r, by, f, t, h), t # <<>>
    PROVE  /\ Head(t) \in Writes /\ Sound(v, by, f) /\ Fair(v, r, f, Put(f, Head(t)))
           /\ Path(v, r, by, Put(f, Head(t)), Tail(t), h)
<1>1. PICK c \in Seq(Homes) :
         /\ Len(c) = Len(t) + 1
         /\ c[1] = f /\ c[Len(c)] = h
         /\ \A i \in 1 .. Len(c) : Sound(v, by, c[i])
         /\ \A i \in 1 .. Len(t) : c[i + 1] = Put(c[i], t[i]) /\ Fair(v, r, c[i], c[i + 1])
  BY DEF Path
<1>2. t \in Seq(Writes)
  BY DEF Path
<1> DEFINE n == Len(t)
           d == Tail(c)
           u == Tail(t)
<1>3. n \in Nat /\ n >= 1 /\ Head(t) = t[1] /\ Head(t) \in Writes
  BY <1>2, LenProperties, HeadTailProperties, EmptySeq
<1>4. u \in Seq(Writes) /\ Len(u) = n - 1 /\ \A i \in 1 .. n - 1 : u[i] = t[i + 1]
  BY <1>2, HeadTailProperties
<1>5. c # <<>>
  BY <1>1, <1>3
<1>6. d \in Seq(Homes) /\ Len(d) = n /\ \A i \in 1 .. n : d[i] = c[i + 1]
  BY <1>1, <1>3, <1>5, HeadTailProperties
<1> HIDE DEF d, u
<1>7. Sound(v, by, f) /\ Fair(v, r, f, Put(f, Head(t))) /\ c[2] = Put(f, Head(t))
  <2>1. 1 \in 1 .. Len(t) /\ 1 \in 1 .. Len(c) /\ 1 + 1 = 2
    BY <1>1, <1>3
  <2> QED BY <2>1, <1>1, <1>3
<1>8. ASSUME NEW i \in 1 .. Len(d) PROVE Sound(v, by, d[i])
  <2>1. i + 1 \in 1 .. Len(c) /\ d[i] = c[i + 1]
    BY <1>1, <1>3, <1>6
  <2> QED BY <2>1, <1>1
<1>9. ASSUME NEW i \in 1 .. Len(u) PROVE d[i + 1] = Put(d[i], u[i]) /\ Fair(v, r, d[i], d[i + 1])
  <2>1. i \in 1 .. n - 1 /\ i \in 1 .. n /\ i + 1 \in 1 .. n
    BY <1>3, <1>4
  <2>2. d[i] = c[i + 1] /\ d[i + 1] = c[(i + 1) + 1] /\ u[i] = t[i + 1]
    BY <2>1, <1>4, <1>6
  <2> QED BY <2>1, <2>2, <1>1
<1>10. d[1] = Put(f, Head(t)) /\ d[Len(d)] = h
  BY <1>1, <1>3, <1>6, <1>7
<1>11. Path(v, r, by, Put(f, Head(t)), u, h)
  <2>1. Len(d) = Len(u) + 1
    BY <1>3, <1>4, <1>6
  <2> QED BY <2>1, <1>4, <1>6, <1>8, <1>9, <1>10 DEF Path
<1> QED BY <1>3, <1>7, <1>11 DEF u

LEMMA PathEnd ==
    ASSUME NEW v, NEW r, NEW by, NEW f, NEW h, Path(v, r, by, f, <<>>, h)
    PROVE  h = f /\ Sound(v, by, f)
<1>1. PICK c \in Seq(Homes) :
         /\ Len(c) = Len(<<>>) + 1
         /\ c[1] = f /\ c[Len(c)] = h
         /\ \A i \in 1 .. Len(c) : Sound(v, by, c[i])
  BY DEF Path
<1>2. Len(<<>>) = 0
  OBVIOUS
<1> QED BY <1>1, <1>2

-----------------------------------------------------------------------------
(* Standings, by the files they are read from. *)

LEMMA NoneApart == None \notin Root /\ None \notin Key /\ None \notin Badge /\ None \notin List /\ None \notin Lists
BY StandingAssumption DEF Lists

LEMMA NoneProc == None \notin Proc
BY HomeAssumption

LEMMA HomeFields ==
    ASSUME NEW f \in Homes
    PROVE  /\ f.key \in Key /\ f.root \in Root \cup {None} /\ f.pin \in Root \cup {None}
           /\ f.badge \in Badge \cup {None} /\ f.list \in Lists \cup {None} /\ f.invited \in Root \cup {None}
           /\ f.revoked \subseteq Root /\ f.copyKey \in Root \cup {None} /\ f.copyList \in Lists \cup {None}
           /\ f.badge # None => f.badge.root \in Root /\ f.badge.key \in Key
           /\ f.list # None => /\ f.list.root \in Root /\ f.list.number \in Nat /\ f.list.number > 0
                               /\ f.list.rows \subseteq Key /\ f.list.drops \subseteq Key
           /\ LiveRoot(f) \in Root \cup {None} /\ LivePin(f) \in Root \cup {None}
BY DEF Homes, Files, Badge, Lists, List, LiveRoot, LivePin, Live

LEMMA ReadsUnpinned ==
    ASSUME NEW f
    PROVE  StandingOf(f) = Unpinned <=>
             LiveRoot(f) = None /\ LivePin(f) = None /\ (f.badge = None \/ f.badge.root \in f.revoked)
BY DEF StandingOf, WithRoot, WithPin, WithNeither, Unpinned, Minting, Damaged, Holds, Device

LEMMA ReadsDevice ==
    ASSUME NEW f, NEW r
    PROVE  StandingOf(f) = Device(r) <=>
             /\ LiveRoot(f) = None /\ LivePin(f) # None /\ LivePin(f) = r
             /\ f.badge # None /\ f.badge.root = LivePin(f) /\ f.badge.key = f.key
BY DEF StandingOf, WithRoot, WithPin, WithNeither, Unpinned, Minting, Damaged, Holds, Device, ForAnotherKey

LEMMA ReadsHolds ==
    ASSUME NEW f, NEW r
    PROVE  StandingOf(f) = Holds(r) <=>
             /\ LiveRoot(f) # None /\ LivePin(f) = LiveRoot(f) /\ LiveRoot(f) = r
             /\ f.badge # None /\ f.badge.root = LivePin(f) /\ f.badge.key = f.key
BY DEF StandingOf, WithRoot, WithPin, WithNeither, Unpinned, Minting, Damaged, Holds, Device, ForAnotherKey

LEMMA ReadsMinting ==
    ASSUME NEW f, NEW r
    PROVE  StandingOf(f) = Minting(r) <=> LiveRoot(f) # None /\ LivePin(f) = None /\ LiveRoot(f) = r
BY DEF StandingOf, WithRoot, WithPin, WithNeither, Unpinned, Minting, Damaged, Holds, Device, ForAnotherKey

\* What a standing is, and whose.
LEMMA Readings ==
    ASSUME NEW f
    PROVE  /\ StandingOf(f).is = "unpinned" <=> StandingOf(f) = Unpinned
           /\ StandingOf(f).is = "device"   <=> StandingOf(f) = Device(LivePin(f))
           /\ StandingOf(f).is = "holds"    <=> StandingOf(f) = Holds(LiveRoot(f))
           /\ StandingOf(f).is = "minting"  <=> StandingOf(f) = Minting(LiveRoot(f))
           /\ StandingOf(f).is = "pin without standing" <=>
                LiveRoot(f) = None /\ LivePin(f) # None /\ f.badge = None
           /\ StandingOf(f).is = "standing from another root" <=>
                LiveRoot(f) = None /\ LivePin(f) # None /\ f.badge # None /\ f.badge.root # LivePin(f)
           /\ StandingOf(f).is = "standing without pin" <=>
                LiveRoot(f) = None /\ LivePin(f) = None /\ f.badge # None /\ f.badge.root \notin f.revoked
           /\ IsDamaged(StandingOf(f)) <=> StandingOf(f).is \notin {"unpinned", "device", "holds", "minting"}
BY DEF StandingOf, WithRoot, WithPin, WithNeither, Unpinned, Minting, Damaged, Holds, Device, ForAnotherKey, IsDamaged,
       Damage

\* Named, by the files.
LEMMA NamedIs ==
    ASSUME NEW f, NEW by
    PROVE  Named(f, by) <=>
      \/ /\ LiveRoot(f) # None
         /\ \/ LivePin(f) = None /\ by \cap {"mint", "finish", "restore"} # {}
            \/ LivePin(f) = LiveRoot(f) /\ f.badge # None /\ f.badge.root = LivePin(f) /\ f.badge.key = f.key
      \/ /\ LiveRoot(f) = None /\ LivePin(f) # None
         /\ \/ f.badge = None /\ by \cap {"leave", "new key", "undo"} # {}
            \/ f.badge # None /\ f.badge.root # LivePin(f) /\ "join" \in by
            \/ f.badge # None /\ f.badge.root = LivePin(f) /\ f.badge.key = f.key
      \/ /\ LiveRoot(f) = None /\ LivePin(f) = None
         /\ f.badge = None \/ f.badge.root \in f.revoked \/ by \cap {"join", "undo"} # {}
BY DEF Named, IsWhole, StandingOf, WithRoot, WithPin, WithNeither, Unpinned, Minting, Damaged, Holds, Device,
       ForAnotherKey

-----------------------------------------------------------------------------
(* What each verb writes. *)

\* What a verb leaves when all is written: a standing that is whole, or that earlier stops leave, and its promise.
Ends(a, by, g) ==
    /\ g.key = FirstKey => Named(g, by)
    /\ a.verb \notin {"backup", "forget"} /\ ~Missed(a, g) => Promise(a, g)

Leads(a, by, f, t) == \E g : Path(a.verb, a.root, by, f, t, g) /\ Ends(a, by, g)

\* What a write keeps, for any verb it is a part of.
Moves(v, r, by, f, w) == w \in Writes /\ Path(v, r, by, f, <<w>>, Put(f, w)) /\ Sound(v, by, Put(f, w))

\* A home with one of its files written, the copy's list included, is a home.
LEMMA FileWrites ==
    ASSUME NEW f \in Homes, NEW w \in Writes
    PROVE  [f EXCEPT ![w.name] = w.to] \in Homes
<1> DEFINE g == [f EXCEPT ![w.name] = w.to]
<1>1. f \in Files /\ f.list \in Lists \cup {None} /\ f.copyList \in Lists \cup {None}
  BY DEF Homes
<1>2. \A l \in Lists : l \in List
  BY DEF Lists
<1>3. \/ w.name = "key" /\ w.to \in Key
      \/ w.name \in {"root", "pin", "invited"} /\ w.to \in Root \cup {None}
      \/ w.name = "badge" /\ w.to \in Badge \cup {None}
      \/ w.name \in {"list", "copyList"} /\ w.to \in Lists \cup {None}
      \/ w.name = "revoked" /\ w.to \in SUBSET Root
      \/ w.name = "copyKey" /\ w.to \in Root
  BY DEF Writes
<1>4. CASE w.name = "key" /\ w.to \in Key
  BY <1>1, <1>4 DEF Homes, Files
<1>5. CASE w.name \in {"root", "pin", "invited"} /\ w.to \in Root \cup {None}
  <2>1. w.name = "root" \/ w.name = "pin" \/ w.name = "invited"
    BY <1>5
  <2> QED BY <1>1, <1>5, <2>1 DEF Homes, Files
<1>6. CASE w.name = "badge" /\ w.to \in Badge \cup {None}
  BY <1>1, <1>6 DEF Homes, Files
<1>7. CASE w.name \in {"list", "copyList"} /\ w.to \in Lists \cup {None}
  <2>1. w.name = "list" \/ w.name = "copyList"
    BY <1>7
  <2> QED BY <1>1, <1>2, <1>7, <2>1 DEF Homes, Files
<1>8. CASE w.name = "revoked" /\ w.to \in SUBSET Root
  BY <1>1, <1>8 DEF Homes, Files
<1>9. CASE w.name = "copyKey" /\ w.to \in Root
  BY <1>1, <1>9 DEF Homes, Files
<1> QED BY <1>3, <1>4, <1>5, <1>6, <1>7, <1>8, <1>9

LEMMA PutKeeps ==
    ASSUME NEW f \in Homes, NEW w \in Writes
    PROVE  /\ Put(f, w) \in Homes
           /\ w.name # "copyList" => Put(f, w) = [f EXCEPT ![w.name] = w.to]
BY FileWrites DEF Put

\* A step from the facts it is made of.
LEMMA MovesBy ==
    ASSUME NEW v, NEW r, NEW by, NEW f, NEW w \in Writes, Sound(v, by, f), Good(Put(f, w)),
           Put(f, w).key = FirstKey => Named(Put(f, w), by \cup {v}), Fair(v, r, f, Put(f, w))
    PROVE  Moves(v, r, by, f, w)
BY PutKeeps, PathOne DEF Moves, Sound

LEMMA InvitedMoves ==
    ASSUME NEW v, NEW r, NEW by, NEW f, NEW i \in Root \cup {None}, Sound(v, by, f)
    PROVE  Moves(v, r, by, f, File("invited", i))
<1> DEFINE w == File("invited", i)
           g == Put(f, w)
<1>1. w \in Writes /\ f \in Homes /\ Good(f) /\ (f.key = FirstKey => Named(f, by \cup {v}))
  BY DEF Writes, File, Sound
<1>2. g = [f EXCEPT !.invited = i]
  BY <1>1, PutKeeps DEF File
<1> USE DEF LiveRoot, LivePin, Live, Homes, Files
<1>3. Good(g)
  BY <1>1, <1>2 DEF Good, OneRoot, DeviceList, HalfMade, Spent
<1>4. g.key = FirstKey => Named(g, by \cup {v})
  BY <1>1, <1>2, NamedIs
<1>5. Fair(v, r, f, g)
  BY <1>1, <1>2 DEF Fair, ListStays, Loses
<1> QED BY <1>1, <1>3, <1>4, <1>5, MovesBy

\* A root revoked here goes.
LEMMA RootGoes ==
    ASSUME NEW v, NEW r, NEW by, NEW f, Sound(v, by, f), LiveRoot(f) = None, v # "mint" \/ f.root # r
    PROVE  Moves(v, r, by, f, File("root", None))
<1> DEFINE w == File("root", None)
           g == Put(f, w)
<1>1. w \in Writes /\ f \in Homes /\ Good(f) /\ (f.key = FirstKey => Named(f, by \cup {v}))
  BY DEF Writes, File, Sound
<1>2. g = [f EXCEPT !.root = None]
  BY <1>1, PutKeeps DEF File
<1> USE DEF LiveRoot, LivePin, Live, Homes, Files
<1>3. Good(g)
  BY <1>1, <1>2, HomeFields DEF Good, OneRoot, DeviceList, HalfMade, Spent
<1>4. g.key = FirstKey => Named(g, by \cup {v})
  BY <1>1, <1>2, HomeFields, NamedIs
<1>5. Fair(v, r, f, g)
  BY <1>1, <1>2, HomeFields DEF Fair, ListStays, Loses
<1> QED BY <1>1, <1>3, <1>4, <1>5, MovesBy

\* A list goes where no root is kept.
LEMMA ListGoes ==
    ASSUME NEW v, NEW r, NEW by, NEW f, Sound(v, by, f), LiveRoot(f) = None
    PROVE  Moves(v, r, by, f, File("list", None))
<1> DEFINE w == File("list", None)
           g == Put(f, w)
<1>1. w \in Writes /\ f \in Homes /\ Good(f) /\ (f.key = FirstKey => Named(f, by \cup {v}))
  BY DEF Writes, File, Sound
<1>2. g = [f EXCEPT !.list = None]
  BY <1>1, PutKeeps DEF File
<1> USE DEF LiveRoot, LivePin, Live, Homes, Files
<1>3. Good(g)
  BY <1>1, <1>2, HomeFields DEF Good, OneRoot, DeviceList, HalfMade, Spent
<1>4. g.key = FirstKey => Named(g, by \cup {v})
  BY <1>1, <1>2, HomeFields, NamedIs
<1>5. Fair(v, r, f, g)
  BY <1>1, <1>2, HomeFields DEF Fair, ListStays, Loses
<1> QED BY <1>1, <1>3, <1>4, <1>5, MovesBy

\* A standing goes: under a pin that a leave or an undo then removes, or under none.
LEMMA BadgeGoes ==
    ASSUME NEW v, NEW r, NEW by, NEW f, Sound(v, by, f),
           LivePin(f) = None \/ (v \in {"leave", "new key", "undo"} /\ (f.key # FirstKey \/ LiveRoot(f) = None))
    PROVE  Moves(v, r, by, f, File("badge", None))
<1> DEFINE w == File("badge", None)
           g == Put(f, w)
<1>1. w \in Writes /\ f \in Homes /\ Good(f) /\ (f.key = FirstKey => Named(f, by \cup {v}))
  BY DEF Writes, File, Sound
<1>2. g = [f EXCEPT !.badge = None]
  BY <1>1, PutKeeps DEF File
<1> USE DEF LiveRoot, LivePin, Live, Homes, Files
<1>3. Good(g)
  <2>1. /\ g.root = f.root /\ g.pin = f.pin /\ g.badge = None /\ g.list = f.list /\ g.revoked = f.revoked
        /\ LiveRoot(g) = LiveRoot(f) /\ LivePin(g) = LivePin(f)
    BY <1>1, <1>2
  <2> HIDE DEF g, LiveRoot, LivePin, Live, Homes, Files
  <2> QED BY <1>1, <2>1 DEF Good, OneRoot, DeviceList, HalfMade, Spent
<1>4. g.key = FirstKey => Named(g, by \cup {v})
  BY <1>1, <1>2, HomeFields, NamedIs
<1>5. Fair(v, r, f, g)
  BY <1>1, <1>2, HomeFields DEF Fair, ListStays, Loses
<1> QED BY <1>1, <1>3, <1>4, <1>5, MovesBy

\* A pin goes once no standing is under it.
LEMMA PinGoes ==
    ASSUME NEW v, NEW r, NEW by, NEW f, Sound(v, by, f),
           LivePin(f) = None \/ (f.badge = None /\ (f.key # FirstKey \/ LiveRoot(f) = None))
    PROVE  Moves(v, r, by, f, File("pin", None))
<1> DEFINE w == File("pin", None)
           g == Put(f, w)
<1>1. w \in Writes /\ f \in Homes /\ Good(f) /\ (f.key = FirstKey => Named(f, by \cup {v}))
  BY DEF Writes, File, Sound
<1>2. g = [f EXCEPT !.pin = None]
  BY <1>1, PutKeeps DEF File
<1> USE DEF LiveRoot, LivePin, Live, Homes, Files
<1>3. Good(g)
  BY <1>1, <1>2, HomeFields DEF Good, OneRoot, DeviceList, HalfMade, Spent
<1>4. g.key = FirstKey => Named(g, by \cup {v})
  BY <1>1, <1>2, HomeFields, NamedIs
<1>5. Fair(v, r, f, g)
  <2>1. /\ g.key = f.key /\ g.root = f.root /\ g.pin = None /\ g.list = f.list
        /\ g.revoked = f.revoked /\ g.copyKey = f.copyKey
    BY <1>1, <1>2
  <2>2. LiveRoot(g) = LiveRoot(f) /\ LivePin(g) = None
    BY <2>1
  <2> HIDE DEF g, LiveRoot, LivePin, Live, Homes, Files
  <2>3. ListStays(v, r, f, g) /\ Loses(v, f, g)
    BY <2>1, <2>2 DEF ListStays, Loses
  <2> QED BY <2>1, <2>2, <2>3 DEF Fair
<1> QED BY <1>1, <1>3, <1>4, <1>5, MovesBy

\* A standing comes: a join's, or that of the root kept here.
LEMMA BadgeComes ==
    ASSUME NEW v, NEW r \in Root, NEW by, NEW f, NEW k \in Key, f.key = FirstKey => k = FirstKey, Sound(v, by, f),
           \/ /\ v = "join" /\ f.root = None
              /\ LivePin(f) = r /\ f.list # None => f.list.root = r
           \/ v \in {"mint", "finish", "restore"} /\ f.root = r
    PROVE  Moves(v, r, by, f, File("badge", [root |-> r, key |-> k]))
<1> DEFINE w == File("badge", [root |-> r, key |-> k])
           g == Put(f, w)
<1>1. w \in Writes /\ f \in Homes /\ Good(f) /\ (f.key = FirstKey => Named(f, by \cup {v}))
  BY NoneApart, HomeFields DEF Writes, File, CutFile, Badge, Sound
<1>2. g = [f EXCEPT !.badge = [root |-> r, key |-> k]]
  BY <1>1, PutKeeps DEF File
<1>0. /\ g.badge = [root |-> r, key |-> k] /\ g.key = f.key /\ g.root = f.root /\ g.pin = f.pin
      /\ g.list = f.list /\ g.invited = f.invited /\ g.revoked = f.revoked /\ g.copyKey = f.copyKey
  BY <1>1, <1>2 DEF Homes, Files
<1> USE DEF LiveRoot, LivePin, Live
<1>3. Good(g)
  BY <1>1, <1>0, NoneApart, HomeFields DEF Good, OneRoot, DeviceList, HalfMade, Spent, Badge
<1>4. g.key = FirstKey => Named(g, by \cup {v})
  <2>1. g.badge # None /\ g.badge.root = r /\ g.badge.key = k
    BY <1>0, NoneApart DEF Badge
  <2> SUFFICES ASSUME g.key = FirstKey PROVE Named(g, by \cup {v})
    OBVIOUS
  <2>2. g.badge.key = g.key
    BY <1>0, <2>1
  <2>3. CASE v = "join" /\ f.root = None
    <3>1. LiveRoot(g) = None
      BY <1>0, <2>3
    <3> HIDE DEF LiveRoot, LivePin, Live
    <3> QED BY <3>1, <2>1, <2>2, <2>3, NamedIs
  <2>4. CASE v \in {"mint", "finish", "restore"} /\ f.root = r
    <3>1. LiveRoot(g) # None => LivePin(g) = None \/ (LivePin(g) = LiveRoot(g) /\ LivePin(g) = r)
      BY <1>1, <1>0, <2>4 DEF Good, OneRoot
    <3>2. LiveRoot(g) = None => LivePin(g) = None /\ g.badge.root \in g.revoked
      BY <1>1, <1>0, <2>1, <2>4, NoneApart DEF Good, Spent
    <3> HIDE DEF LiveRoot, LivePin, Live
    <3>3. CASE LiveRoot(g) # None
      BY <3>1, <3>3, <2>1, <2>2, <2>4, NamedIs
    <3>4. CASE LiveRoot(g) = None
      BY <3>2, <3>4, <2>1, NamedIs
    <3> QED BY <3>3, <3>4
  <2> QED BY <2>3, <2>4
<1>5. Fair(v, r, f, g)
  BY <1>1, <1>0, NoneApart, HomeFields DEF Fair, ListStays, Loses, Pinning
<1> QED BY <1>1, <1>3, <1>4, <1>5, MovesBy

\* A pin comes over its standing, and at a root kept here over its list.
LEMMA PinComes ==
    ASSUME NEW v, NEW r \in Root, NEW by, NEW f, f.badge # None, f.badge.root = r,
           f.key = FirstKey => f.badge.key = FirstKey, Sound(v, by, f),
           \/ v = "join" /\ f.root = None /\ f.list = None
           \/ v \in {"mint", "finish", "restore"} /\ f.root = r /\ f.list # None /\ f.list.root = r
    PROVE  Moves(v, r, by, f, File("pin", r))
<1> DEFINE w == File("pin", r)
           g == Put(f, w)
<1>1. w \in Writes /\ f \in Homes /\ Good(f) /\ (f.key = FirstKey => Named(f, by \cup {v}))
  BY NoneApart, HomeFields DEF Writes, File, CutFile, Badge, Sound
<1>2. g = [f EXCEPT !.pin = r]
  BY <1>1, PutKeeps DEF File
<1>0. /\ g.pin = r /\ g.key = f.key /\ g.root = f.root /\ g.badge = f.badge
      /\ g.list = f.list /\ g.invited = f.invited /\ g.revoked = f.revoked /\ g.copyKey = f.copyKey
  BY <1>1, <1>2 DEF Homes, Files
<1> USE DEF LiveRoot, LivePin, Live
<1>3. Good(g)
  BY <1>1, <1>0, NoneApart, HomeFields DEF Good, OneRoot, DeviceList, HalfMade, Spent, Badge
<1>4. g.key = FirstKey => Named(g, by \cup {v})
  BY <1>1, <1>0, NoneApart, HomeFields, NamedIs DEF Badge
<1>5. Fair(v, r, f, g)
  BY <1>1, <1>0, NoneApart, HomeFields DEF Fair, ListStays, Loses, Pinning
<1> QED BY <1>1, <1>3, <1>4, <1>5, MovesBy

\* A list of the root the verb is about comes where no other root is.
LEMMA ListComes ==
    ASSUME NEW v, NEW r, NEW by, NEW f, NEW l \in Lists, l.root = r, NEW c \in BOOLEAN, Sound(v, by, f),
           LiveRoot(f) \in {None, r}, LivePin(f) \in {None, r}
    PROVE  Moves(v, r, by, f, [name |-> "list", to |-> l, cut |-> c])
<1> DEFINE w == [name |-> "list", to |-> l, cut |-> c]
           g == Put(f, w)
<1>1. w \in Writes /\ f \in Homes /\ Good(f) /\ (f.key = FirstKey => Named(f, by \cup {v}))
  BY NoneApart, HomeFields DEF Writes, File, CutFile, Badge, Sound
<1>2. g = [f EXCEPT !.list = l]
  BY <1>1, PutKeeps DEF File
<1>0. /\ g.list = l /\ g.key = f.key /\ g.root = f.root /\ g.pin = f.pin /\ g.badge = f.badge
      /\ g.invited = f.invited /\ g.revoked = f.revoked /\ g.copyKey = f.copyKey
  BY <1>1, <1>2 DEF Homes, Files
<1> USE DEF LiveRoot, LivePin, Live
<1>3. Good(g)
  BY <1>1, <1>0, NoneApart, HomeFields DEF Good, OneRoot, DeviceList, HalfMade, Spent, Badge
<1>4. g.key = FirstKey => Named(g, by \cup {v})
  BY <1>1, <1>0, NoneApart, HomeFields, NamedIs DEF Badge
<1>5. Fair(v, r, f, g)
  BY <1>1, <1>0, NoneApart, HomeFields DEF Fair, ListStays, Loses, Pinning
<1> QED BY <1>1, <1>3, <1>4, <1>5, MovesBy

\* A root comes to a home that is nobody's, or its own device with its list.
LEMMA RootComes ==
    ASSUME NEW v, NEW r \in Root, NEW by, NEW f, Sound(v, by, f),
           LiveRoot(f) = None, v \in {"mint", "restore"},
           \/ LivePin(f) = None /\ (f.badge = None \/ f.badge.root \in f.revoked)
           \/ /\ v = "restore" /\ LivePin(f) = r
              /\ f.badge # None /\ f.badge.root = r /\ f.badge.key = f.key,
           v = "restore" => f.list # None /\ f.list.root = r
    PROVE  Moves(v, r, by, f, File("root", r))
<1> DEFINE w == File("root", r)
           g == Put(f, w)
<1>1. w \in Writes /\ f \in Homes /\ Good(f) /\ (f.key = FirstKey => Named(f, by \cup {v}))
  BY NoneApart, HomeFields DEF Writes, File, CutFile, Badge, Sound
<1>2. g = [f EXCEPT !.root = r]
  BY <1>1, PutKeeps DEF File
<1>0. /\ g.root = r /\ g.key = f.key /\ g.pin = f.pin /\ g.badge = f.badge
      /\ g.list = f.list /\ g.invited = f.invited /\ g.revoked = f.revoked /\ g.copyKey = f.copyKey
  BY <1>1, <1>2 DEF Homes, Files
<1> USE DEF LiveRoot, LivePin, Live
<1>3. Good(g)
  BY <1>1, <1>0, NoneApart, HomeFields DEF Good, OneRoot, DeviceList, HalfMade, Spent, Badge
<1>4. g.key = FirstKey => Named(g, by \cup {v})
  BY <1>1, <1>0, NoneApart, HomeFields, NamedIs DEF Badge
<1>5. Fair(v, r, f, g)
  BY <1>1, <1>0, NoneApart, HomeFields DEF Fair, ListStays, Loses, Pinning
<1> QED BY <1>1, <1>3, <1>4, <1>5, MovesBy

\* A root is revoked here, where the files agree.
LEMMA LatchMoves ==
    ASSUME NEW v, NEW r \in Root, NEW by, NEW f, Sound(v, by, f),
           v = "revoke",
           LivePin(f) = None \/ (f.badge # None /\ f.badge.root = LivePin(f) /\ f.badge.key = f.key),
           LiveRoot(f) # None \/ LivePin(f) # None \/ f.badge = None \/ f.badge.root \in f.revoked
    PROVE  Moves(v, r, by, f, File("revoked", f.revoked \cup {r}))
<1> DEFINE w == File("revoked", f.revoked \cup {r})
           g == Put(f, w)
<1>1. w \in Writes /\ f \in Homes /\ Good(f) /\ (f.key = FirstKey => Named(f, by \cup {v}))
  BY NoneApart, HomeFields DEF Writes, File, CutFile, Badge, Sound
<1>2. g = [f EXCEPT !.revoked = f.revoked \cup {r}]
  BY <1>1, PutKeeps DEF File
<1>0. /\ g.revoked = f.revoked \cup {r} /\ g.key = f.key /\ g.root = f.root /\ g.pin = f.pin /\ g.badge = f.badge
      /\ g.list = f.list /\ g.invited = f.invited /\ g.copyKey = f.copyKey
  BY <1>1, <1>2 DEF Homes, Files
<1> USE DEF LiveRoot, LivePin, Live
<1>3. Good(g)
  BY <1>1, <1>0, NoneApart, HomeFields DEF Good, OneRoot, DeviceList, HalfMade, Spent, Badge
<1>4. g.key = FirstKey => Named(g, by \cup {v})
  <2> SUFFICES ASSUME g.key = FirstKey PROVE Named(g, by \cup {v})
    OBVIOUS
  <2>1. Named(f, by \cup {v}) /\ f.key = FirstKey
    BY <1>1, <1>0
  <2>2. CASE LiveRoot(g) # None
    <3>1. LiveRoot(g) = LiveRoot(f) /\ LiveRoot(f) # None
      BY <1>0, <2>2
    <3>2. CASE LivePin(f) = None
      <4>1. LivePin(g) = None
        BY <1>0, <3>2
      <4>2. (by \cup {v}) \cap {"mint", "finish", "restore"} # {}
        BY <2>1, <3>1, <3>2, NamedIs
      <4> QED BY <4>1, <4>2, <2>2, NamedIs
    <3>3. CASE LivePin(f) # None
      <4>1. LivePin(g) = LiveRoot(g) /\ g.badge = f.badge /\ g.key = f.key
        BY <1>1, <1>0, <3>1, <3>3 DEF Good, OneRoot
      <4>2. LivePin(f) = LiveRoot(f)
        BY <1>1, <3>1, <3>3 DEF Good, OneRoot
      <4> HIDE DEF LiveRoot, LivePin, Live, g
      <4>3. g.badge # None /\ g.badge.root = LivePin(g) /\ g.badge.key = g.key
        BY <3>1, <3>3, <4>1, <4>2
      <4> QED BY <4>1, <4>3, <2>2, NamedIs
    <3> QED BY <3>2, <3>3
  <2>3. CASE LiveRoot(g) = None /\ LivePin(g) # None
    <3>1. LivePin(f) # None /\ LivePin(f) = LivePin(g)
      BY <1>0, <2>3
    <3>2. g.badge # None /\ g.badge.root = LivePin(g) /\ g.badge.key = g.key
      BY <1>0, <3>1
    <3> HIDE DEF LiveRoot, LivePin, Live, g
    <3> QED BY <3>2, <2>3, NamedIs
  <2>4. CASE LiveRoot(g) = None /\ LivePin(g) = None
    <3>1. g.badge = None \/ g.badge.root \in g.revoked
      BY <1>1, <1>0, <2>4, NoneApart, HomeFields DEF Good, OneRoot, HalfMade, Spent
    <3> HIDE DEF LiveRoot, LivePin, Live, g
    <3> QED BY <3>1, <2>4, NamedIs
  <2> QED BY <2>2, <2>3, <2>4
<1>5. Fair(v, r, f, g)
  BY <1>1, <1>0, NoneApart, HomeFields DEF Fair, ListStays, Loses, Pinning
<1> QED BY <1>1, <1>3, <1>4, <1>5, MovesBy

\* A new key.
LEMMA KeyComes ==
    ASSUME NEW v, NEW r, NEW by, NEW f, NEW k \in Key, Sound(v, by, f),
           v = "new key", k # FirstKey
    PROVE  Moves(v, r, by, f, File("key", k))
<1> DEFINE w == File("key", k)
           g == Put(f, w)
<1>1. w \in Writes /\ f \in Homes /\ Good(f) /\ (f.key = FirstKey => Named(f, by \cup {v}))
  BY NoneApart, HomeFields DEF Writes, File, CutFile, Badge, Sound
<1>2. g = [f EXCEPT !.key = k]
  BY <1>1, PutKeeps DEF File
<1>0. /\ g.key = k /\ g.root = f.root /\ g.pin = f.pin /\ g.badge = f.badge
      /\ g.list = f.list /\ g.invited = f.invited /\ g.revoked = f.revoked /\ g.copyKey = f.copyKey
  BY <1>1, <1>2 DEF Homes, Files
<1> USE DEF LiveRoot, LivePin, Live
<1>3. Good(g)
  BY <1>1, <1>0, NoneApart, HomeFields DEF Good, OneRoot, DeviceList, HalfMade, Spent, Badge
<1>4. g.key = FirstKey => Named(g, by \cup {v})
  BY <1>1, <1>0, NoneApart, HomeFields, NamedIs DEF Badge
<1>5. Fair(v, r, f, g)
  BY <1>1, <1>0, NoneApart, HomeFields DEF Fair, ListStays, Loses, Pinning
<1> QED BY <1>1, <1>3, <1>4, <1>5, MovesBy

\* A backup's key.
LEMMA CopyKeyComes ==
    ASSUME NEW v, NEW r, NEW by, NEW f, Sound(v, by, f),
           v = "backup", f.root # None
    PROVE  Moves(v, r, by, f, File("copyKey", f.root))
<1> DEFINE w == File("copyKey", f.root)
           g == Put(f, w)
<1>1. w \in Writes /\ f \in Homes /\ Good(f) /\ (f.key = FirstKey => Named(f, by \cup {v}))
  BY NoneApart, HomeFields DEF Writes, File, CutFile, Badge, Sound
<1>2. g = [f EXCEPT !.copyKey = f.root]
  BY <1>1, PutKeeps DEF File
<1>0. /\ g.copyKey = f.root /\ g.key = f.key /\ g.root = f.root /\ g.pin = f.pin /\ g.badge = f.badge
      /\ g.list = f.list /\ g.invited = f.invited /\ g.revoked = f.revoked
  BY <1>1, <1>2 DEF Homes, Files
<1> USE DEF LiveRoot, LivePin, Live
<1>3. Good(g)
  BY <1>1, <1>0, NoneApart, HomeFields DEF Good, OneRoot, DeviceList, HalfMade, Spent, Badge
<1>4. g.key = FirstKey => Named(g, by \cup {v})
  BY <1>1, <1>0, NoneApart, HomeFields, NamedIs DEF Badge
<1>5. Fair(v, r, f, g)
  BY <1>1, <1>0, NoneApart, HomeFields DEF Fair, ListStays, Loses, Pinning
<1> QED BY <1>1, <1>3, <1>4, <1>5, MovesBy

\* The root a copy is kept of goes.
LEMMA RootForgotten ==
    ASSUME NEW v, NEW r, NEW by, NEW f, Sound(v, by, f),
           v = "forget", LiveRoot(f) # None, LivePin(f) = LiveRoot(f),
           f.badge # None, f.badge.root = LivePin(f), f.badge.key = f.key, f.copyKey = f.root
    PROVE  Moves(v, r, by, f, File("root", None))
<1> DEFINE w == File("root", None)
           g == Put(f, w)
<1>1. w \in Writes /\ f \in Homes /\ Good(f) /\ (f.key = FirstKey => Named(f, by \cup {v}))
  BY NoneApart, HomeFields DEF Writes, File, CutFile, Badge, Sound
<1>2. g = [f EXCEPT !.root = None]
  BY <1>1, PutKeeps DEF File
<1>0. /\ g.root = None /\ g.key = f.key /\ g.pin = f.pin /\ g.badge = f.badge
      /\ g.list = f.list /\ g.invited = f.invited /\ g.revoked = f.revoked /\ g.copyKey = f.copyKey
  BY <1>1, <1>2 DEF Homes, Files
<1> USE DEF LiveRoot, LivePin, Live
<1>3. Good(g)
  BY <1>1, <1>0, NoneApart, HomeFields DEF Good, OneRoot, DeviceList, HalfMade, Spent, Badge
<1>4. g.key = FirstKey => Named(g, by \cup {v})
  BY <1>1, <1>0, NoneApart, HomeFields, NamedIs DEF Badge
<1>5. Fair(v, r, f, g)
  BY <1>1, <1>0, NoneApart, HomeFields DEF Fair, ListStays, Loses, Pinning
<1> QED BY <1>1, <1>3, <1>4, <1>5, MovesBy

\* The undo of a restore takes whatever root is here.
LEMMA RootUndone ==
    ASSUME NEW v, NEW r, NEW by, NEW f, Sound(v, by, f),
           v = "undo"
    PROVE  Moves(v, r, by, f, File("root", None))
<1> DEFINE w == File("root", None)
           g == Put(f, w)
<1>1. w \in Writes /\ f \in Homes /\ Good(f) /\ (f.key = FirstKey => Named(f, by \cup {v}))
  BY NoneApart, HomeFields DEF Writes, File, CutFile, Badge, Sound
<1>2. g = [f EXCEPT !.root = None]
  BY <1>1, PutKeeps DEF File
<1>0. /\ g.root = None /\ g.key = f.key /\ g.pin = f.pin /\ g.badge = f.badge
      /\ g.list = f.list /\ g.invited = f.invited /\ g.revoked = f.revoked /\ g.copyKey = f.copyKey
  BY <1>1, <1>2 DEF Homes, Files
<1> USE DEF LiveRoot, LivePin, Live
<1>3. Good(g)
  BY <1>1, <1>0, NoneApart, HomeFields DEF Good, OneRoot, DeviceList, HalfMade, Spent, Badge
<1>4. g.key = FirstKey => Named(g, by \cup {v})
  BY <1>1, <1>0, NoneApart, HomeFields, NamedIs DEF Badge
<1>5. Fair(v, r, f, g)
  BY <1>1, <1>0, NoneApart, HomeFields DEF Fair, ListStays, Loses, Pinning
<1> QED BY <1>1, <1>3, <1>4, <1>5, MovesBy

\* A home after one file, field by field.
HasNewKey(g, f, k) ==
    /\ g \in Homes
    /\ g.key = k /\ g.root = f.root /\ g.pin = f.pin /\ g.badge = f.badge
    /\ g.list = f.list /\ g.invited = f.invited /\ g.revoked = f.revoked /\ g.copyKey = f.copyKey

LEMMA PutNewKey ==
    ASSUME NEW f \in Homes, NEW k \in Key, NEW g, g = Put(f, File("key", k))
    PROVE  HasNewKey(g, f, k)
<1>1. File("key", k) \in Writes
  BY DEF Writes, File
<1>2. g \in Homes
  BY <1>1, PutKeeps
<1>3. g = [f EXCEPT !.key = k]
  BY <1>1, PutKeeps DEF File
<1>4. /\ g.key = k /\ g.root = f.root /\ g.pin = f.pin /\ g.badge = f.badge
      /\ g.list = f.list /\ g.invited = f.invited /\ g.revoked = f.revoked /\ g.copyKey = f.copyKey
  BY <1>3 DEF Homes, Files
<1> QED BY <1>2, <1>4 DEF HasNewKey

LEMMA PutRoot ==
    ASSUME NEW f \in Homes, NEW x \in Root \cup {None}, NEW g, g = Put(f, File("root", x))
    PROVE  /\ g \in Homes
           /\ g.key = f.key /\ g.root = x /\ g.pin = f.pin /\ g.badge = f.badge
           /\ g.list = f.list /\ g.invited = f.invited /\ g.revoked = f.revoked /\ g.copyKey = f.copyKey
<1>1. File("root", x) \in Writes
  BY DEF Writes, File
<1>2. g \in Homes /\ g = [f EXCEPT !.root = x]
  BY <1>1, PutKeeps DEF File
<1> QED BY <1>2 DEF Homes, Files

LEMMA PutPin ==
    ASSUME NEW f \in Homes, NEW x \in Root \cup {None}, NEW g, g = Put(f, File("pin", x))
    PROVE  /\ g \in Homes
           /\ g.key = f.key /\ g.root = f.root /\ g.pin = x /\ g.badge = f.badge
           /\ g.list = f.list /\ g.invited = f.invited /\ g.revoked = f.revoked /\ g.copyKey = f.copyKey
<1>1. File("pin", x) \in Writes
  BY DEF Writes, File
<1>2. g \in Homes /\ g = [f EXCEPT !.pin = x]
  BY <1>1, PutKeeps DEF File
<1> QED BY <1>2 DEF Homes, Files

LEMMA PutBadge ==
    ASSUME NEW f \in Homes, NEW x \in Badge \cup {None}, NEW g, g = Put(f, File("badge", x))
    PROVE  /\ g \in Homes
           /\ g.key = f.key /\ g.root = f.root /\ g.pin = f.pin /\ g.badge = x
           /\ g.list = f.list /\ g.invited = f.invited /\ g.revoked = f.revoked /\ g.copyKey = f.copyKey
<1>1. File("badge", x) \in Writes
  BY DEF Writes, File
<1>2. g \in Homes /\ g = [f EXCEPT !.badge = x]
  BY <1>1, PutKeeps DEF File
<1> QED BY <1>2 DEF Homes, Files

LEMMA PutList ==
    ASSUME NEW f \in Homes, NEW x \in Lists \cup {None}, NEW w \in Writes, w.name = "list", w.to = x,
           NEW g, g = Put(f, w)
    PROVE  /\ g \in Homes
           /\ g.key = f.key /\ g.root = f.root /\ g.pin = f.pin /\ g.badge = f.badge
           /\ g.list = x /\ g.invited = f.invited /\ g.revoked = f.revoked /\ g.copyKey = f.copyKey
<1>1. g \in Homes /\ g = [f EXCEPT !.list = x]
  BY PutKeeps
<1> QED BY <1>1 DEF Homes, Files

LEMMA PutInvited ==
    ASSUME NEW f \in Homes, NEW x \in Root \cup {None}, NEW g, g = Put(f, File("invited", x))
    PROVE  /\ g \in Homes
           /\ g.key = f.key /\ g.root = f.root /\ g.pin = f.pin /\ g.badge = f.badge
           /\ g.list = f.list /\ g.invited = x /\ g.revoked = f.revoked /\ g.copyKey = f.copyKey
<1>1. File("invited", x) \in Writes
  BY DEF Writes, File
<1>2. g \in Homes /\ g = [f EXCEPT !.invited = x]
  BY <1>1, PutKeeps DEF File
<1> QED BY <1>2 DEF Homes, Files

LEMMA PutRevoked ==
    ASSUME NEW f \in Homes, NEW x \in SUBSET Root, NEW g, g = Put(f, File("revoked", x))
    PROVE  /\ g \in Homes
           /\ g.key = f.key /\ g.root = f.root /\ g.pin = f.pin /\ g.badge = f.badge
           /\ g.list = f.list /\ g.invited = f.invited /\ g.revoked = x /\ g.copyKey = f.copyKey
<1>1. File("revoked", x) \in Writes
  BY DEF Writes, File
<1>2. g \in Homes /\ g = [f EXCEPT !.revoked = x]
  BY <1>1, PutKeeps DEF File
<1> QED BY <1>2 DEF Homes, Files

LEMMA PutCopyKey ==
    ASSUME NEW f \in Homes, NEW x \in Root, NEW g, g = Put(f, File("copyKey", x))
    PROVE  /\ g \in Homes
           /\ g.key = f.key /\ g.root = f.root /\ g.pin = f.pin /\ g.badge = f.badge
           /\ g.list = f.list /\ g.invited = f.invited /\ g.revoked = f.revoked /\ g.copyKey = x
<1>1. File("copyKey", x) \in Writes
  BY DEF Writes, File
<1>2. g \in Homes /\ g = [f EXCEPT !.copyKey = x]
  BY <1>1, PutKeeps DEF File
<1> QED BY <1>2 DEF Homes, Files

LEMMA JoinReadsIs ==
    ASSUME NEW s
    PROVE  /\ s.is = "standing without pin" => JoinReads(s) = Unpinned
           /\ s.is = "standing from another root" => JoinReads(s) = [is |-> "switching", root |-> s.root]
           /\ s.is \notin {"standing without pin", "standing from another root"} => JoinReads(s) = s
           /\ JoinReads(s).is = "device" => JoinReads(s) = s
<1>1. s.is = "standing without pin" => JoinReads(s) = Unpinned
  BY DEF JoinReads
<1>2. s.is = "standing from another root" => JoinReads(s) = [is |-> "switching", root |-> s.root]
  BY DEF JoinReads
<1>3. s.is \notin {"standing without pin", "standing from another root"} => JoinReads(s) = s
  BY DEF JoinReads
<1>4. Unpinned.is # "device" /\ [is |-> "switching", root |-> s.root].is # "device"
  BY DEF Unpinned
<1> QED BY <1>1, <1>2, <1>3, <1>4

LEMMA JoinLeads ==
    ASSUME NEW a, NEW by, NEW f \in Homes, Good(f), f.key = FirstKey => Named(f, by),
           a.verb = "join", a.root \in Root, a.own \in Key, f.key = FirstKey => a.own = FirstKey,
           JoinReads(StandingOf(f)) = a.was, a.was.is \in {"unpinned", "switching", "device"}
    PROVE  Leads(a, by, f, JoinWrites(f, a.was, a.root, a.own))
<1> DEFINE r  == a.root
           v  == "join"
           b  == [root |-> r, key |-> a.own]
           f1 == IF RevokedRoot(f) # None THEN Put(f, File("root", None)) ELSE f
           f2 == Put(f1, File("list", None))
           f3 == Put(f2, File("invited", r))
           f4 == Put(f3, File("badge", b))
           f5 == Put(f4, File("pin", r))
           d4 == Put(f1, File("badge", b))
           s1 == When(RevokedRoot(f) # None, <<File("root", None)>>)
<1>1. /\ LiveRoot(f) = None
      /\ a.was # Device(r) \/ StandingOf(f) = Device(r)
  <2>1. StandingOf(f).is \notin {"minting", "holds", "root not pinned", "root without standing",
                                 "standing for another key"} \/ LiveRoot(f) = None
    <3> DEFINE s == StandingOf(f)
    <3>1. JoinReads(s) = a.was
      OBVIOUS
    <3> HIDE DEF s
    <3>2. s.is \notin {"minting", "holds", "root not pinned", "root without standing", "standing for another key"}
      BY <3>1 DEF JoinReads
    <3> QED BY <3>2 DEF s
  <2>2. LiveRoot(f) = None
    BY <2>1 DEF StandingOf, WithRoot, Minting, Damaged, Holds, ForAnotherKey
  <2>3. ASSUME a.was = Device(r) PROVE StandingOf(f) = Device(r)
    <3> DEFINE s == StandingOf(f)
    <3>1. JoinReads(s) = a.was /\ a.was.is = "device"
      BY <2>3 DEF Device
    <3> HIDE DEF s
    <3>2. s = a.was
      BY <3>1, JoinReadsIs
    <3> QED BY <3>2, <2>3 DEF s
  <2> QED BY <2>2, <2>3
<1>2. b \in Badge /\ b # None /\ b.root = r /\ b.key = a.own /\ r # None
  BY NoneApart DEF Badge
<1>4. Sound(v, by, f)
  BY DEF Sound, Named
<1>5. /\ Path(v, r, by, f, s1, f1) /\ Sound(v, by, f1)
      /\ f1 \in Homes /\ f1.root = None /\ f1.key = f.key /\ f1.pin = f.pin /\ f1.badge = f.badge /\ f1.list = f.list
      /\ f1.revoked = f.revoked
  <2>1. CASE RevokedRoot(f) # None
    <3>1. Moves(v, r, by, f, File("root", None))
      BY <1>1, <1>4, RootGoes
    <3>2. s1 = <<File("root", None)>> /\ f1 = Put(f, File("root", None))
      BY <2>1 DEF When
    <3> HIDE DEF s1, f1
    <3> QED BY <3>1, <3>2, PutRoot DEF Moves
  <2>2. CASE RevokedRoot(f) = None
    <3>1. s1 = <<>> /\ f1 = f
      BY <2>2 DEF When
    <3>2. f.root = None
      BY <1>1, <2>2, NoneApart, HomeFields DEF RevokedRoot, LiveRoot, Live
    <3> HIDE DEF s1, f1
    <3> QED BY <3>1, <3>2, <1>4, PathNone
  <2> QED BY <2>1, <2>2
<1>6. LiveRoot(f1) = None /\ LivePin(f1) = LivePin(f)
  BY <1>5 DEF LiveRoot, LivePin, Live
<1> HIDE DEF f1, s1, b, v
<1>7. CASE a.was = Device(r)
  <2>1. LivePin(f) = r /\ f.badge # None /\ f.badge.root = r /\ f.badge.key = f.key
    BY <1>1, <1>7, ReadsDevice
  <2>2. f1.list # None => f1.list.root = r
    BY <1>1, <1>2, <1>5, <2>1 DEF Good, DeviceList
  <2>3. Moves(v, r, by, f1, File("badge", b))
    BY <2>1, <2>2, <1>5, <1>6, BadgeComes DEF v, b
  <2>4. /\ d4 \in Homes /\ d4.root = None /\ d4.key = f.key /\ d4.pin = f.pin /\ d4.badge = b /\ d4.list = f.list
        /\ d4.revoked = f.revoked
    BY <1>2, <1>5, PutBadge
  <2>5. JoinWrites(f, a.was, r, a.own) = ((s1 \o <<>>) \o <<File("badge", b)>>) \o <<>>
    BY <1>7 DEF JoinWrites, When, s1, b
  <2>6. Path(v, r, by, f1, <<File("badge", b)>>, d4) /\ Sound(v, by, d4)
    BY <2>3 DEF Moves
  <2> HIDE DEF d4
  <2>7. Path(v, r, by, f, JoinWrites(f, a.was, r, a.own), d4)
    <3>1. Path(v, r, by, f1, <<>>, f1) /\ Path(v, r, by, d4, <<>>, d4)
      BY <2>6, <1>5, PathNone
    <3>2. Path(v, r, by, f, s1 \o <<>>, f1)
      BY <3>1, <1>5, PathJoin
    <3>3. Path(v, r, by, f, (s1 \o <<>>) \o <<File("badge", b)>>, d4)
      BY <2>6, <3>2, PathJoin
    <3> QED BY <2>5, <3>1, <3>3, PathJoin
  <2>8. Ends(a, by, d4)
    <3>1. LivePin(d4) = r /\ LiveRoot(d4) = None
      BY <2>1, <2>4, <1>2 DEF LivePin, LiveRoot, Live
    <3>2. d4.key = FirstKey => Named(d4, by)
      BY <1>2, <2>1, <2>4, <3>1, NamedIs
    <3>3. ~Missed(a, d4) => StandingOf(d4) = Device(r)
      BY <1>2, <2>1, <2>4, <3>1, ReadsDevice DEF Missed
    <3> QED BY <3>2, <3>3 DEF Ends, Promise
  <2> QED BY <2>7, <2>8 DEF Leads, v
<1>8. CASE a.was # Device(r)
  <2>1. Moves(v, r, by, f1, File("list", None))
    BY <1>5, <1>6, ListGoes
  <2>2. /\ f2 \in Homes /\ f2.root = None /\ f2.key = f.key /\ f2.pin = f.pin /\ f2.badge = f.badge /\ f2.list = None
        /\ f2.revoked = f.revoked
    <3>1. File("list", None) \in Writes /\ File("list", None).name = "list" /\ File("list", None).to = None
      BY DEF File, Writes
    <3> QED BY <1>5, <3>1, PutList
  <2>3. Sound(v, by, f2) /\ Path(v, r, by, f1, <<File("list", None)>>, f2)
    BY <2>1 DEF Moves
  <2> HIDE DEF f2
  <2>4. Moves(v, r, by, f2, File("invited", r))
    BY <2>3, InvitedMoves
  <2>5. /\ f3 \in Homes /\ f3.root = None /\ f3.key = f.key /\ f3.pin = f.pin /\ f3.badge = f.badge /\ f3.list = None
        /\ f3.revoked = f.revoked
    BY <2>2, PutInvited
  <2>6. Sound(v, by, f3) /\ Path(v, r, by, f2, <<File("invited", r)>>, f3)
    BY <2>4 DEF Moves
  <2> HIDE DEF f3
  <2>7. Moves(v, r, by, f3, File("badge", b))
    BY <2>5, <2>6, BadgeComes DEF b, v
  <2>8. /\ f4 \in Homes /\ f4.root = None /\ f4.key = f.key /\ f4.pin = f.pin /\ f4.badge = b /\ f4.list = None
        /\ f4.revoked = f.revoked
    BY <1>2, <2>5, PutBadge
  <2>9. Sound(v, by, f4) /\ Path(v, r, by, f3, <<File("badge", b)>>, f4)
    BY <2>7 DEF Moves
  <2> HIDE DEF f4
  <2>10. Moves(v, r, by, f4, File("pin", r))
    BY <1>2, <2>8, <2>9, PinComes DEF v
  <2>11. /\ f5 \in Homes /\ f5.root = None /\ f5.key = f.key /\ f5.pin = r /\ f5.badge = b /\ f5.list = None
         /\ f5.revoked = f.revoked
    BY <2>8, PutPin
  <2>12. Sound(v, by, f5) /\ Path(v, r, by, f4, <<File("pin", r)>>, f5)
    BY <2>10 DEF Moves
  <2> HIDE DEF f5
  <2>13. JoinWrites(f, a.was, r, a.own)
          = ((s1 \o <<File("list", None), File("invited", r)>>) \o <<File("badge", b)>>) \o <<File("pin", r)>>
    BY <1>8 DEF JoinWrites, When, s1, b
  <2>14. Path(v, r, by, f, JoinWrites(f, a.was, r, a.own), f5)
    <3>1. Path(v, r, by, f1, <<File("list", None), File("invited", r)>>, f3)
      BY <2>3, <2>6, PathJoin, Pair
    <3>2. Path(v, r, by, f, s1 \o <<File("list", None), File("invited", r)>>, f3)
      BY <3>1, <1>5, PathJoin
    <3>3. Path(v, r, by, f, (s1 \o <<File("list", None), File("invited", r)>>) \o <<File("badge", b)>>, f4)
      BY <3>2, <2>9, PathJoin
    <3> QED BY <3>3, <2>12, <2>13, PathJoin
  <2>15. Ends(a, by, f5)
    <3>1. LivePin(f5) = (IF r \in f.revoked THEN None ELSE r) /\ LiveRoot(f5) = None
      BY <2>11 DEF LivePin, LiveRoot, Live
    <3>2. f5.key = FirstKey => Named(f5, by)
      BY <1>2, <2>11, <3>1, NamedIs
    <3>3. ~Missed(a, f5) => StandingOf(f5) = Device(r)
      BY <1>2, <2>11, <3>1, ReadsDevice DEF Missed
    <3> QED BY <3>2, <3>3 DEF Ends, Promise
  <2> QED BY <2>14, <2>15 DEF Leads, v
<1> QED BY <1>7, <1>8

\* One file more.
LEMMA PathAdd ==
    ASSUME NEW v, NEW r, NEW by, NEW f, NEW t, NEW g, NEW w, NEW h, h = Put(g, w),
           Path(v, r, by, f, t, g), Moves(v, r, by, g, w)
    PROVE  Path(v, r, by, f, t \o <<w>>, h) /\ Sound(v, by, h)
<1>1. Path(v, r, by, g, <<w>>, h) /\ Sound(v, by, h)
  BY DEF Moves
<1> QED BY <1>1, PathJoin

LEMMA PathSound ==
    ASSUME NEW v, NEW r, NEW by, NEW f, NEW t, NEW g, Path(v, r, by, f, t, g)
    PROVE  Sound(v, by, f) /\ Sound(v, by, g) /\ f \in Homes /\ g \in Homes
<1>1. PICK c \in Seq(Homes) :
         /\ Len(c) = Len(t) + 1
         /\ c[1] = f /\ c[Len(c)] = g
         /\ \A i \in 1 .. Len(c) : Sound(v, by, c[i])
  BY DEF Path
<1>2. t \in Seq(Writes)
  BY DEF Path
<1>3. Len(t) \in Nat /\ 1 \in 1 .. Len(c) /\ Len(c) \in 1 .. Len(c)
  BY <1>1, <1>2, LenProperties
<1>4. Sound(v, by, f) /\ Sound(v, by, g)
  BY <1>1, <1>3
<1> QED BY <1>4 DEF Sound

\* A standing and its pin can go: the pin trusts nothing, or this is a leave where no root is kept.
MayGo(v, f) ==
    LivePin(f) = None \/ (v \in {"leave", "new key", "undo"} /\ (f.key # FirstKey \/ LiveRoot(f) = None))

\* Three sequences join in either order.
Joins(x, y, z) == (x \o y) \o z = x \o (y \o z)

LEMMA ThreeJoined ==
    ASSUME NEW S, NEW x \in Seq(S), NEW y \in Seq(S), NEW z \in Seq(S)
    PROVE  Joins(x, y, z) /\ x \o y \in Seq(S)
BY ConcatAssociative, ConcatProperties DEF Joins

\* Four sequences joined to a fifth at once, or one by one.
JoinsAll(t, a, b, c, e) == t \o ((a \o b) \o c \o e) = ((t \o a \o b) \o c) \o e

LEMMA FourJoined ==
    ASSUME NEW S, NEW t \in Seq(S), NEW a \in Seq(S), NEW b \in Seq(S), NEW c \in Seq(S), NEW e \in Seq(S)
    PROVE  JoinsAll(t, a, b, c, e)
<1> DEFINE ab == a \o b
           abc == ab \o c
<1>1. ab \in Seq(S) /\ Joins(t, a, b)
  BY ThreeJoined
<1> HIDE DEF ab
<1>2. abc \in Seq(S) /\ Joins(t, ab, c)
  BY <1>1, ThreeJoined
<1> HIDE DEF abc
<1>3. Joins(t, abc, e)
  BY <1>2, ThreeJoined
<1> QED BY <1>1, <1>2, <1>3 DEF JoinsAll, Joins, ab, abc

\* A home as it is while no verb writes in it.
Rests(by, f) == f \in Homes /\ Good(f) /\ (f.key = FirstKey => Named(f, by))

LEMMA RestsSound == ASSUME NEW v, NEW by, NEW f, Rests(by, f) PROVE Sound(v, by, f) /\ f \in Homes
BY DEF Rests, Sound, Named

\* A leave: the standing, whose invite it was, the list where no root is kept, the pin.
LEMMA LeavePath ==
    ASSUME NEW v, NEW r, NEW by, NEW f0, NEW t, NEW f, Path(v, r, by, f0, t, f), MayGo(v, f)
    PROVE  \E g \in Homes :
             /\ Path(v, r, by, f0, t \o LeaveWrites(f), g)
             /\ g.key = f.key /\ g.root = f.root /\ g.pin = None /\ g.badge = None /\ g.revoked = f.revoked
             /\ g.copyKey = f.copyKey
<1> DEFINE f1 == Put(f, File("badge", None))
           f2 == Put(f1, File("invited", None))
           w  == File("list", None)
           f3 == IF f.root = None THEN Put(f2, w) ELSE f2
           f4 == Put(f3, File("pin", None))
           t2 == t \o <<File("badge", None)>> \o <<File("invited", None)>>
           t3 == t2 \o When(f.root = None, <<w>>)
<1>1. f \in Homes /\ Sound(v, by, f)
  BY PathSound
<1>2. Path(v, r, by, f0, t \o <<File("badge", None)>>, f1) /\ Sound(v, by, f1)
  <2>1. Moves(v, r, by, f, File("badge", None))
    BY <1>1, BadgeGoes DEF MayGo
  <2>2. File("badge", None) \in Writes
    BY <2>1 DEF Moves
  <2> QED BY <1>1, <2>1, <2>2, PathAdd
<1>3. /\ f1 \in Homes /\ f1.key = f.key /\ f1.root = f.root /\ f1.pin = f.pin /\ f1.badge = None
      /\ f1.revoked = f.revoked /\ f1.copyKey = f.copyKey
  BY <1>1, PutBadge
<1> HIDE DEF f1
<1>4. Path(v, r, by, f0, t2, f2) /\ Sound(v, by, f2)
  BY <1>2, InvitedMoves, PathAdd
<1>5. /\ f2 \in Homes /\ f2.key = f.key /\ f2.root = f.root /\ f2.pin = f.pin /\ f2.badge = None
      /\ f2.revoked = f.revoked /\ f2.copyKey = f.copyKey
  BY <1>3, PutInvited
<1> HIDE DEF f2, t2
<1>6. /\ Path(v, r, by, f0, t3, f3) /\ Sound(v, by, f3)
      /\ f3 \in Homes /\ f3.key = f.key /\ f3.root = f.root /\ f3.pin = f.pin /\ f3.badge = None
      /\ f3.revoked = f.revoked /\ f3.copyKey = f.copyKey
  <2>1. CASE f.root = None
    <3>1. Moves(v, r, by, f2, w)
      BY <1>4, <1>5, <2>1, ListGoes DEF LiveRoot, Live
    <3>2. t3 = t2 \o <<w>> /\ f3 = Put(f2, w)
      BY <2>1 DEF When
    <3>3. w \in Writes /\ w.name = "list" /\ w.to = None
      BY DEF File, Writes
    <3> HIDE DEF w, t3, f3
    <3>4. Path(v, r, by, f0, t3, f3) /\ Sound(v, by, f3)
      BY <3>1, <3>2, <1>4, PathAdd
    <3> QED BY <3>2, <3>3, <3>4, <1>5, PutList
  <2>2. CASE f.root # None
    <3>1. t3 = t2 \o <<>> /\ f3 = f2
      BY <2>2 DEF When
    <3> HIDE DEF w, t3, f3
    <3> QED BY <3>1, <1>4, <1>5, PathNone, PathJoin
  <2> QED BY <2>1, <2>2
<1> HIDE DEF f3, t3
<1>7. LivePin(f3) = LivePin(f) /\ LiveRoot(f3) = LiveRoot(f)
  BY <1>6 DEF LivePin, LiveRoot, Live
<1>8. Path(v, r, by, f0, t3 \o <<File("pin", None)>>, f4)
  BY <1>6, <1>7, PinGoes, PathAdd DEF MayGo
<1>9. /\ f4 \in Homes /\ f4.key = f.key /\ f4.root = f.root /\ f4.pin = None /\ f4.badge = None
      /\ f4.revoked = f.revoked /\ f4.copyKey = f.copyKey
  BY <1>6, PutPin
<1> HIDE DEF f4
<1>10. t \o LeaveWrites(f) = t3 \o <<File("pin", None)>>
  <2> DEFINE a == <<File("badge", None)>>
             b == <<File("invited", None)>>
             c == When(f.root = None, <<w>>)
             e == <<File("pin", None)>>
  <2>0. /\ File("badge", None) \in Writes /\ File("invited", None) \in Writes
        /\ w \in Writes /\ File("pin", None) \in Writes
    BY DEF Writes, File
  <2>1. a \in Seq(Writes) /\ b \in Seq(Writes) /\ c \in Seq(Writes) /\ e \in Seq(Writes)
    BY <2>0 DEF When
  <2>4. t \in Seq(Writes)
    BY DEF Path
  <2>2. LeaveWrites(f) = (a \o b) \o c \o e
    BY Pair DEF LeaveWrites
  <2>3. t3 \o e = ((t \o a \o b) \o c) \o e
    BY DEF t3, t2
  <2> HIDE DEF a, b, c, e, t3
  <2>5. t \o ((a \o b) \o c \o e) = ((t \o a \o b) \o c) \o e
    <3>1. JoinsAll(t, a, b, c, e)
      BY <2>1, <2>4, FourJoined
    <3> QED BY <3>1 DEF JoinsAll
  <2> QED BY <2>2, <2>3, <2>5 DEF e
<1> QED BY <1>8, <1>9, <1>10

Leaves(v) == v \in {"leave", "new key"}

LEMMA LeaveEnds ==
    ASSUME NEW a, NEW by, NEW g \in Homes, a.verb \in {"leave", "new key"}, g.pin = None, g.badge = None,
           g.key # FirstKey \/ LiveRoot(g) = None
    PROVE  Ends(a, by, g)
<1>1. LivePin(g) = None
  BY DEF LivePin, Live
<1>2. StandingOf(g) \in {Unpinned, Minting(g.root)}
  BY <1>1, ReadsUnpinned, ReadsMinting DEF LiveRoot, Live
<1>3. g.key = FirstKey => Named(g, by)
  BY <1>1, NamedIs
<1> QED BY <1>2, <1>3 DEF Ends, Promise

\* A home a leave is asked at keeps no root, unless its key is another.
LEMMA LeftMayGo ==
    ASSUME NEW v, Leaves(v), NEW by, NEW f, Rests(by, f), CanLeave(StandingOf(f))
    PROVE  MayGo(v, f) /\ (f.key # FirstKey \/ LiveRoot(f) = None)
<1>1. ASSUME f.key = FirstKey, LiveRoot(f) # None PROVE FALSE
  <2>1. Named(f, by)
    BY <1>1 DEF Rests
  <2>2. StandingOf(f).is \in {"unpinned", "device", "holds", "minting"} \/ LiveRoot(f) = None
    BY <2>1, Readings DEF Named, IsWhole
  <2>3. StandingOf(f).is # "device"
    BY <1>1, Readings, ReadsDevice
  <2> QED BY <1>1, <2>2, <2>3 DEF CanLeave, IsDamaged, Damage
<1> QED BY <1>1 DEF MayGo, Leaves

\* The home a leave was asked at is still one to leave.
LEMMA StillLeft ==
    ASSUME NEW w, NEW s, LeaveStill(w, s), CanLeave(w)
    PROVE  CanLeave(s)
BY DEF CanLeave, LeaveStill

LEMMA StillUnpinned ==
    ASSUME NEW s, LeaveStill(Unpinned, s)
    PROVE  s = Unpinned
BY DEF LeaveStill, IsDamaged, Damage, Unpinned

LEMMA LeaveFrom ==
    ASSUME NEW v, NEW r, NEW by, NEW f, Sound(v, by, f), MayGo(v, f)
    PROVE  \E g \in Homes :
             /\ Path(v, r, by, f, LeaveWrites(f), g)
             /\ g.key = f.key /\ g.root = f.root /\ g.pin = None /\ g.badge = None /\ g.revoked = f.revoked
<1> DEFINE e == <<>>
<1>1. Path(v, r, by, f, e, f)
  BY PathNone
<1>2. e \o LeaveWrites(f) = LeaveWrites(f)
  BY DEF LeaveWrites, When
<1> HIDE DEF e
<1>3. PICK g \in Homes :
         /\ Path(v, r, by, f, e \o LeaveWrites(f), g)
         /\ g.key = f.key /\ g.root = f.root /\ g.pin = None /\ g.badge = None /\ g.revoked = f.revoked
  BY <1>1, LeavePath
<1> QED BY <1>2, <1>3

LEMMA LeaveLeads ==
    ASSUME NEW a, NEW by, NEW f, Rests(by, f), a.verb = "leave", CanLeave(a.was), LeaveStill(a.was, StandingOf(f))
    PROVE  Leads(a, by, f, LeaveWrites(f))
<1> DEFINE v == a.verb
           r == a.root
<1>1. CanLeave(StandingOf(f))
  BY StillLeft
<1>2. MayGo(v, f) /\ (f.key # FirstKey \/ LiveRoot(f) = None)
  BY <1>1, LeftMayGo DEF Leaves
<1>3. Sound(v, by, f)
  BY RestsSound
<1>4. PICK g \in Homes :
         /\ Path(v, r, by, f, LeaveWrites(f), g)
         /\ g.key = f.key /\ g.root = f.root /\ g.pin = None /\ g.badge = None /\ g.revoked = f.revoked
  BY <1>2, <1>3, LeaveFrom
<1>5. g.key # FirstKey \/ LiveRoot(g) = None
  BY <1>2, <1>4 DEF LiveRoot, Live
<1>6. Ends(a, by, g)
  BY <1>4, <1>5, LeaveEnds
<1> QED BY <1>4, <1>6 DEF Leads

LEMMA NewKeyLeaves ==
    ASSUME NEW v, Leaves(v), NEW r, NEW by, NEW f, Rests(by, f),
           NEW w, CanLeave(w) \/ w = Unpinned, LeaveStill(w, StandingOf(f))
    PROVE  \E g \in Homes :
             /\ Path(v, r, by, f, When(w # Unpinned, LeaveWrites(f)), g)
             /\ StandingOf(g) \in {Unpinned, Minting(g.root)}
<1> DEFINE s == When(w # Unpinned, LeaveWrites(f))
<1>1. Sound(v, by, f) /\ f \in Homes
  BY RestsSound
<1>2. CASE w = Unpinned
  <2>1. s = <<>>
    BY <1>2 DEF When
  <2>2. StandingOf(f) = Unpinned
    BY <1>2, StillUnpinned
  <2>3. Path(v, r, by, f, <<>>, f)
    BY <1>1, PathNone
  <2> QED BY <1>1, <2>1, <2>2, <2>3
<1>3. CASE w # Unpinned
  <2>1. CanLeave(StandingOf(f))
    BY <1>3, StillLeft
  <2>2. MayGo(v, f)
    BY <2>1, LeftMayGo
  <2>3. PICK g \in Homes :
           /\ Path(v, r, by, f, LeaveWrites(f), g)
           /\ g.key = f.key /\ g.root = f.root /\ g.pin = None /\ g.badge = None /\ g.revoked = f.revoked
    BY <1>1, <2>2, LeaveFrom
  <2>4. s = LeaveWrites(f)
    BY <1>3 DEF When
  <2>5. LivePin(g) = None
    BY <2>3 DEF LivePin, Live
  <2>6. StandingOf(g) \in {Unpinned, Minting(g.root)}
    BY <2>3, <2>5, ReadsUnpinned, ReadsMinting DEF LiveRoot, Live
  <2> HIDE DEF s
  <2> QED BY <2>3, <2>4, <2>6 DEF s
<1> QED BY <1>2, <1>3

LEMMA NewKeyLeads ==
    ASSUME NEW a, NEW by, NEW f, Rests(by, f), a.verb = "new key", CanLeave(a.was) \/ a.was = Unpinned,
           LeaveStill(a.was, StandingOf(f)), NEW k \in Key, k # FirstKey
    PROVE  Leads(a, by, f, When(a.was # Unpinned, LeaveWrites(f)) \o <<File("key", k)>>)
<1> DEFINE v == a.verb
           r == a.root
           s == When(a.was # Unpinned, LeaveWrites(f))
<1>1. PICK g \in Homes : Path(v, r, by, f, s, g) /\ StandingOf(g) \in {Unpinned, Minting(g.root)}
  <2>1. Leaves(v)
    BY DEF Leaves
  <2> QED BY <2>1, NewKeyLeaves
<1> DEFINE h == Put(g, File("key", k))
<1> HIDE DEF s, r
<1>2. Path(v, r, by, f, s \o <<File("key", k)>>, h)
  BY <1>1, PathSound, KeyComes, PathAdd
<1>3. h \in Homes /\ h.key = k /\ h.root = g.root /\ h.pin = g.pin /\ h.badge = g.badge /\ h.revoked = g.revoked
  <2>1. h = Put(g, File("key", k))
    OBVIOUS
  <2> HIDE DEF h
  <2>2. HasNewKey(h, g, k)
    BY <2>1, PutNewKey
  <2> QED BY <2>2 DEF HasNewKey
<1> HIDE DEF h
<1>4. LiveRoot(h) = LiveRoot(g) /\ LivePin(h) = LivePin(g)
  BY <1>3 DEF LiveRoot, LivePin, Live
<1>5. StandingOf(h) \in {Unpinned, Minting(h.root)}
  BY <1>1, <1>3, <1>4, ReadsUnpinned, ReadsMinting
<1>6. Ends(a, by, h)
  BY <1>3, <1>5 DEF Ends, Promise
<1> QED BY <1>2, <1>6 DEF Leads, s, r

\* A verb that puts a root here, or takes its standing.
Makes(v) == v \in {"mint", "finish", "restore"}

\* Its root is here, and it takes the standing for the key that is here, if that is the first.
MayTake(r, k, f) == f.root = r /\ k \in Key /\ (f.key = FirstKey => k = FirstKey)

\* The home where all is taken, but for the list.
Taken(r, k, f, g) ==
    /\ g.key = f.key /\ g.root = r /\ g.pin = r /\ g.badge = [root |-> r, key |-> k] /\ g.revoked = f.revoked
    /\ g.list # None /\ g.list.root = r

LEMMA TakePath ==
    ASSUME NEW v, Makes(v), NEW r \in Root, NEW by, NEW f0, NEW t, NEW f, Path(v, r, by, f0, t, f),
           NEW k, MayTake(r, k, f), f.list # None, f.list.root = r
    PROVE  \E g \in Homes : Path(v, r, by, f0, t \o TakeStanding(r, k), g) /\ Taken(r, k, f, g) /\ g.list = f.list
<1> DEFINE b  == [root |-> r, key |-> k]
           f1 == Put(f, File("badge", b))
           f2 == Put(f1, File("pin", r))
           a  == <<File("badge", b)>>
           e  == <<File("pin", r)>>
<1>0. f \in Homes /\ Sound(v, by, f) /\ k \in Key /\ f.root = r /\ (f.key = FirstKey => k = FirstKey)
  BY PathSound DEF MayTake
<1>1. b \in Badge /\ b # None /\ b.root = r /\ b.key = k
  BY <1>0, NoneApart DEF Badge
<1>2. Moves(v, r, by, f, File("badge", b))
  BY <1>0, BadgeComes DEF Makes
<1> HIDE DEF b
<1>3. Path(v, r, by, f0, t \o a, f1) /\ Sound(v, by, f1)
  BY <1>2, PathAdd
<1>4. /\ f1 \in Homes /\ f1.key = f.key /\ f1.root = r /\ f1.pin = f.pin /\ f1.badge = b /\ f1.list = f.list
      /\ f1.revoked = f.revoked
  BY <1>0, <1>1, PutBadge
<1> HIDE DEF f1
<1>5. Moves(v, r, by, f1, File("pin", r))
  BY <1>0, <1>1, <1>3, <1>4, PinComes DEF Makes
<1>6. Path(v, r, by, f0, (t \o a) \o e, f2)
  BY <1>3, <1>5, PathAdd
<1>7. /\ f2 \in Homes /\ f2.key = f.key /\ f2.root = r /\ f2.pin = r /\ f2.badge = b /\ f2.list = f.list
      /\ f2.revoked = f.revoked
  BY <1>4, PutPin
<1> HIDE DEF f2
<1>8. (t \o a) \o e = t \o TakeStanding(r, k)
  <2>1. a \in Seq(Writes) /\ e \in Seq(Writes) /\ t \in Seq(Writes)
    <3>1. File("badge", b) \in Writes /\ File("pin", r) \in Writes
      BY <1>1 DEF Writes, File
    <3> QED BY <3>1 DEF Path
  <2>2. TakeStanding(r, k) = a \o e
    BY Pair DEF TakeStanding, b
  <2> HIDE DEF a, e
  <2>3. Joins(t, a, e)
    BY <2>1, ThreeJoined
  <2> QED BY <2>2, <2>3 DEF Joins
<1> QED BY <1>6, <1>7, <1>8 DEF Taken, b

LEMMA TakeOwnPath ==
    ASSUME NEW v, Makes(v), NEW r \in Root, NEW by, NEW f0, NEW t, NEW f, Path(v, r, by, f0, t, f),
           NEW k, MayTake(r, k, f), LivePin(f) \in {None, r},
           NEW l \in Lists \cup {None}, l # None => l.root = r
    PROVE  \E g \in Homes : Path(v, r, by, f0, t \o TakeOwn(r, k, l), g) /\ Taken(r, k, f, g)
<1> DEFINE rows  == IF l = None THEN {} ELSE l.rows
           drops == IF l = None THEN {} ELSE l.drops
           n     == [root |-> r, number |-> NumberUnder(l, r) + 1, rows |-> rows \cup {k}, drops |-> drops]
           w     == CutFile(n)
           f1    == Put(f, w)
<1>0. f \in Homes /\ Sound(v, by, f) /\ k \in Key /\ f.root = r
  BY PathSound DEF MayTake
<1>1. n \in Lists /\ n.root = r
  <2>1. NumberUnder(l, r) \in Nat
    BY DEF NumberUnder, Lists, List
  <2>2. rows \subseteq Key /\ drops \subseteq Key
    BY DEF Lists, List
  <2> HIDE DEF rows, drops
  <2> QED BY <1>0, <2>1, <2>2 DEF Lists, List
<1>2. TakeOwn(r, k, l) = <<w>> \o TakeStanding(r, k)
  BY DEF TakeOwn
<1> HIDE DEF n
<1>3. w \in Writes /\ w.name = "list" /\ w.to = n /\ w = [name |-> "list", to |-> n, cut |-> TRUE]
  BY <1>1 DEF CutFile, Writes
<1> HIDE DEF w
<1>4. Moves(v, r, by, f, w)
  <2>1. LiveRoot(f) \in {None, r}
    BY <1>0 DEF LiveRoot, Live
  <2> QED BY <1>0, <1>1, <1>3, <2>1, ListComes
<1>5. Path(v, r, by, f0, t \o <<w>>, f1)
  BY <1>4, PathAdd
<1>6. f1 \in Homes /\ f1.key = f.key /\ f1.root = r /\ f1.list = n /\ f1.revoked = f.revoked
  BY <1>0, <1>1, <1>3, PutList
<1> HIDE DEF f1
<1>7. MayTake(r, k, f1) /\ f1.list # None /\ f1.list.root = r
  BY <1>1, <1>6, NoneApart DEF MayTake
<1>8. PICK g \in Homes :
        Path(v, r, by, f0, (t \o <<w>>) \o TakeStanding(r, k), g) /\ Taken(r, k, f1, g)
  BY <1>5, <1>7, TakePath
<1>9. Taken(r, k, f, g)
  BY <1>6, <1>8 DEF Taken
<1>10. (t \o <<w>>) \o TakeStanding(r, k) = t \o TakeOwn(r, k, l)
  <2> DEFINE a == <<w>>
             e == TakeStanding(r, k)
  <2>1. [root |-> r, key |-> k] \in Badge
    BY <1>0 DEF Badge
  <2>2. File("badge", [root |-> r, key |-> k]) \in Writes /\ File("pin", r) \in Writes
    BY <2>1 DEF Writes, File
  <2>3. a \in Seq(Writes) /\ e \in Seq(Writes)
    BY <1>3, <2>2 DEF TakeStanding
  <2>4. t \in Seq(Writes)
    BY DEF Path
  <2>5. TakeOwn(r, k, l) = a \o e
    BY <1>2
  <2> HIDE DEF a, e
  <2>6. (t \o a) \o e = t \o (a \o e)
    <3>1. Joins(t, a, e)
      BY <2>3, <2>4, ThreeJoined
    <3> QED BY <3>1 DEF Joins
  <2> QED BY <2>5, <2>6 DEF a, e
<1> QED BY <1>8, <1>9, <1>10

\* A home where all is taken holds its root, if it was not revoked and the key is the machine's.
LEMMA TakenReads ==
    ASSUME NEW r \in Root, NEW k, NEW by, NEW f, MayTake(r, k, f), NEW g \in Homes, Taken(r, k, f, g)
    PROVE  /\ g.key = FirstKey => Named(g, by)
           /\ r \notin f.revoked /\ k = f.key => StandingOf(g) = Holds(r)
<1>1. g.badge # None /\ g.badge.root = r /\ g.badge.key = k /\ r # None
  BY NoneApart DEF Taken, MayTake, Badge
<1>2. CASE r \in f.revoked
  <2>1. LiveRoot(g) = None /\ LivePin(g) = None /\ g.badge.root \in g.revoked
    BY <1>1, <1>2 DEF Taken, LiveRoot, LivePin, Live
  <2> QED BY <1>2, <2>1, NamedIs
<1>3. CASE r \notin f.revoked
  <2>1. LiveRoot(g) = r /\ LivePin(g) = r
    BY <1>3 DEF Taken, LiveRoot, LivePin, Live
  <2>2. g.key = f.key
    BY DEF Taken
  <2>3. k = f.key => StandingOf(g) = Holds(r)
    BY <1>1, <2>1, <2>2, ReadsHolds
  <2>4. g.key = FirstKey => k = g.key
    BY <2>2 DEF MayTake
  <2>5. g.key = FirstKey => Named(g, by)
    BY <1>1, <2>1, <2>4, NamedIs
  <2> QED BY <2>3, <2>5
<1> QED BY <1>2, <1>3

LEMMA TakenEnds ==
    ASSUME NEW a, a.verb \in {"mint", "finish", "restore"}, a.root \in Root, NEW by, NEW f, MayTake(a.root, a.own, f),
           NEW g \in Homes, Taken(a.root, a.own, f, g)
    PROVE  Ends(a, by, g)
<1>1. /\ g.key = FirstKey => Named(g, by)
      /\ a.root \notin f.revoked /\ a.own = f.key => StandingOf(g) = Holds(a.root)
  BY TakenReads
<1>2. ~Missed(a, g) => a.root \notin f.revoked /\ a.own = f.key
  BY DEF Missed, Taken
<1>3. ~Missed(a, g) => Promise(a, g)
  BY <1>1, <1>2 DEF Promise
<1> QED BY <1>1, <1>3 DEF Ends

\* The machine's key is the one read, if that was the first.
SameFirst(k, f) == k \in Key /\ (f.key = FirstKey => k = FirstKey)

LEMMA MintLeads ==
    ASSUME NEW a, a.verb = "mint", a.root \in Root, NEW by, NEW f, Rests(by, f), SameFirst(a.own, f),
           StandingOf(f) = Unpinned, f.root # a.root
    PROVE  Leads(a, by, f, When(f.root # None, <<File("root", None)>>) \o <<File("root", a.root)>>
                           \o TakeOwn(a.root, a.own, None))
<1> DEFINE v  == a.verb
           r  == a.root
           k  == a.own
           s  == When(f.root # None, <<File("root", None)>>)
           f1 == IF f.root # None THEN Put(f, File("root", None)) ELSE f
           f2 == Put(f1, File("root", r))
<1>1. Sound(v, by, f) /\ f \in Homes /\ Makes(v)
  BY RestsSound DEF Makes
<1>2. LiveRoot(f) = None /\ LivePin(f) = None /\ (f.badge = None \/ f.badge.root \in f.revoked)
  BY ReadsUnpinned
<1>3. /\ Path(v, r, by, f, s, f1) /\ Sound(v, by, f1)
      /\ f1 \in Homes /\ f1.root = None /\ f1.key = f.key /\ f1.pin = f.pin /\ f1.badge = f.badge
      /\ f1.revoked = f.revoked
  <2>1. CASE f.root # None
    <3>1. Moves(v, r, by, f, File("root", None))
      BY <1>1, <1>2, RootGoes
    <3>2. s = <<File("root", None)>> /\ f1 = Put(f, File("root", None))
      BY <2>1 DEF When
    <3> HIDE DEF s, f1
    <3> QED BY <3>1, <3>2, <1>1, PutRoot DEF Moves
  <2>2. CASE f.root = None
    <3>1. s = <<>> /\ f1 = f
      BY <2>2 DEF When
    <3> HIDE DEF s, f1
    <3> QED BY <3>1, <2>2, <1>1, PathNone
  <2> QED BY <2>1, <2>2
<1> HIDE DEF f1, s
<1>4. LiveRoot(f1) = None /\ LivePin(f1) = None
  BY <1>2, <1>3 DEF LiveRoot, LivePin, Live
<1>5. Moves(v, r, by, f1, File("root", r))
  BY <1>2, <1>3, <1>4, RootComes
<1>6. Path(v, r, by, f, s \o <<File("root", r)>>, f2)
  BY <1>3, <1>5, PathAdd
<1>7. /\ f2 \in Homes /\ f2.root = r /\ f2.key = f.key /\ f2.pin = f.pin /\ f2.revoked = f.revoked
  BY <1>3, PutRoot
<1> HIDE DEF f2
<1>8. LivePin(f2) \in {None, r} /\ MayTake(r, k, f2)
  BY <1>2, <1>7 DEF LivePin, Live, MayTake, SameFirst
<1>9. \E g \in Homes : Path(v, r, by, f, (s \o <<File("root", r)>>) \o TakeOwn(r, k, None), g) /\ Taken(r, k, f2, g)
  BY <1>1, <1>6, <1>8, TakeOwnPath
<1>10. PICK g \in Homes :
         Path(v, r, by, f, (s \o <<File("root", r)>>) \o TakeOwn(r, k, None), g) /\ Taken(r, k, f2, g)
  BY <1>9
<1>11. Ends(a, by, g)
  BY <1>8, <1>10, TakenEnds
<1> QED BY <1>10, <1>11 DEF Leads, s

\* The same, from where the verb begins to write.
LEMMA TakeFrom ==
    ASSUME NEW v, Makes(v), NEW r \in Root, NEW by, NEW f, Sound(v, by, f), NEW k, MayTake(r, k, f)
    PROVE  /\ f.list # None /\ f.list.root = r =>
                \E g \in Homes : Path(v, r, by, f, TakeStanding(r, k), g) /\ Taken(r, k, f, g)
           /\ \A l \in Lists \cup {None} : LivePin(f) \in {None, r} /\ (l # None => l.root = r) =>
                \E g \in Homes : Path(v, r, by, f, TakeOwn(r, k, l), g) /\ Taken(r, k, f, g)
<1> DEFINE e == <<>>
<1>1. Path(v, r, by, f, e, f)
  BY PathNone
<1>2. e \o TakeStanding(r, k) = TakeStanding(r, k)
  BY DEF TakeStanding
<1>3. ASSUME NEW l PROVE e \o TakeOwn(r, k, l) = TakeOwn(r, k, l)
  BY DEF TakeOwn, TakeStanding
<1> HIDE DEF e
<1>4. ASSUME f.list # None, f.list.root = r
      PROVE  \E g \in Homes : Path(v, r, by, f, TakeStanding(r, k), g) /\ Taken(r, k, f, g)
  <2>1. \E g \in Homes : Path(v, r, by, f, e \o TakeStanding(r, k), g) /\ Taken(r, k, f, g)
    BY <1>1, <1>4, TakePath
  <2> QED BY <1>2, <2>1
<1>5. ASSUME NEW l \in Lists \cup {None}, LivePin(f) \in {None, r}, l # None => l.root = r
      PROVE  \E g \in Homes : Path(v, r, by, f, TakeOwn(r, k, l), g) /\ Taken(r, k, f, g)
  <2>1. \E g \in Homes : Path(v, r, by, f, e \o TakeOwn(r, k, l), g) /\ Taken(r, k, f, g)
    BY <1>1, <1>5, TakeOwnPath
  <2> QED BY <1>3, <2>1
<1> QED BY <1>4, <1>5

LEMMA FinishLeads ==
    ASSUME NEW a, a.verb = "finish", a.root \in Root, NEW by, NEW f, Rests(by, f), SameFirst(a.own, f),
           StandingOf(f) = Minting(a.root), a.list \in Lists \cup {None}, a.list # None => a.list.root = a.root
    PROVE  /\ f.list # None /\ f.list.root = a.root => Leads(a, by, f, TakeStanding(a.root, a.own))
           /\ Leads(a, by, f, TakeOwn(a.root, a.own, a.list))
<1> DEFINE v == a.verb
           r == a.root
           k == a.own
<1>1. Sound(v, by, f) /\ f \in Homes /\ Makes(v)
  BY RestsSound DEF Makes
<1>2. LiveRoot(f) = r /\ LivePin(f) = None /\ r # None
  BY ReadsMinting, NoneApart
<1>3. MayTake(r, k, f) /\ LivePin(f) \in {None, r}
  BY <1>2 DEF MayTake, SameFirst, LiveRoot, Live
<1>4. ASSUME f.list # None, f.list.root = r
      PROVE  Leads(a, by, f, TakeStanding(r, k))
  <2>1. \E g \in Homes : Path(v, r, by, f, TakeStanding(r, k), g) /\ Taken(r, k, f, g)
    BY <1>1, <1>3, <1>4, TakeFrom
  <2> QED BY <1>3, <2>1, TakenEnds DEF Leads
<1>5. Leads(a, by, f, TakeOwn(r, k, a.list))
  <2>1. \E g \in Homes : Path(v, r, by, f, TakeOwn(r, k, a.list), g) /\ Taken(r, k, f, g)
    BY <1>1, <1>3, TakeFrom
  <2> QED BY <1>3, <2>1, TakenEnds DEF Leads
<1> QED BY <1>4, <1>5

\* A standing is read from five files.
Alike(f, g) ==
    g.key = f.key /\ g.root = f.root /\ g.pin = f.pin /\ g.badge = f.badge /\ g.revoked = f.revoked

LEMMA AlikeReads ==
    ASSUME NEW f, NEW g, Alike(f, g)
    PROVE  /\ StandingOf(g) = StandingOf(f) /\ LiveRoot(g) = LiveRoot(f) /\ LivePin(g) = LivePin(f)
           /\ \A by : Named(g, by) <=> Named(f, by)
<1>1. LiveRoot(g) = LiveRoot(f) /\ LivePin(g) = LivePin(f)
  BY DEF Alike, LiveRoot, LivePin, Live
<1>2. StandingOf(g) = StandingOf(f)
  BY <1>1 DEF Alike, StandingOf, WithRoot, WithPin, WithNeither, ForAnotherKey
<1> QED BY <1>1, <1>2 DEF Named

LEMMA FoldedIs ==
    ASSUME NEW h \in Lists \cup {None}, NEW l \in Lists
    PROVE  Folded(h, l) \in Lists /\ Folded(h, l).root = l.root
<1>1. l.number \in Nat /\ l.number > 0 /\ l.drops \subseteq Key
  BY DEF Lists, List
<1>2. CASE NumberUnder(h, l.root) < l.number
  BY <1>2 DEF Folded
<1>3. CASE ~(NumberUnder(h, l.root) < l.number)
  <2>1. h # None /\ h.root = l.root /\ h \in Lists
    BY <1>1, <1>3 DEF NumberUnder
  <2>2. [h EXCEPT !.drops = h.drops \cup l.drops] \in Lists /\ [h EXCEPT !.drops = h.drops \cup l.drops].root = h.root
    BY <1>1, <2>1 DEF Lists, List
  <2> QED BY <1>3, <2>1, <2>2 DEF Folded
<1> QED BY <1>2, <1>3

\* What a restore does with the list.
LEMMA RestoreListPath ==
    ASSUME NEW v, NEW r \in Root, NEW by, NEW f, Sound(v, by, f), NEW was, StandingOf(f) = was,
           was \in {Unpinned, Minting(r), Device(r)}, NEW l \in Lists, l.root = r
    PROVE  \E g \in Homes : /\ Path(v, r, by, f, RestoreList(f, was, l), g) /\ Alike(f, g)
                            /\ g.list = ListAfter(f, was, l) /\ g.list \in Lists /\ g.list.root = r
<1>1. f \in Homes /\ f.list \in Lists \cup {None}
  BY HomeFields DEF Sound
<1>2. LiveRoot(f) \in {None, r} /\ LivePin(f) \in {None, r}
  BY ReadsUnpinned, ReadsMinting, ReadsDevice
<1>3. \A m \in Lists : m.root = r =>
        /\ Path(v, r, by, f, <<File("list", m)>>, Put(f, File("list", m)))
        /\ Put(f, File("list", m)) \in Homes /\ Alike(f, Put(f, File("list", m))) /\ Put(f, File("list", m)).list = m
  <2> TAKE m \in Lists
  <2> HAVE m.root = r
  <2> DEFINE w == File("list", m)
             g == Put(f, w)
  <2>1. w = [name |-> "list", to |-> m, cut |-> FALSE]
    BY DEF File
  <2>2. Moves(v, r, by, f, w)
    BY <1>2, <2>1, ListComes
  <2>3. w \in Writes /\ w.name = "list" /\ w.to = m
    BY <2>1, <2>2 DEF Moves
  <2> HIDE DEF w
  <2>4. g \in Homes /\ Alike(f, g) /\ g.list = m
    BY <1>1, <2>3, PutList DEF Alike
  <2> QED BY <2>2, <2>4 DEF Moves, w
<1>4. \E g \in Homes : /\ Path(v, r, by, f, <<>>, g) /\ Alike(f, g) /\ g.list = f.list
  BY <1>1, PathNone DEF Alike
<1>5. CASE was = Device(r)
  <2> DEFINE m == Folded(f.list, l)
             s == When(m # f.list, <<File("list", m)>>)
             e == When(NumberUnder(f.list, r) < l.number, <<File("invited", None)>>)
  <2>1. m \in Lists /\ m.root = r
    BY <1>1, FoldedIs
  <2>2. RestoreList(f, was, l) = s \o e /\ ListAfter(f, was, l) = m
    BY <1>5 DEF RestoreList, FoldWrites, ListAfter
  <2> HIDE DEF m
  <2>3. \E g \in Homes : Path(v, r, by, f, s, g) /\ Alike(f, g) /\ g.list = m
    <3>1. CASE m # f.list
      BY <3>1, <1>3, <2>1 DEF When
    <3>2. CASE m = f.list
      BY <3>2, <1>4 DEF When
    <3> QED BY <3>1, <3>2
  <2>4. PICK g \in Homes : Path(v, r, by, f, s, g) /\ Alike(f, g) /\ g.list = m
    BY <2>3
  <2>5. \E h \in Homes : Path(v, r, by, g, e, h) /\ Alike(g, h) /\ h.list = g.list
    <3>1. Sound(v, by, g)
      BY <2>4, PathSound
    <3>2. CASE NumberUnder(f.list, r) < l.number
      <4> DEFINE h == Put(g, File("invited", None))
      <4>1. Path(v, r, by, g, <<File("invited", None)>>, h)
        BY <3>1, InvitedMoves DEF Moves
      <4>2. h \in Homes /\ Alike(g, h) /\ h.list = g.list
        BY PutInvited DEF Alike
      <4>3. e = <<File("invited", None)>>
        BY <3>2 DEF When
      <4> HIDE DEF h, e
      <4> QED BY <4>1, <4>2, <4>3
    <3>3. CASE ~(NumberUnder(f.list, r) < l.number)
      <4>1. e = <<>>
        BY <3>3 DEF When
      <4> QED BY <4>1, <3>1, PathNone DEF Alike
    <3> QED BY <3>2, <3>3
  <2>6. PICK h \in Homes : Path(v, r, by, g, e, h) /\ Alike(g, h) /\ h.list = g.list
    BY <2>5
  <2> HIDE DEF s, e
  <2>7. Path(v, r, by, f, s \o e, h) /\ Alike(f, h)
    BY <2>4, <2>6, PathJoin DEF Alike
  <2> QED BY <2>1, <2>2, <2>4, <2>6, <2>7
<1>6. CASE was # Device(r)
  <2>1. CASE NumberUnder(f.list, r) < l.number
    <3>1. RestoreList(f, was, l) = <<File("list", l)>> /\ ListAfter(f, was, l) = l
      BY <1>6, <2>1 DEF RestoreList, ListAfter, When
    <3> QED BY <3>1, <1>3
  <2>2. CASE ~(NumberUnder(f.list, r) < l.number)
    <3>1. RestoreList(f, was, l) = <<>> /\ ListAfter(f, was, l) = f.list
      BY <1>6, <2>2 DEF RestoreList, ListAfter, When
    <3>2. f.list \in Lists /\ f.list.root = r
      BY <1>1, <2>2 DEF NumberUnder, Lists, List
    <3> QED BY <3>1, <3>2, <1>4
  <2> QED BY <2>1, <2>2
<1> QED BY <1>5, <1>6

\* Then what a restore does with the root and this machine's standing.
LEMMA RestoreRestPath ==
    ASSUME NEW v, v = "restore", NEW r \in Root, NEW by, NEW f, Sound(v, by, f), NEW was, StandingOf(f) = was,
           was \in {Unpinned, Minting(r), Device(r)}, f.list # None, f.list.root = r, f.list \in Lists,
           NEW k, SameFirst(k, f), NEW kept \in BOOLEAN, f.key \notin f.list.drops
    PROVE  \E g \in Homes : /\ Path(v, r, by, f, RestoreRest(was, f.list, r, k, kept), g)
                            /\ g.key = FirstKey => Named(g, by)
                            /\ r \notin f.revoked /\ k = f.key => StandingOf(g) = Holds(r)
                            /\ g.key = f.key /\ g.revoked = f.revoked
<1> DEFINE l  == f.list
           s  == When(was # Minting(r), <<File("root", r)>>)
           f2 == IF was # Minting(r) THEN Put(f, File("root", r)) ELSE f
           e  == IF k \in l.rows THEN When(~(kept /\ was = Device(r)), TakeStanding(r, k))
                 ELSE When(k \notin l.drops, TakeOwn(r, k, l))
<1>1. f \in Homes /\ r # None
  BY NoneApart DEF Sound
<1>2. RestoreRest(was, f.list, r, k, kept) = s \o e
  BY DEF RestoreRest
<1>3. /\ Path(v, r, by, f, s, f2) /\ Sound(v, by, f2) /\ f2 \in Homes
      /\ f2.root = r /\ f2.key = f.key /\ f2.pin = f.pin /\ f2.badge = f.badge /\ f2.list = f.list
      /\ f2.revoked = f.revoked
  <2>1. CASE was = Minting(r)
    <3>1. s = <<>> /\ f2 = f
      BY <2>1 DEF When
    <3>2. f.root = r
      BY <1>1, <2>1, ReadsMinting DEF LiveRoot, Live
    <3> HIDE DEF s, f2
    <3> QED BY <3>1, <3>2, <1>1, PathNone
  <2>2. CASE was # Minting(r)
    <3>1. s = <<File("root", r)>> /\ f2 = Put(f, File("root", r))
      BY <2>2 DEF When
    <3>2. Moves(v, r, by, f, File("root", r))
      <4>1. CASE was = Unpinned
        BY <4>1, ReadsUnpinned, RootComes
      <4>2. CASE was = Device(r)
        BY <4>2, ReadsDevice, RootComes
      <4> QED BY <2>2, <4>1, <4>2
    <3> HIDE DEF s, f2
    <3> QED BY <3>1, <3>2, <1>1, PutRoot DEF Moves
  <2> QED BY <2>1, <2>2
<1>4. MayTake(r, k, f2) /\ LivePin(f2) = LivePin(f) /\ LivePin(f2) \in {None, r}
  BY <1>3, ReadsUnpinned, ReadsMinting, ReadsDevice DEF MayTake, SameFirst, LivePin, Live
<1> HIDE DEF s, f2
<1>5. \E g \in Homes : /\ Path(v, r, by, f2, e, g)
                       /\ g.key = FirstKey => Named(g, by)
                       /\ r \notin f.revoked /\ k = f.key => StandingOf(g) = Holds(r)
                       /\ g.key = f.key /\ g.revoked = f.revoked
  <2>1. \A g \in Homes : Path(v, r, by, f2, e, g) /\ Taken(r, k, f2, g) =>
          /\ g.key = FirstKey => Named(g, by)
          /\ r \notin f.revoked /\ k = f.key => StandingOf(g) = Holds(r)
          /\ g.key = f.key /\ g.revoked = f.revoked
    <3> TAKE g \in Homes
    <3> HAVE Path(v, r, by, f2, e, g) /\ Taken(r, k, f2, g)
    <3>1. g.key = f2.key /\ g.revoked = f2.revoked
      BY DEF Taken
    <3> HIDE DEF e
    <3> QED BY <1>3, <1>4, <3>1, TakenReads
  <2>2. CASE k \in l.rows /\ ~(kept /\ was = Device(r))
    <3>1. e = TakeStanding(r, k)
      BY <2>2 DEF When
    <3>2. \E g \in Homes : Path(v, r, by, f2, TakeStanding(r, k), g) /\ Taken(r, k, f2, g)
      <4>1. Makes(v)
        BY DEF Makes
      <4> QED BY <4>1, <1>3, <1>4, TakeFrom
    <3> HIDE DEF e
    <3> QED BY <2>1, <3>1, <3>2
  <2>3. CASE k \in l.rows /\ kept /\ was = Device(r)
    <3>1. e = <<>>
      BY <2>3 DEF When
    <3>2. Path(v, r, by, f2, <<>>, f2)
      BY <1>3, PathNone
    <3>3. LivePin(f2) = r /\ f2.badge # None /\ f2.badge.root = r /\ f2.badge.key = f2.key
      BY <1>3, <1>4, <2>3, ReadsDevice
    <3>4. LiveRoot(f2) = r
      BY <1>3, <1>1, <3>3 DEF LivePin, LiveRoot, Live
    <3>5. StandingOf(f2) = Holds(r)
      BY <1>1, <3>3, <3>4, ReadsHolds
    <3>6. Named(f2, by)
      BY <3>5 DEF Named, IsWhole, Holds
    <3> QED BY <1>3, <3>1, <3>2, <3>5, <3>6
  <2>4. CASE k \notin l.rows /\ k \notin l.drops
    <3>1. e = TakeOwn(r, k, l)
      BY <2>4 DEF When
    <3>2. \E g \in Homes : Path(v, r, by, f2, TakeOwn(r, k, l), g) /\ Taken(r, k, f2, g)
      <4>1. Makes(v)
        BY DEF Makes
      <4> QED BY <4>1, <1>3, <1>4, TakeFrom
    <3> HIDE DEF e
    <3> QED BY <2>1, <3>1, <3>2
  <2>5. CASE k \notin l.rows /\ k \in l.drops
    <3>1. e = <<>>
      BY <2>5 DEF When
    <3>2. Path(v, r, by, f2, <<>>, f2)
      BY <1>3, PathNone
    <3>3. f2.key # FirstKey /\ k # f.key
      BY <1>3, <2>5 DEF SameFirst
    <3> QED BY <1>3, <3>1, <3>2, <3>3
  <2> QED BY <2>2, <2>3, <2>4, <2>5
<1>6. PICK g \in Homes : /\ Path(v, r, by, f2, e, g)
                         /\ g.key = FirstKey => Named(g, by)
                         /\ r \notin f.revoked /\ k = f.key => StandingOf(g) = Holds(r)
                         /\ g.key = f.key /\ g.revoked = f.revoked
  BY <1>5
<1> HIDE DEF e
<1>7. Path(v, r, by, f, s \o e, g)
  BY <1>3, <1>6, PathJoin
<1> QED BY <1>2, <1>6, <1>7

LEMMA RestoreLeads ==
    ASSUME NEW a, a.verb = "restore", a.root \in Root, NEW by, NEW f, Rests(by, f), SameFirst(a.own, f),
           StandingOf(f) = a.was, a.was \in {Unpinned, Minting(a.root), Device(a.root)},
           a.list \in Lists, a.list.root = a.root, NEW kept \in BOOLEAN, NEW after, after = ListAfter(f, a.was, a.list)
    PROVE  Leads(a, by, f, RestoreList(f, a.was, a.list)
                           \o When(f.key \notin after.drops, RestoreRest(a.was, after, a.root, a.own, kept)))
<1> DEFINE v == a.verb
           r == a.root
           k == a.own
           s == RestoreList(f, a.was, a.list)
           e == When(f.key \notin after.drops, RestoreRest(a.was, after, r, k, kept))
<1>1. Sound(v, by, f) /\ f \in Homes
  BY RestsSound
<1>2. \E g \in Homes : /\ Path(v, r, by, f, s, g) /\ Alike(f, g)
                       /\ g.list = ListAfter(f, a.was, a.list) /\ g.list \in Lists /\ g.list.root = r
  BY <1>1, RestoreListPath
<1>3. PICK g \in Homes : /\ Path(v, r, by, f, s, g) /\ Alike(f, g)
                         /\ g.list = after /\ g.list \in Lists /\ g.list.root = r
  BY <1>2
<1>4. /\ g.key = f.key /\ g.revoked = f.revoked /\ StandingOf(g) = a.was /\ SameFirst(k, g)
      /\ Sound(v, by, g) /\ g.list # None
      /\ (g.key = FirstKey => Named(g, by))
  BY <1>3, AlikeReads, PathSound, NoneApart DEF Alike, SameFirst, Rests
<1> HIDE DEF s
<1>5. CASE f.key \in after.drops
  <2>1. e = <<>>
    BY <1>5 DEF When
  <2>2. Path(v, r, by, g, <<>>, g)
    BY <1>4, PathNone
  <2>3. OwnRevoked(g, r)
    BY <1>3, <1>4, <1>5 DEF OwnRevoked
  <2>4. Ends(a, by, g)
    BY <1>4, <2>3 DEF Ends, Promise
  <2> HIDE DEF e
  <2>5. Path(v, r, by, f, s \o e, g)
    BY <1>3, <2>1, <2>2, PathJoin
  <2> QED BY <2>4, <2>5 DEF Leads, s, e
<1>6. CASE f.key \notin after.drops
  <2>1. e = RestoreRest(a.was, g.list, r, k, kept)
    BY <1>3, <1>6 DEF When
  <2>2. \E h \in Homes : /\ Path(v, r, by, g, RestoreRest(a.was, g.list, r, k, kept), h)
                         /\ h.key = FirstKey => Named(h, by)
                         /\ r \notin g.revoked /\ k = g.key => StandingOf(h) = Holds(r)
                         /\ h.key = g.key /\ h.revoked = g.revoked
    BY <1>3, <1>4, <1>6, RestoreRestPath
  <2>3. PICK h \in Homes : /\ Path(v, r, by, g, RestoreRest(a.was, g.list, r, k, kept), h)
                           /\ h.key = FirstKey => Named(h, by)
                           /\ r \notin g.revoked /\ k = g.key => StandingOf(h) = Holds(r)
                           /\ h.key = g.key /\ h.revoked = g.revoked
    BY <2>2
  <2>4. Ends(a, by, h)
    <3>1. ~Missed(a, h) => r \notin g.revoked /\ k = g.key
      BY <2>3 DEF Missed
    <3> QED BY <2>3, <3>1 DEF Ends, Promise
  <2> HIDE DEF e
  <2>5. Path(v, r, by, f, s \o e, h)
    BY <1>3, <2>1, <2>3, PathJoin
  <2> QED BY <2>4, <2>5 DEF Leads, s, e
<1> QED BY <1>5, <1>6

LEMMA UndoLeads ==
    ASSUME NEW a, a.verb = "undo", NEW by, NEW f, Rests(by, f)
    PROVE  Leads(a, by, f, <<File("root", None), File("badge", None), File("pin", None)>>)
<1> DEFINE v  == a.verb
           r  == a.root
           f1 == Put(f, File("root", None))
           f2 == Put(f1, File("badge", None))
           f3 == Put(f2, File("pin", None))
<1>1. Sound(v, by, f) /\ f \in Homes
  BY RestsSound
<1>2. Path(v, r, by, f, <<File("root", None)>>, f1) /\ Sound(v, by, f1)
  BY <1>1, RootUndone DEF Moves
<1>3. f1 \in Homes /\ f1.root = None
  BY <1>1, PutRoot
<1> HIDE DEF f1
<1>4. LiveRoot(f1) = None
  BY <1>3 DEF LiveRoot, Live
<1>5. Path(v, r, by, f1, <<File("badge", None)>>, f2) /\ Sound(v, by, f2)
  BY <1>2, <1>4, BadgeGoes DEF Moves
<1>6. f2 \in Homes /\ f2.root = None /\ f2.badge = None
  BY <1>3, PutBadge
<1> HIDE DEF f2
<1>7. LiveRoot(f2) = None
  BY <1>6 DEF LiveRoot, Live
<1>8. Path(v, r, by, f2, <<File("pin", None)>>, f3)
  BY <1>5, <1>6, <1>7, PinGoes DEF Moves
<1>9. f3 \in Homes /\ f3.root = None /\ f3.badge = None /\ f3.pin = None
  BY <1>6, PutPin
<1> HIDE DEF f3
<1>10. StandingOf(f3) = Unpinned
  BY <1>9, ReadsUnpinned DEF LiveRoot, LivePin, Live
<1>11. Ends(a, by, f3)
  BY <1>10 DEF Ends, Promise, Named, IsWhole, Unpinned
<1>12. Path(v, r, by, f1, <<File("badge", None), File("pin", None)>>, f3)
  BY <1>5, <1>8, PathJoin, Pair
<1>13. Path(v, r, by, f, <<File("root", None), File("badge", None), File("pin", None)>>, f3)
  <2> DEFINE x == <<File("badge", None), File("pin", None)>>
             y == <<File("root", None)>>
  <2>1. <<File("root", None), File("badge", None), File("pin", None)>> = y \o x
    BY Triple
  <2>2. Path(v, r, by, f1, x, f3) /\ Path(v, r, by, f, y, f1)
    BY <1>2, <1>12
  <2> HIDE DEF x, y
  <2>3. Path(v, r, by, f, y \o x, f3)
    BY <2>2, PathJoin
  <2> QED BY <2>1, <2>3
<1> QED BY <1>11, <1>13 DEF Leads

LEMMA RecutLeads ==
    ASSUME NEW a, a.verb = "recut", a.root \in Root, NEW by, NEW f, Rests(by, f), a.own \in Key,
           StandingOf(f) \in {Holds(a.root), Device(a.root)}, f.list # None, f.list.root = a.root
    PROVE  Leads(a, by, f, <<Head(TakeOwn(a.root, a.own, f.list))>>)
<1> DEFINE v == a.verb
           r == a.root
           k == a.own
           n == [root |-> r, number |-> NumberUnder(f.list, r) + 1, rows |-> f.list.rows \cup {k},
                 drops |-> f.list.drops]
           w == CutFile(n)
           g == Put(f, w)
<1>1. Sound(v, by, f) /\ f \in Homes
  BY RestsSound
<1>2. Head(TakeOwn(r, k, f.list)) = w
  BY DEF TakeOwn, TakeStanding
<1>3. n \in Lists /\ n.root = r /\ n.rows = f.list.rows \cup {k}
  BY <1>1, HomeFields DEF Lists, List, NumberUnder
<1>4. LiveRoot(f) \in {None, r} /\ LivePin(f) \in {None, r}
  BY ReadsHolds, ReadsDevice
<1> HIDE DEF n
<1>5. w \in Writes /\ w.name = "list" /\ w.to = n /\ w = [name |-> "list", to |-> n, cut |-> TRUE]
  BY <1>3 DEF CutFile, Writes
<1> HIDE DEF w
<1>6. Path(v, r, by, f, <<w>>, g)
  BY <1>1, <1>3, <1>4, <1>5, ListComes DEF Moves
<1>7. g \in Homes /\ Alike(f, g) /\ g.list = n
  BY <1>1, <1>3, <1>5, PutList DEF Alike
<1> HIDE DEF g
<1>8. g.key = FirstKey => Named(g, by)
  BY <1>7, AlikeReads DEF Rests, Alike
<1>9. ~Missed(a, g) => Promise(a, g)
  BY <1>3, <1>7 DEF Missed, Promise
<1> QED BY <1>2, <1>6, <1>8, <1>9 DEF Leads, Ends

\* A copy's list.
LEMMA CopyListMoves ==
    ASSUME NEW v, NEW r, NEW by, NEW f, Sound(v, by, f), NEW l \in Lists
    PROVE  Path(v, r, by, f, <<File("copyList", l)>>, f)
<1> DEFINE w == File("copyList", l)
<1>1. w \in Writes /\ Put(f, w) = f
  BY DEF Writes, File, Put
<1> HIDE DEF w
<1>2. Fair(v, r, f, f)
  BY DEF Fair, ListStays, Loses
<1>3. Path(v, r, by, f, <<w>>, Put(f, w))
  BY <1>1, <1>2, PathOne
<1> QED BY <1>1, <1>3 DEF w

LEMMA BackupLeads ==
    ASSUME NEW a, a.verb = "backup", NEW by, NEW f, Rests(by, f), f.root # None, NEW l, NEW h
    PROVE  Leads(a, by, f, BackupWrites(f, l, h))
<1> DEFINE v == a.verb
           r == a.root
           b == f.list # None /\ (l = None \/ l.number < f.list.number)
           s == When(b, <<File("copyList", f.list)>>)
           e == When(h # f.root, <<File("copyKey", f.root)>>)
           g == IF h # f.root THEN Put(f, File("copyKey", f.root)) ELSE f
<1>1. Sound(v, by, f) /\ f \in Homes
  BY RestsSound
<1>2. BackupWrites(f, l, h) = s \o e
  BY DEF BackupWrites
<1>3. Path(v, r, by, f, s, f)
  <2>1. CASE b
    <3>1. s = <<File("copyList", f.list)>>
      BY <2>1 DEF When
    <3>2. f.list \in Lists
      BY <1>1, <2>1, HomeFields
    <3> HIDE DEF s
    <3> QED BY <1>1, <3>1, <3>2, CopyListMoves
  <2>2. CASE ~b
    <3>1. s = <<>>
      BY <2>2 DEF When
    <3> HIDE DEF s
    <3> QED BY <1>1, <3>1, PathNone
  <2> QED BY <2>1, <2>2
<1>4. Path(v, r, by, f, e, g) /\ Alike(f, g)
  <2>1. CASE h # f.root
    <3>1. e = <<File("copyKey", f.root)>> /\ g = Put(f, File("copyKey", f.root))
      BY <2>1 DEF When
    <3>2. f.root \in Root
      BY <1>1, HomeFields
    <3>3. Moves(v, r, by, f, File("copyKey", f.root))
      BY <1>1, CopyKeyComes
    <3> HIDE DEF e, g
    <3> QED BY <1>1, <3>1, <3>2, <3>3, PutCopyKey DEF Moves, Alike
  <2>2. CASE h = f.root
    <3>1. e = <<>> /\ g = f
      BY <2>2 DEF When
    <3> HIDE DEF e, g
    <3> QED BY <1>1, <3>1, PathNone DEF Alike
  <2> QED BY <2>1, <2>2
<1> HIDE DEF s, e, g
<1>5. Path(v, r, by, f, s \o e, g)
  BY <1>3, <1>4, PathJoin
<1>6. Ends(a, by, g)
  BY <1>4, AlikeReads DEF Ends, Alike, Rests
<1> QED BY <1>2, <1>5, <1>6 DEF Leads

LEMMA ForgetLeads ==
    ASSUME NEW a, a.verb = "forget", NEW by, NEW f, Rests(by, f), StandingOf(f) = Holds(a.root), f.copyKey = a.root,
           NEW l, NEW synced
    PROVE  Leads(a, by, f, ForgetWrites(f, l, synced))
<1> DEFINE v == a.verb
           r == a.root
           b == f.list # None /\ l.number < f.list.number
           c == ~(b /\ synced)
           s == When(b, <<File("copyList", f.list)>>)
           e == When(c, <<File("root", None)>>)
           g == IF c THEN Put(f, File("root", None)) ELSE f
<1>1. Sound(v, by, f) /\ f \in Homes
  BY RestsSound
<1>2. ForgetWrites(f, l, synced) = s \o e
  BY DEF ForgetWrites
<1>3. Path(v, r, by, f, s, f)
  <2>1. CASE b
    <3>1. s = <<File("copyList", f.list)>>
      BY <2>1 DEF When
    <3>2. f.list \in Lists
      BY <1>1, <2>1, HomeFields
    <3> HIDE DEF s
    <3> QED BY <1>1, <3>1, <3>2, CopyListMoves
  <2>2. CASE ~b
    <3>1. s = <<>>
      BY <2>2 DEF When
    <3> HIDE DEF s
    <3> QED BY <1>1, <3>1, PathNone
  <2> QED BY <2>1, <2>2
<1>4. /\ LiveRoot(f) # None /\ LivePin(f) = LiveRoot(f) /\ LiveRoot(f) = r
      /\ f.badge # None /\ f.badge.root = LivePin(f) /\ f.badge.key = f.key
  BY ReadsHolds
<1>5. Path(v, r, by, f, e, g) /\ (g.key = FirstKey => Named(g, by))
  <2>1. CASE c
    <3>1. e = <<File("root", None)>> /\ g = Put(f, File("root", None))
      BY <2>1 DEF When
    <3>2. f.copyKey = f.root
      BY <1>4 DEF LiveRoot, Live
    <3>3. Moves(v, r, by, f, File("root", None))
      BY <1>1, <1>4, <3>2, RootForgotten
    <3> HIDE DEF e, g
    <3>4. g.root = None /\ g.pin = f.pin /\ g.badge = f.badge /\ g.key = f.key /\ g.revoked = f.revoked
      BY <1>1, <3>1, PutRoot
    <3>5. LiveRoot(g) = None /\ LivePin(g) = LivePin(f)
      BY <3>4 DEF LiveRoot, LivePin, Live
    <3>6. Named(g, by)
      BY <1>4, <3>4, <3>5, NamedIs
    <3> QED BY <3>1, <3>3, <3>6 DEF Moves
  <2>2. CASE ~c
    <3>1. e = <<>> /\ g = f
      BY <2>2 DEF When
    <3> HIDE DEF e, g
    <3> QED BY <1>1, <3>1, PathNone DEF Rests
  <2> QED BY <2>1, <2>2
<1> HIDE DEF s, e, g
<1>6. Path(v, r, by, f, s \o e, g)
  BY <1>3, <1>5, PathJoin
<1>7. Ends(a, by, g)
  BY <1>5 DEF Ends
<1> QED BY <1>2, <1>6, <1>7 DEF Leads

\* What a root revoked here leaves, where it is kept.
LEMMA StripPath ==
    ASSUME NEW v, v # "mint", NEW r \in Root, NEW by, NEW f, Sound(v, by, f), f.root = r, r \in f.revoked
    PROVE  \E g \in Homes : Path(v, r, by, f, Strip(f, r), g) /\ StandingOf(g) = Unpinned /\ g.revoked = f.revoked
<1> DEFINE wl == File("list", None)
           wb == File("badge", None)
           wi == File("invited", None)
           wp == File("pin", None)
           s  == When(f.pin \in {None, r}, <<wl, wb, wi, wp>>)
           e  == <<File("root", None)>>
<1>1. f \in Homes /\ r # None /\ Good(f)
  BY NoneApart DEF Sound
<1>2. LiveRoot(f) = None /\ LivePin(f) = None /\ (f.badge = None \/ f.badge.root \in f.revoked)
  BY <1>1 DEF LiveRoot, Live, Good, Spent
<1>3. Strip(f, r) = s \o e
  BY DEF Strip
<1>4. \E g \in Homes : /\ Path(v, r, by, f, s, g) /\ LiveRoot(g) = None /\ LivePin(g) = None
                       /\ (g.badge = None \/ g.badge.root \in g.revoked) /\ g.revoked = f.revoked
  <2>1. CASE f.pin \in {None, r}
    <3> DEFINE f1 == Put(f, wl)
               f2 == Put(f1, wb)
               f3 == Put(f2, wi)
               f4 == Put(f3, wp)
    <3>1. Path(v, r, by, f, <<wl>>, f1) /\ Sound(v, by, f1)
      BY <1>2, ListGoes DEF Moves
    <3>2. f1 \in Homes /\ f1.root = r /\ f1.pin = f.pin /\ f1.revoked = f.revoked
      <4>1. wl \in Writes /\ wl.name = "list" /\ wl.to = None
        BY DEF File, Writes
      <4> QED BY <1>1, <4>1, PutList
    <3> HIDE DEF f1
    <3>3. LivePin(f1) = None
      BY <1>2, <3>2 DEF LivePin, Live
    <3>4. Path(v, r, by, f1, <<wb>>, f2) /\ Sound(v, by, f2)
      BY <3>1, <3>3, BadgeGoes DEF Moves
    <3>5. f2 \in Homes /\ f2.root = r /\ f2.pin = f.pin /\ f2.badge = None /\ f2.revoked = f.revoked
      BY <3>2, PutBadge
    <3> HIDE DEF f2
    <3>6. Path(v, r, by, f2, <<wi>>, f3) /\ Sound(v, by, f3)
      BY <3>4, InvitedMoves DEF Moves
    <3>7. f3 \in Homes /\ f3.root = r /\ f3.pin = f.pin /\ f3.badge = None /\ f3.revoked = f.revoked
      BY <3>5, PutInvited
    <3> HIDE DEF f3
    <3>8. LivePin(f3) = None
      BY <1>2, <3>7 DEF LivePin, Live
    <3>9. Path(v, r, by, f3, <<wp>>, f4)
      BY <3>6, <3>8, PinGoes DEF Moves
    <3>10. f4 \in Homes /\ f4.root = r /\ f4.pin = None /\ f4.badge = None /\ f4.revoked = f.revoked
      BY <3>7, PutPin
    <3> HIDE DEF f4
    <3>11. LiveRoot(f4) = None /\ LivePin(f4) = None
      BY <3>10 DEF LiveRoot, LivePin, Live
    <3>12. Path(v, r, by, f, <<wl, wb, wi, wp>>, f4)
      <4>1. Path(v, r, by, f2, <<wi, wp>>, f4)
        BY <3>6, <3>9, PathJoin, Pair
      <4> DEFINE x == <<wi, wp>>
                 y == <<wb, wi, wp>>
      <4>2. y = <<wb>> \o x
        BY Triple
      <4> HIDE DEF x, y
      <4>3. Path(v, r, by, f1, <<wb>> \o x, f4)
        BY <3>4, <4>1, PathJoin DEF x
      <4>4. Path(v, r, by, f1, y, f4)
        BY <4>2, <4>3
      <4>5. Path(v, r, by, f, <<wl>> \o y, f4)
        BY <3>1, <4>4, PathJoin
      <4>6. <<wl, wb, wi, wp>> = <<wl>> \o y
        BY Four DEF y
      <4> QED BY <4>5, <4>6
    <3>13. s = <<wl, wb, wi, wp>>
      BY <2>1 DEF When
    <3> HIDE DEF s
    <3> QED BY <3>10, <3>11, <3>12, <3>13
  <2>2. CASE f.pin \notin {None, r}
    <3>1. s = <<>>
      BY <2>2 DEF When
    <3>2. Path(v, r, by, f, <<>>, f)
      BY PathNone
    <3> HIDE DEF s
    <3> QED BY <1>1, <1>2, <3>1, <3>2
  <2> QED BY <2>1, <2>2
<1>5. PICK g \in Homes : /\ Path(v, r, by, f, s, g) /\ LiveRoot(g) = None /\ LivePin(g) = None
                         /\ (g.badge = None \/ g.badge.root \in g.revoked) /\ g.revoked = f.revoked
  BY <1>4
<1> DEFINE h == Put(g, File("root", None))
<1> HIDE DEF s, e
<1>6. Path(v, r, by, g, e, h)
  BY <1>5, PathSound, RootGoes DEF Moves, e
<1>7. h \in Homes /\ h.root = None /\ h.pin = g.pin /\ h.badge = g.badge /\ h.revoked = g.revoked
  BY PutRoot
<1> HIDE DEF h
<1>8. LiveRoot(h) = None /\ LivePin(h) = None
  BY <1>5, <1>7 DEF LiveRoot, LivePin, Live
<1>9. StandingOf(h) = Unpinned
  BY <1>5, <1>7, <1>8, ReadsUnpinned
<1>10. Path(v, r, by, f, s \o e, h)
  BY <1>5, <1>6, PathJoin
<1> QED BY <1>3, <1>5, <1>7, <1>9, <1>10

\* A root is revoked in a home that is not damaged.
LEMMA LatchPath ==
    ASSUME NEW v, v = "revoke", NEW r \in Root, NEW by, NEW f, Sound(v, by, f), ~IsDamaged(StandingOf(f))
    PROVE  \E g \in Homes : /\ Path(v, r, by, f, Latch(f, r), g) /\ Sound(v, by, g)
                            /\ g.key = f.key /\ g.root = f.root /\ g.pin = f.pin /\ g.badge = f.badge
                            /\ g.revoked = f.revoked \cup {r}
<1> DEFINE w == File("revoked", f.revoked \cup {r})
           g == Put(f, w)
<1>1. f \in Homes
  BY DEF Sound
<1>2. /\ LivePin(f) = None \/ (f.badge # None /\ f.badge.root = LivePin(f) /\ f.badge.key = f.key)
      /\ LiveRoot(f) # None \/ LivePin(f) # None \/ f.badge = None \/ f.badge.root \in f.revoked
  <2>1. StandingOf(f) \in {Unpinned, Device(LivePin(f)), Holds(LiveRoot(f)), Minting(LiveRoot(f))}
    BY Readings
  <2> QED BY <2>1, ReadsUnpinned, ReadsDevice, ReadsHolds, ReadsMinting
<1>3. Moves(v, r, by, f, w)
  BY <1>2, LatchMoves
<1>4. f.revoked \cup {r} \in SUBSET Root
  BY <1>1, HomeFields
<1>5. /\ g \in Homes /\ g.key = f.key /\ g.root = f.root /\ g.pin = f.pin /\ g.badge = f.badge
      /\ g.revoked = f.revoked \cup {r}
  BY <1>1, <1>4, PutRevoked
<1>6. Latch(f, r) = <<w>>
  BY DEF Latch
<1> HIDE DEF w, g
<1> QED BY <1>3, <1>5, <1>6 DEF Moves, g

LEMMA UnpinnedEnds ==
    ASSUME NEW a, a.verb = "revoke", a.root \in Root, NEW by, NEW g, StandingOf(g) = Unpinned, a.root \in g.revoked
    PROVE  Ends(a, by, g)
BY NoneApart DEF Ends, Promise, Named, IsWhole, IsDamaged, Damage, Unpinned

LEMMA NoDamage ==
    ASSUME NEW r
    PROVE  ~IsDamaged(Unpinned) /\ ~IsDamaged(Device(r)) /\ ~IsDamaged(Holds(r)) /\ ~IsDamaged(Minting(r))
BY DEF IsDamaged, Damage, Unpinned, Device, Holds, Minting

LEMMA RevokeLatchedLeads ==
    ASSUME NEW a, a.verb = "revoke", a.root \in Root, NEW by, NEW f, Rests(by, f), RevokedRoot(f) = a.root
    PROVE  Leads(a, by, f, Strip(f, a.root))
<1>1. Sound(a.verb, by, f) /\ f.root = a.root /\ a.root \in f.revoked
  BY RestsSound, NoneApart DEF RevokedRoot
<1>2. PICK g \in Homes : /\ Path(a.verb, a.root, by, f, Strip(f, a.root), g)
                         /\ StandingOf(g) = Unpinned /\ g.revoked = f.revoked
  BY <1>1, StripPath
<1> QED BY <1>1, <1>2, UnpinnedEnds DEF Leads

LEMMA RevokeHolderLeads ==
    ASSUME NEW a, a.verb = "revoke", a.root \in Root, NEW by, NEW f, Rests(by, f),
           StandingOf(f) \in {Holds(a.root), Minting(a.root)}
    PROVE  Leads(a, by, f, Latch(f, a.root) \o Strip(f, a.root))
<1> DEFINE v == a.verb
           r == a.root
<1>1. Sound(v, by, f)
  BY RestsSound
<1>2. ~IsDamaged(StandingOf(f))
  BY NoDamage
<1>3. \E g \in Homes : /\ Path(v, r, by, f, Latch(f, r), g) /\ Sound(v, by, g)
                       /\ g.key = f.key /\ g.root = f.root /\ g.pin = f.pin /\ g.badge = f.badge
                       /\ g.revoked = f.revoked \cup {r}
  BY <1>1, <1>2, LatchPath
<1>4. PICK g \in Homes : /\ Path(v, r, by, f, Latch(f, r), g) /\ Sound(v, by, g)
                         /\ g.root = f.root /\ g.pin = f.pin /\ g.revoked = f.revoked \cup {r}
  BY <1>3
<1>5. g.root = r /\ r \in g.revoked
  <2>1. LiveRoot(f) = r
    BY ReadsHolds, ReadsMinting
  <2>2. f.root = r
    BY <2>1, NoneApart DEF LiveRoot, Live
  <2> QED BY <1>4, <2>2
<1>6. \E h \in Homes : Path(v, r, by, g, Strip(g, r), h) /\ StandingOf(h) = Unpinned /\ h.revoked = g.revoked
  BY <1>4, <1>5, StripPath
<1>7. PICK h \in Homes : Path(v, r, by, g, Strip(g, r), h) /\ StandingOf(h) = Unpinned /\ h.revoked = g.revoked
  BY <1>6
<1>8. Strip(g, r) = Strip(f, r)
  BY <1>4 DEF Strip
<1>9. Path(v, r, by, f, Latch(f, r) \o Strip(f, r), h)
  BY <1>4, <1>7, <1>8, PathJoin
<1>10. Ends(a, by, h)
  BY <1>5, <1>7, UnpinnedEnds
<1> QED BY <1>9, <1>10 DEF Leads

\* A device of the root revoked, or of one that was revoked before it.
LEMMA RevokeDeviceLeads ==
    ASSUME NEW a, a.verb = "revoke", a.root \in Root, NEW by, NEW f, Rests(by, f),
           ~IsDamaged(StandingOf(f)), f.pin = a.root, StandingOf(f) \notin {Holds(a.root), Minting(a.root)}
    PROVE  Leads(a, by, f, Latch(f, a.root) \o LeaveWrites(f))
<1> DEFINE v == a.verb
           r == a.root
<1>1. Sound(v, by, f) /\ Good(f) /\ r # None
  BY RestsSound, NoneApart DEF Rests
<1>2. \E g \in Homes : /\ Path(v, r, by, f, Latch(f, r), g) /\ Sound(v, by, g)
                       /\ g.key = f.key /\ g.root = f.root /\ g.pin = f.pin /\ g.badge = f.badge
                       /\ g.revoked = f.revoked \cup {r}
  BY <1>1, LatchPath
<1>3. PICK g \in Homes : /\ Path(v, r, by, f, Latch(f, r), g) /\ Sound(v, by, g)
                         /\ g.key = f.key /\ g.root = f.root /\ g.pin = f.pin
                         /\ g.revoked = f.revoked \cup {r}
  BY <1>2
<1>4. LivePin(g) = None
  BY <1>3 DEF LivePin, Live
<1>5. \E h \in Homes :
        /\ Path(v, r, by, g, LeaveWrites(g), h)
        /\ h.key = g.key /\ h.root = g.root /\ h.pin = None /\ h.badge = None /\ h.revoked = g.revoked
  <2>1. MayGo(v, g)
    BY <1>4 DEF MayGo
  <2> QED BY <1>3, <2>1, LeaveFrom
<1>6. PICK h \in Homes :
        /\ Path(v, r, by, g, LeaveWrites(g), h)
        /\ h.key = g.key /\ h.root = g.root /\ h.pin = None /\ h.badge = None /\ h.revoked = g.revoked
  BY <1>5
<1>7. LeaveWrites(g) = LeaveWrites(f)
  BY <1>3 DEF LeaveWrites
<1>8. Path(v, r, by, f, Latch(f, r) \o LeaveWrites(f), h)
  BY <1>3, <1>6, <1>7, PathJoin
<1>9. LivePin(h) = None /\ r \in h.revoked
  BY <1>3, <1>6 DEF LivePin, Live
<1>10. Ends(a, by, h)
  <2>1. CASE LiveRoot(h) = None
    <3>1. StandingOf(h) = Unpinned
      BY <1>6, <1>9, <2>1, ReadsUnpinned
    <3> QED BY <3>1, <1>9, UnpinnedEnds
  <2>2. CASE LiveRoot(h) # None
    <3>1. LiveRoot(f) = LiveRoot(h) /\ LiveRoot(h) # r /\ LiveRoot(h) = h.root
      BY <1>3, <1>6, <2>2 DEF LiveRoot, Live
    <3>2. LivePin(f) = None
      <4>1. LivePin(f) \in {None, r}
        BY DEF LivePin, Live
      <4> QED BY <4>1, <1>1, <2>2, <3>1 DEF Good, OneRoot
    <3>3. StandingOf(h) = Minting(h.root)
      BY <1>9, <2>2, <3>1, ReadsMinting
    <3>4. StandingOf(f) = Minting(LiveRoot(f))
      BY <2>2, <3>1, <3>2, ReadsMinting
    <3>5. h.key = FirstKey => Named(h, by)
      <4>1. h.key = FirstKey => Named(f, by)
        BY <1>3, <1>6 DEF Rests
      <4> QED BY <4>1, <3>3, <3>4 DEF Named, IsWhole, Minting
    <3>6. ~IsDamaged(StandingOf(h)) /\ StandingOf(h).root # r
      <4>1. Minting(h.root).root = h.root
        BY DEF Minting
      <4> QED BY <3>1, <3>3, <4>1, NoDamage
    <3> QED BY <1>9, <3>5, <3>6 DEF Ends, Promise
  <2> QED BY <2>1, <2>2
<1> QED BY <1>8, <1>10 DEF Leads

LEMMA RevokeUnknownLeads ==
    ASSUME NEW a, a.verb = "revoke", a.root \in Root, NEW by, NEW f, Rests(by, f),
           ~IsDamaged(StandingOf(f)), f.pin # a.root, f.root # a.root
    PROVE  Leads(a, by, f, Latch(f, a.root))
<1> DEFINE v == a.verb
           r == a.root
<1>1. Sound(v, by, f) /\ r # None /\ (f.key = FirstKey => Named(f, by))
  BY RestsSound, NoneApart DEF Rests
<1>2. \E g \in Homes : /\ Path(v, r, by, f, Latch(f, r), g) /\ Sound(v, by, g)
                       /\ g.key = f.key /\ g.root = f.root /\ g.pin = f.pin /\ g.badge = f.badge
                       /\ g.revoked = f.revoked \cup {r}
  BY <1>1, LatchPath
<1>3. PICK g \in Homes : /\ Path(v, r, by, f, Latch(f, r), g)
                         /\ g.key = f.key /\ g.root = f.root /\ g.pin = f.pin /\ g.badge = f.badge
                         /\ g.revoked = f.revoked \cup {r}
  BY <1>2
<1>4. LivePin(g) = LivePin(f) /\ LiveRoot(g) = LiveRoot(f) /\ LivePin(g) # r /\ LiveRoot(g) # r
  BY <1>1, <1>3 DEF LivePin, LiveRoot, Live
<1>5. StandingOf(g) = StandingOf(f)
  <2>1. StandingOf(f) \in {Unpinned, Device(LivePin(f)), Holds(LiveRoot(f)), Minting(LiveRoot(f))}
    BY Readings
  <2>2. CASE StandingOf(f) = Unpinned
    BY <1>3, <1>4, <2>2, ReadsUnpinned
  <2>3. CASE StandingOf(f) = Device(LivePin(f))
    BY <1>3, <1>4, <2>3, ReadsDevice
  <2>4. CASE StandingOf(f) = Holds(LiveRoot(f))
    BY <1>3, <1>4, <2>4, ReadsHolds
  <2>5. CASE StandingOf(f) = Minting(LiveRoot(f))
    BY <1>3, <1>4, <2>5, ReadsMinting
  <2> QED BY <2>1, <2>2, <2>3, <2>4, <2>5
<1>6. StandingOf(g).root # r
  <2>1. StandingOf(g) \in {Unpinned, Device(LivePin(g)), Holds(LiveRoot(g)), Minting(LiveRoot(g))}
    BY <1>5, Readings
  <2> QED BY <1>1, <1>4, <2>1 DEF Unpinned, Device, Holds, Minting
<1>7. Named(f, by) => Named(g, by)
  BY <1>5 DEF Named
<1>8. Ends(a, by, g)
  <2>1. g.key = FirstKey => Named(g, by)
    BY <1>1, <1>3, <1>7
  <2>2. r \in g.revoked /\ ~IsDamaged(StandingOf(g))
    BY <1>3, <1>5
  <2> QED BY <1>6, <2>1, <2>2 DEF Ends, Promise
<1> QED BY <1>3, <1>8 DEF Leads

\* What a revoke writes, by what this machine is to the root.
RevokeWrites(f, r, kind) ==
    CASE kind = "latched"                       -> Strip(f, r)
      [] kind = "holder"                        -> Latch(f, r) \o Strip(f, r)
      [] kind \in {"device", "latched device"}  -> Latch(f, r) \o LeaveWrites(f)
      [] kind = "unknown"                       -> Latch(f, r)

LEMMA RevokeLeads ==
    ASSUME NEW a, a.verb = "revoke", a.root \in Root, NEW by, NEW f, Rests(by, f), NEW kind, Kind(f, a.root) = kind,
           ~IsDamaged(StandingOf(f)) \/ kind = "latched"
    PROVE  Leads(a, by, f, RevokeWrites(f, a.root, kind))
<1> DEFINE r == a.root
<1>0. f \in Homes /\ r # None
  BY NoneApart DEF Rests
<1>1. CASE RevokedRoot(f) = r
  <2>1. kind = "latched"
    BY <1>1 DEF Kind
  <2>2. RevokeWrites(f, r, kind) = Strip(f, r)
    BY <2>1 DEF RevokeWrites
  <2> QED BY <1>1, <2>2, RevokeLatchedLeads
<1>2. CASE RevokedRoot(f) # r
  <2>0. ~IsDamaged(StandingOf(f))
    BY <1>2 DEF Kind
  <2>1. CASE StandingOf(f) \in {Holds(r), Minting(r)}
    <3>1. kind = "holder"
      BY <1>2, <2>1 DEF Kind
    <3>2. RevokeWrites(f, r, kind) = Latch(f, r) \o Strip(f, r)
      BY <3>1 DEF RevokeWrites
    <3> QED BY <2>1, <3>2, RevokeHolderLeads
  <2>2. CASE StandingOf(f) \notin {Holds(r), Minting(r)} /\ (StandingOf(f) = Device(r) \/ f.pin = r)
    <3>1. kind \in {"device", "latched device"}
      BY <1>2, <2>2 DEF Kind
    <3>2. RevokeWrites(f, r, kind) = Latch(f, r) \o LeaveWrites(f)
      <4>1. kind # "latched" /\ kind # "holder"
        BY <3>1
      <4> QED BY <3>1, <4>1 DEF RevokeWrites
    <3>3. f.pin = r
      BY <1>0, <2>2, ReadsDevice DEF LivePin, Live
    <3> QED BY <2>0, <2>2, <3>2, <3>3, RevokeDeviceLeads
  <2>3. CASE StandingOf(f) \notin {Holds(r), Minting(r)} /\ StandingOf(f) # Device(r) /\ f.pin # r
    <3>1. kind = "unknown"
      BY <1>2, <2>3 DEF Kind
    <3>2. RevokeWrites(f, r, kind) = Latch(f, r)
      BY <3>1 DEF RevokeWrites
    <3>3. f.root # r
      <4> SUFFICES ASSUME f.root = r PROVE FALSE
        OBVIOUS
      <4>1. LiveRoot(f) = r
        BY <1>2 DEF RevokedRoot, LiveRoot, Live
      <4>2. StandingOf(f) \in {Unpinned, Device(LivePin(f)), Holds(LiveRoot(f)), Minting(LiveRoot(f))}
        BY <2>0, Readings
      <4>3. StandingOf(f) # Unpinned /\ StandingOf(f) # Device(LivePin(f))
        BY <1>0, <4>1, ReadsUnpinned, ReadsDevice
      <4> QED BY <2>3, <4>1, <4>2, <4>3
    <3> QED BY <2>0, <2>3, <3>2, <3>3, RevokeUnknownLeads
  <2> QED BY <2>1, <2>2, <2>3
<1> QED BY <1>1, <1>2


-----------------------------------------------------------------------------
(* The inductive invariant: what the verbs have read, and that what is left to write of the one under way leads     *)
(* where it should, through homes that are right.                                                                  *)

InFlight == \A p \in Proc : lock = p => Leads(acts[p], stopped, Here(files), acts[p].todo)

IInv ==
    /\ Shape /\ Good(files) /\ NamedVerb
    /\ \A p \in Proc : Read(acts[p], files)
    /\ Unheard /\ Alongside /\ InFlight

LEMMA HereIs ==
    ASSUME NEW f \in Homes
    PROVE  /\ Here(f) \in Homes /\ Alike(f, Here(f))
           /\ Here(f).list = f.list /\ Here(f).invited = f.invited /\ Here(f).copyKey = f.copyKey
<1>1. f \in Files
  BY DEF Homes
<1>2. Here(f) \in Files
  BY <1>1 DEF Here, Files
<1>3. /\ Here(f).key = f.key /\ Here(f).root = f.root /\ Here(f).pin = f.pin /\ Here(f).badge = f.badge
      /\ Here(f).revoked = f.revoked /\ Here(f).list = f.list /\ Here(f).invited = f.invited
      /\ Here(f).copyKey = f.copyKey /\ Here(f).copyList = None
  BY <1>1 DEF Here, Files
<1> QED BY <1>2, <1>3 DEF Homes, Alike

LEMMA HereReads ==
    ASSUME NEW f \in Homes
    PROVE  /\ StandingOf(Here(f)) = StandingOf(f) /\ LiveRoot(Here(f)) = LiveRoot(f) /\ LivePin(Here(f)) = LivePin(f)
           /\ \A by : Named(Here(f), by) <=> Named(f, by)
           /\ Good(Here(f)) <=> Good(f)
           /\ \A r : Kind(Here(f), r) = Kind(f, r)
           /\ RevokedRoot(Here(f)) = RevokedRoot(f)
<1>1. Alike(f, Here(f)) /\ Here(f).list = f.list
  BY HereIs
<1>2. /\ StandingOf(Here(f)) = StandingOf(f) /\ LiveRoot(Here(f)) = LiveRoot(f) /\ LivePin(Here(f)) = LivePin(f)
      /\ \A by : Named(Here(f), by) <=> Named(f, by)
  BY <1>1, AlikeReads
<1>3. Good(Here(f)) <=> Good(f)
  BY <1>1, <1>2 DEF Good, OneRoot, DeviceList, HalfMade, Spent, Alike
<1>4. RevokedRoot(Here(f)) = RevokedRoot(f)
  BY <1>1 DEF RevokedRoot, Alike
<1>5. \A r : Kind(Here(f), r) = Kind(f, r)
  BY <1>1, <1>2, <1>4 DEF Kind, Alike
<1> QED BY <1>2, <1>3, <1>4, <1>5

LEMMA HerePut ==
    ASSUME NEW f \in Homes, NEW w \in Writes
    PROVE  /\ [f EXCEPT ![w.name] = w.to] \in Homes
           /\ Here([f EXCEPT ![w.name] = w.to]) = Put(Here(f), w)
<1>1. f \in Files /\ f.list \in Lists \cup {None} /\ f.copyList \in Lists \cup {None}
  BY DEF Homes
<1> DEFINE g == [f EXCEPT ![w.name] = w.to]
<1>2. g \in Homes
  BY FileWrites
<1>3. Here(g) = Put(Here(f), w)
  <2>1. CASE w.name = "copyList"
    BY <2>1, <1>1 DEF Here, Put, Files
  <2>2. CASE w.name # "copyList"
    BY <2>2, <1>1 DEF Here, Put, Files
  <2> QED BY <2>1, <2>2
<1> QED BY <1>2, <1>3

\* Two verbs that promise the same.
OneVerb(a, b) == a.verb = b.verb /\ a.root = b.root /\ a.own = b.own /\ a.held = b.held

LEMMA PromiseSame ==
    ASSUME NEW a, NEW b, OneVerb(a, b), NEW f
    PROVE  Promise(a, f) = Promise(b, f) /\ Missed(a, f) = Missed(b, f)
BY DEF Promise, Missed, OneVerb

LEMMA LeadsSame ==
    ASSUME NEW a, NEW b, OneVerb(a, b), NEW by, NEW f, NEW t
    PROVE  Leads(a, by, f, t) <=> Leads(b, by, f, t)
BY PromiseSame DEF Leads, Ends, OneVerb

-----------------------------------------------------------------------------
(* Every step keeps it.  First the steps of a verb that waits. *)

\* The verb p, as x, has no part in a root that another makes.
Apart(p, x) == \A q \in Proc \ {p} : Unborn(acts[q], files) /\ x.root = acts[q].root => x.verb = "revoke"

LEMMA TurnKeeps ==
    ASSUME IInv, NEW p \in Proc, NEW x \in Actions, acts' = [acts EXCEPT ![p] = x],
           UNCHANGED <<files, lock, signed, stops, stopped>>, begun' \in 0 .. MaxActs, resident' \in Residents,
           lock # p, x.at \notin {"locked", "writing"}, Read(x, files), Apart(p, x), Alongside',
           Unborn(x, files) => Alone(p, x)
    PROVE  IInv'
<1>1. acts'[p] = x /\ \A q \in Proc \ {p} : acts'[q] = acts[q]
  BY DEF IInv, Shape
<1>2. Shape'
  <2>1. acts' \in [Proc -> Actions]
    BY DEF IInv, Shape
  <2>2. \A q \in Proc : acts'[q].at \in {"locked", "writing"} <=> lock' = q
    BY <1>1 DEF IInv, Shape
  <2> QED BY <2>1, <2>2 DEF IInv, Shape
<1>3. Good(files)' /\ NamedVerb'
  BY DEF IInv, NamedVerb
<1>4. \A q \in Proc : Read(acts'[q], files')
  BY <1>1 DEF IInv
<1>5. Unheard'
  <2>1. ASSUME NEW q \in Proc, Unborn(acts'[q], files') PROVE Alone(q, acts[q])'
    <3>1. CASE q = p
      <4>1. Alone(p, x)
        BY <3>1, <2>1, <1>1
      <4> QED BY <4>1, <3>1, <1>1 DEF Alone
    <3>2. CASE q # p
      <4>1. Unborn(acts[q], files) /\ Alone(q, acts[q]) /\ acts'[q] = acts[q]
        BY <3>2, <2>1, <1>1 DEF IInv, Unheard
      <4>2. x.root = acts[q].root => x.verb = "revoke"
        BY <4>1, <3>2 DEF Apart
      <4> QED BY <4>1, <4>2, <1>1 DEF Alone
    <3> QED BY <3>1, <3>2
  <2> QED BY <2>1 DEF Unheard
<1>6. InFlight'
  <2>1. ASSUME NEW q \in Proc, lock' = q PROVE Leads(acts'[q], stopped', Here(files'), acts'[q].todo)
    <3>1. q # p /\ lock = q /\ acts'[q] = acts[q]
      BY <2>1, <1>1
    <3> QED BY <3>1 DEF IInv, InFlight
  <2> QED BY <2>1 DEF InFlight
<1> QED BY <1>2, <1>3, <1>4, <1>5, <1>6 DEF IInv

\* A root that is here, in the copy or abroad is none that is being made.
LEMMA OldRoot ==
    ASSUME IInv, NEW p \in Proc, NEW x,
           x.root \in {None, files.root, files.copyKey, LiveRoot(files)} \cup Abroad
    PROVE  Apart(p, x)
<1>1. LiveRoot(files) \in {None, files.root}
  BY DEF LiveRoot, Live
<1>2. ASSUME NEW q \in Proc, Unborn(acts[q], files) PROVE acts[q].root # x.root
  <2>1. acts[q].root \notin {files.root, files.copyKey} \cup Abroad
    BY <1>2 DEF IInv, Unheard, Alone
  <2>2. acts[q].root # None
    BY <1>2 DEF IInv, Read, Reading, Unborn
  <2> QED BY <2>1, <2>2, <1>1
<1> QED BY <1>2 DEF Apart

LEMMA BeginKeeps ==
    ASSUME IInv, NEW p \in Proc, NEW x \in Actions, Begin(p, x), x.at = "asked",
           Read(x, files), Apart(p, x), Unborn(x, files) => Alone(p, x)
    PROVE  IInv'
<1>1. lock # p
  BY DEF IInv, Shape, Begin
<1>2. begun' \in 0 .. MaxActs
  BY HomeAssumption DEF IInv, Shape, Begin
<1>3. acts' = [acts EXCEPT ![p] = x] /\ UNCHANGED <<files, lock, resident, signed, stops, stopped>>
  BY DEF Begin
<1>4. Alongside'
  <2>1. (NeverBoth /\ KeyServed)'
    BY <1>3 DEF IInv, Alongside, NeverBoth, KeyServed, Admitting
  <2>2. ASSUME NEW q \in Proc PROVE Beside(q, acts'[q], resident')
    <3>1. CASE q = p
      <4>1. acts'[q] = x
        BY <3>1, <1>3 DEF IInv, Shape
      <4> QED BY <4>1 DEF Beside
    <3>2. CASE q # p
      <4>1. acts'[q] = acts[q] /\ resident' = resident
        BY <3>2, <1>3 DEF IInv, Shape
      <4> QED BY <4>1 DEF IInv, Alongside
    <3> QED BY <3>1, <3>2
  <2> QED BY <2>1, <2>2 DEF Alongside
<1>5. resident' \in Residents
  BY <1>3 DEF IInv, Shape
<1> QED BY <1>1, <1>2, <1>3, <1>4, <1>5, TurnKeeps

LEMMA StandingType == ASSUME NEW f \in Homes PROVE StandingOf(f) \in Standings
<1>1. /\ LiveRoot(f) \in Root \cup {None} /\ LivePin(f) \in Root \cup {None}
      /\ f.badge # None => f.badge.root \in Root
  BY HomeFields
<1>2. ASSUME NEW r \in Root \cup {None}
      PROVE  /\ Unpinned \in Standings /\ Device(r) \in Standings /\ Holds(r) \in Standings
             /\ Minting(r) \in Standings
  BY DEF Unpinned, Device, Holds, Minting, Standings
<1>3. ASSUME NEW r \in Root \cup {None}, NEW what \in Damage PROVE Damaged(what, r) \in Standings
  BY DEF Damaged, Standings
<1>4. \A p \in Root \cup {None} : WithRoot(f, LiveRoot(f), p) \in Standings
  BY <1>1, <1>2, <1>3 DEF WithRoot, Damage
<1>5. WithPin(f, LivePin(f)) \in Standings
  BY <1>1, <1>2, <1>3 DEF WithPin, Damage
<1>6. WithNeither(f) \in Standings
  <2>1. f.badge # None => Damaged("standing without pin", f.badge.root) \in Standings
    BY <1>1, <1>3 DEF Damage
  <2> QED BY <1>2, <2>1 DEF WithNeither
<1> QED BY <1>1, <1>4, <1>5, <1>6 DEF StandingOf

\* A verb that has asked, with what it read.
Taking(v, r, w, k, l, h, m) ==
    [verb |-> v, at |-> "asked", root |-> r, was |-> w, own |-> k, list |-> l, held |-> h, number |-> 0,
     made |-> m, todo |-> <<>>]

LEMMA TakingIs ==
    ASSUME NEW v, NEW r, NEW w, NEW k, NEW l, NEW h, NEW m,
           v \in Verbs, r \in Root \cup {None}, w \in Standings, k \in Key, l \in Lists \cup {None},
           h \in Root \cup {None}, m \in Key \cup {None}
    PROVE  LET x == Taking(v, r, w, k, l, h, m)
           IN  /\ x \in Actions
               /\ x.verb = v /\ x.at = "asked" /\ x.root = r /\ x.was = w /\ x.own = k /\ x.list = l /\ x.held = h
               /\ x.made = m
<1>1. <<>> \in Seq(Writes)
  OBVIOUS
<1>2. "asked" \in Ats
  BY DEF Ats
<1> DEFINE x == Taking(v, r, w, k, l, h, m)
<1>3. /\ x.verb = v /\ x.at = "asked" /\ x.root = r /\ x.was = w /\ x.own = k /\ x.list = l /\ x.held = h
      /\ x.made = m
  BY DEF Taking
<1>4. x \in Actions
  <2>1. v \in Verbs \cup {"none"} /\ k \in Key \cup {None} /\ 0 \in Nat
    OBVIOUS
  <2> DEFINE e == <<>>
  <2>2. e \in Seq(Writes) /\ x = [verb |-> v, at |-> "asked", root |-> r, was |-> w, own |-> k, list |-> l,
                                    held |-> h, number |-> 0, made |-> m, todo |-> e]
    BY <1>1 DEF Taking
  <2> HIDE DEF e, x
  <2> QED BY <1>2, <2>1, <2>2 DEF Actions
<1> QED BY <1>3, <1>4

LEMMA AskedIs ==
    ASSUME NEW v, NEW r
    PROVE  Asked(v, r) = Taking(v, r, StandingOf(files), files.key, None, None, None)
<1> DEFINE e == <<>>
           u == Unpinned
           w == StandingOf(files)
           k == files.key
           x == Asked(v, r)
           y == Taking(v, r, w, k, None, None, None)
<1> HIDE DEF e, u, w, k
<1>1. x = [[[[[Idle EXCEPT !.verb = v] EXCEPT !.at = "asked"] EXCEPT !.root = r] EXCEPT !.was = w] EXCEPT !.own = k]
  BY DEF Asked, w, k
<1>2. Idle = [verb |-> "none", at |-> "idle", root |-> None, was |-> u, own |-> None, list |-> None,
              held |-> None, number |-> 0, made |-> None, todo |-> e]
  BY DEF Idle, u, e
<1>3. y = [verb |-> v, at |-> "asked", root |-> r, was |-> w, own |-> k, list |-> None, held |-> None,
           number |-> 0, made |-> None, todo |-> e]
  BY DEF Taking, e
<1>4. x = y
  BY <1>1, <1>2, <1>3
<1> QED BY <1>4 DEF w, k

\* A join as the paste of its invite leaves it.
Pasting(v, r, u, j, m) == [Asked(v, r) EXCEPT !.was = u, !.own = j, !.made = m]

LEMMA AskedPasted ==
    ASSUME NEW v, NEW r, NEW u, NEW j, NEW m
    PROVE  Pasting(v, r, u, j, m) = Taking(v, r, u, j, None, None, m)
<1> DEFINE e == <<>>
           w == StandingOf(files)
           k == files.key
           x == Asked(v, r)
<1> HIDE DEF e, w, k
<1>1. x = [verb |-> v, at |-> "asked", root |-> r, was |-> w, own |-> k, list |-> None, held |-> None,
           number |-> 0, made |-> None, todo |-> e]
  BY AskedIs DEF Taking, e, w, k
<1> HIDE DEF x
<1> DEFINE y == [x EXCEPT !.was = u]
           z == [y EXCEPT !.own = j]
<1>2. y = [verb |-> v, at |-> "asked", root |-> r, was |-> u, own |-> k, list |-> None, held |-> None,
           number |-> 0, made |-> None, todo |-> e]
  BY <1>1
<1>3. [x EXCEPT !.was = u, !.own = j, !.made = m] = [z EXCEPT !.made = m]
  OBVIOUS
<1> HIDE DEF y
<1>4. z = [verb |-> v, at |-> "asked", root |-> r, was |-> u, own |-> j, list |-> None, held |-> None,
           number |-> 0, made |-> None, todo |-> e]
  BY <1>2
<1> HIDE DEF z
<1>5. [z EXCEPT !.made = m] = [verb |-> v, at |-> "asked", root |-> r, was |-> u, own |-> j, list |-> None,
                               held |-> None, number |-> 0, made |-> m, todo |-> e]
  BY <1>4
<1> QED BY <1>3, <1>5 DEF Pasting, Taking, e, x

LEMMA AskedAlso ==
    ASSUME NEW v, NEW r
    PROVE  LET w == StandingOf(files)
               k == files.key
           IN
           /\ \A u : [Asked(v, r) EXCEPT !.was = u] = Taking(v, r, u, k, None, None, None)
           /\ \A l : [Asked(v, r) EXCEPT !.list = l] = Taking(v, r, w, k, l, None, None)
           /\ \A l, h : [Asked(v, r) EXCEPT !.list = l, !.held = h] = Taking(v, r, w, k, l, h, None)
<1> DEFINE e == <<>>
           w == StandingOf(files)
           k == files.key
           x == Asked(v, r)
<1> HIDE DEF e, w, k
<1>1. x = [verb |-> v, at |-> "asked", root |-> r, was |-> w, own |-> k, list |-> None, held |-> None,
           number |-> 0, made |-> None, todo |-> e]
  BY AskedIs DEF Taking, e, w, k
<1> HIDE DEF x
<1>2. ASSUME NEW u PROVE [x EXCEPT !.was = u] = Taking(v, r, u, k, None, None, None)
  BY <1>1 DEF Taking, e
<1>3. ASSUME NEW l PROVE [x EXCEPT !.list = l] = Taking(v, r, w, k, l, None, None)
  BY <1>1 DEF Taking, e
<1>4. ASSUME NEW l, NEW h PROVE [x EXCEPT !.list = l, !.held = h] = Taking(v, r, w, k, l, h, None)
  <2> DEFINE y == [x EXCEPT !.list = l]
  <2>1. y = [verb |-> v, at |-> "asked", root |-> r, was |-> w, own |-> k, list |-> l, held |-> None,
             number |-> 0, made |-> None, todo |-> e]
    BY <1>1
  <2>2. [x EXCEPT !.list = l, !.held = h] = [y EXCEPT !.held = h]
    OBVIOUS
  <2> HIDE DEF y
  <2>3. [y EXCEPT !.held = h] = [verb |-> v, at |-> "asked", root |-> r, was |-> w, own |-> k, list |-> l, held |-> h,
                                 number |-> 0, made |-> None, todo |-> e]
    BY <2>1
  <2> QED BY <2>2, <2>3 DEF Taking, e
<1> QED BY <1>2, <1>3, <1>4 DEF x, w, k

\* A verb that begins with what it read, about a root that is no one's to make.
LEMMA AskKeeps ==
    ASSUME IInv, NEW p \in Proc, NEW x \in Actions, Begin(p, x), x.at = "asked", x.verb # "none", x.verb # "mint",
           x.own = files.key, x.made = None, Reading(x), StillOwn(x, files), CopyTodo(x, files), Apart(p, x)
    PROVE  IInv'
<1>1. FirstRead(x, files) /\ Pasted(x)
  BY DEF FirstRead, Pasted
<1>2. ~Unborn(x, files)
  BY DEF Unborn
<1> QED BY <1>1, <1>2, BeginKeeps DEF Read

LEMMA AskLeaveKeeps == ASSUME IInv, NEW p \in Proc, AskLeave(p) PROVE IInv'
<1> DEFINE v == "leave"
           x == Asked(v, None)
<1>0. v \in Verbs
  BY DEF Verbs
<1>1. CanLeave(StandingOf(files)) /\ Begin(p, x)
  BY DEF AskLeave
<1> HIDE DEF v
<1>2. x = Taking(v, None, StandingOf(files), files.key, None, None, None)
  BY AskedIs
<1>3. files \in Homes /\ files.key \in Key /\ StandingOf(files) \in Standings
  BY StandingType, HomeFields DEF IInv, Shape
<1> HIDE DEF x
<1>4. /\ x \in Actions
      /\ x.verb = v /\ x.at = "asked" /\ x.root = None /\ x.was = StandingOf(files) /\ x.own = files.key
      /\ x.list = None /\ x.made = None
  BY <1>2, <1>3, TakingIs, <1>0
<1>5. Reading(x)
  BY <1>1, <1>3, <1>4, NoneApart DEF Reading, v
<1>6. StillOwn(x, files) /\ CopyTodo(x, files)
  BY <1>4 DEF StillOwn, CopyTodo, v
<1>7. Apart(p, x)
  BY <1>4, OldRoot
<1>8. x.verb # "none" /\ x.verb # "mint"
  BY <1>4 DEF v
<1> QED BY <1>1, <1>4, <1>5, <1>6, <1>7, <1>8, AskKeeps

LEMMA AskNewKeyKeeps == ASSUME IInv, NEW p \in Proc, AskNewKey(p) PROVE IInv'
<1> DEFINE v == "new key"
           x == Asked(v, None)
<1>0. v \in Verbs
  BY DEF Verbs
<1>1. (CanLeave(StandingOf(files)) \/ StandingOf(files) = Unpinned) /\ Begin(p, x)
  BY DEF AskNewKey
<1> HIDE DEF v
<1>2. x = Taking(v, None, StandingOf(files), files.key, None, None, None)
  BY AskedIs
<1>3. files \in Homes /\ files.key \in Key /\ StandingOf(files) \in Standings
  BY StandingType, HomeFields DEF IInv, Shape
<1> HIDE DEF x
<1>4. /\ x \in Actions
      /\ x.verb = v /\ x.at = "asked" /\ x.root = None /\ x.was = StandingOf(files) /\ x.own = files.key
      /\ x.list = None /\ x.made = None
  BY <1>2, <1>3, TakingIs, <1>0
<1>5. Reading(x)
  BY <1>1, <1>3, <1>4, NoneApart DEF Reading, v
<1>6. StillOwn(x, files) /\ CopyTodo(x, files)
  BY <1>4 DEF StillOwn, CopyTodo, v
<1>7. Apart(p, x)
  BY <1>4, OldRoot
<1>8. x.verb # "none" /\ x.verb # "mint"
  BY <1>4 DEF v
<1> QED BY <1>1, <1>4, <1>5, <1>6, <1>7, <1>8, AskKeeps

LEMMA JoinReadsType == ASSUME NEW s \in Standings PROVE JoinReads(s) \in Standings
<1>1. s.root \in Root \cup {None}
  BY DEF Standings
<1>2. Unpinned \in Standings /\ [is |-> "switching", root |-> s.root] \in Standings
  BY <1>1 DEF Unpinned, Standings
<1> QED BY <1>2, JoinReadsIs

LEMMA AskJoinKeeps == ASSUME IInv, NEW p \in Proc, NEW r \in Root, AskJoin(p, r) PROVE IInv'
<1> DEFINE v == "join"
           w == JoinReads(StandingOf(files))
           x == [Asked(v, r) EXCEPT !.was = w]
<1>0. v \in Verbs
  BY DEF Verbs
<1>1. /\ r \in Abroad \/ files.copyKey = r
      /\ w.is \in {"unpinned", "switching", "device"}
      /\ Begin(p, x)
  BY DEF AskJoin
<1>2. files \in Homes /\ files.key \in Key /\ w \in Standings /\ r # None
  BY StandingType, JoinReadsType, HomeFields, NoneApart DEF IInv, Shape
<1> HIDE DEF v, w
<1>3. x = Taking(v, r, w, files.key, None, None, None)
  BY AskedAlso
<1> HIDE DEF x
<1>4. /\ x \in Actions
      /\ x.verb = v /\ x.at = "asked" /\ x.root = r /\ x.was = w /\ x.own = files.key
      /\ x.list = None /\ x.made = None
  BY <1>2, <1>3, TakingIs, <1>0
<1>5. Reading(x)
  BY <1>1, <1>2, <1>4, NoneApart DEF Reading, v
<1>6. StillOwn(x, files) /\ CopyTodo(x, files)
  BY <1>4 DEF StillOwn, CopyTodo, v
<1>7. Apart(p, x)
  BY <1>1, <1>4, OldRoot
<1>8. x.verb # "none" /\ x.verb # "mint"
  BY <1>4 DEF v
<1> QED BY <1>1, <1>4, <1>5, <1>6, <1>7, <1>8, AskKeeps

LEMMA AskMintKeeps == ASSUME IInv, NEW p \in Proc, NEW r \in Root, AskMint(p, r) PROVE IInv'
<1> DEFINE v == "mint"
           x == Asked(v, r)
<1>0. v \in Verbs
  BY DEF Verbs
<1>1. New(r) /\ StandingOf(files) = Unpinned /\ Begin(p, x)
  BY DEF AskMint
<1>2. files \in Homes /\ files.key \in Key /\ StandingOf(files) \in Standings /\ r # None
  BY StandingType, HomeFields, NoneApart DEF IInv, Shape
<1> HIDE DEF v
<1>3. x = Taking(v, r, StandingOf(files), files.key, None, None, None)
  BY AskedIs
<1> HIDE DEF x
<1>4. /\ x \in Actions
      /\ x.verb = v /\ x.at = "asked" /\ x.root = r /\ x.was = StandingOf(files) /\ x.own = files.key
      /\ x.list = None /\ x.made = None
  BY <1>2, <1>3, TakingIs, <1>0
<1>5. Reading(x)
  BY <1>1, <1>2, <1>4, NoneApart DEF Reading, v
<1>6. FirstRead(x, files) /\ Pasted(x) /\ StillOwn(x, files) /\ CopyTodo(x, files)
  BY <1>4 DEF FirstRead, Pasted, StillOwn, CopyTodo, v
<1>7. Apart(p, x) /\ Alone(p, x)
  BY <1>1, <1>4 DEF Apart, Alone, New
<1> QED BY <1>1, <1>4, <1>5, <1>6, <1>7, BeginKeeps DEF Read

LEMMA AskFinishKeeps == ASSUME IInv, NEW p \in Proc, AskFinish(p) PROVE IInv'
<1> DEFINE v == "finish"
           w == StandingOf(files)
           r == w.root
           l == files.list
           x == [Asked(v, r) EXCEPT !.list = l]
<1>0. v \in Verbs
  BY DEF Verbs
<1>1. /\ w.is = "minting"
      /\ l # None => l.root = r
      /\ Begin(p, x)
  BY DEF AskFinish
<1>2. /\ w = Minting(r) /\ r = LiveRoot(files) /\ r \in Root \cup {None} /\ r # None
      /\ files.key \in Key /\ w \in Standings /\ l \in Lists \cup {None}
  <2>1. files \in Homes
    BY DEF IInv, Shape
  <2>2. w = Minting(LiveRoot(files)) /\ LiveRoot(files) # None
    BY <1>1, Readings, ReadsMinting
  <2>3. r = LiveRoot(files)
    BY <2>2 DEF Minting
  <2> QED BY <2>1, <2>2, <2>3, StandingType, HomeFields
<1> HIDE DEF v, w, r, l
<1>3. x = Taking(v, r, w, files.key, l, None, None)
  BY AskedAlso DEF w
<1> HIDE DEF x
<1>4. /\ x \in Actions
      /\ x.verb = v /\ x.at = "asked" /\ x.root = r /\ x.was = w /\ x.own = files.key
      /\ x.list = l /\ x.made = None
  BY <1>2, <1>3, TakingIs, <1>0
<1>5. Reading(x)
  BY <1>1, <1>2, <1>4, NoneApart DEF Reading, v
<1>6. StillOwn(x, files) /\ CopyTodo(x, files)
  BY <1>1, <1>4 DEF StillOwn, CopyTodo, v, l
<1>7. Apart(p, x)
  BY <1>2, <1>4, OldRoot
<1>8. x.verb # "none" /\ x.verb # "mint"
  BY <1>4 DEF v
<1> QED BY <1>1, <1>4, <1>5, <1>6, <1>7, <1>8, AskKeeps

LEMMA AskRestoreKeeps == ASSUME IInv, NEW p \in Proc, AskRestore(p) PROVE IInv'
<1> DEFINE v == "restore"
           w == StandingOf(files)
           r == files.copyKey
           l == files.copyList
           x == [Asked(v, r) EXCEPT !.list = l]
<1>0. v \in Verbs
  BY DEF Verbs
<1>1. /\ r # None /\ l # None /\ l.root = r
      /\ w \in {Unpinned, Minting(r), Device(r)}
      /\ Begin(p, x)
  BY DEF AskRestore
<1>2. /\ r \in Root \cup {None} /\ files.key \in Key /\ w \in Standings /\ l \in Lists \cup {None}
  BY StandingType, HomeFields DEF IInv, Shape
<1> HIDE DEF v, w, l
<1>3. x = Taking(v, r, w, files.key, l, None, None)
  BY AskedAlso DEF w
<1> HIDE DEF x
<1>4. /\ x \in Actions
      /\ x.verb = v /\ x.at = "asked" /\ x.root = r /\ x.was = w /\ x.own = files.key
      /\ x.list = l /\ x.made = None
  BY <1>2, <1>3, TakingIs, <1>0
<1>5. Reading(x)
  BY <1>1, <1>2, <1>4, NoneApart DEF Reading, v
<1>6. StillOwn(x, files) /\ CopyTodo(x, files)
  BY <1>1, <1>4 DEF StillOwn, CopyTodo, v
<1>7. Apart(p, x)
  BY <1>4, OldRoot
<1>8. x.verb # "none" /\ x.verb # "mint"
  BY <1>4 DEF v
<1> QED BY <1>1, <1>4, <1>5, <1>6, <1>7, <1>8, AskKeeps

LEMMA AskBackupKeeps == ASSUME IInv, NEW p \in Proc, AskBackup(p) PROVE IInv'
<1> DEFINE v == "backup"
           w == StandingOf(files)
           r == files.root
           l == files.copyList
           h == files.copyKey
           x == [Asked(v, r) EXCEPT !.list = l, !.held = h]
<1>0. v \in Verbs
  BY DEF Verbs
<1>1. /\ w = Holds(r) /\ h \in {None, r}
      /\ Begin(p, x)
  BY DEF AskBackup
<1>2. /\ r \in Root \cup {None} /\ files.key \in Key /\ w \in Standings /\ l \in Lists \cup {None}
      /\ h \in Root \cup {None} /\ r # None
  <2>1. files \in Homes
    BY DEF IInv, Shape
  <2>2. r # None
    BY <1>1, ReadsHolds
  <2> QED BY <2>1, <2>2, StandingType, HomeFields
<1> HIDE DEF v, r, l, h
<1>3. x = Taking(v, r, w, files.key, l, h, None)
  <2>1. \A m, n : [Asked(v, r) EXCEPT !.list = m, !.held = n] = Taking(v, r, w, files.key, m, n, None)
    BY AskedAlso
  <2> QED BY <2>1
<1> HIDE DEF w
<1> HIDE DEF x
<1>4. /\ x \in Actions
      /\ x.verb = v /\ x.at = "asked" /\ x.root = r /\ x.was = w /\ x.own = files.key
      /\ x.list = l /\ x.held = h /\ x.made = None
  BY <1>2, <1>3, TakingIs, <1>0
<1>5. Reading(x)
  BY <1>1, <1>2, <1>4, NoneApart DEF Reading, v
<1>6. StillOwn(x, files) /\ CopyTodo(x, files)
  BY <1>1, <1>4 DEF StillOwn, CopyTodo, v, l
<1>7. Apart(p, x)
  BY <1>4, OldRoot DEF r
<1>8. x.verb # "none" /\ x.verb # "mint"
  BY <1>4 DEF v
<1> QED BY <1>1, <1>4, <1>5, <1>6, <1>7, <1>8, AskKeeps

LEMMA AskForgetKeeps == ASSUME IInv, NEW p \in Proc, AskForget(p) PROVE IInv'
<1> DEFINE v == "forget"
           w == StandingOf(files)
           r == files.root
           l == files.copyList
           x == [Asked(v, r) EXCEPT !.list = l]
<1>0. v \in Verbs
  BY DEF Verbs
<1>1. w = Holds(r) /\ l # None /\ Begin(p, x)
  BY DEF AskForget
<1>2. /\ r \in Root \cup {None} /\ files.key \in Key /\ w \in Standings /\ l \in Lists \cup {None}
      /\ r # None
  <2>1. files \in Homes
    BY DEF IInv, Shape
  <2>2. r # None
    BY <1>1, ReadsHolds
  <2> QED BY <2>1, <2>2, StandingType, HomeFields
<1> HIDE DEF v, w, l
<1>3. x = Taking(v, r, w, files.key, l, None, None)
  BY AskedAlso DEF w
<1> HIDE DEF x
<1>4. /\ x \in Actions
      /\ x.verb = v /\ x.at = "asked" /\ x.root = r /\ x.was = w /\ x.own = files.key
      /\ x.list = l /\ x.made = None
  BY <1>2, <1>3, TakingIs, <1>0
<1>5. Reading(x)
  BY <1>1, <1>2, <1>4, NoneApart DEF Reading, v
<1>6. StillOwn(x, files) /\ CopyTodo(x, files)
  BY <1>1, <1>4 DEF StillOwn, CopyTodo, v
<1>7. Apart(p, x)
  BY <1>4, OldRoot
<1>8. x.verb # "none" /\ x.verb # "mint"
  BY <1>4 DEF v
<1> QED BY <1>1, <1>4, <1>5, <1>6, <1>7, <1>8, AskKeeps

LEMMA KindType ==
    ASSUME NEW f, NEW r PROVE Kind(f, r) \in {"latched", "holder", "device", "latched device", "unknown"}
BY DEF Kind

LEMMA AskRevokeKeeps == ASSUME IInv, NEW p \in Proc, NEW r \in Root, AskRevoke(p, r) PROVE IInv'
<1> DEFINE v == "revoke"
           w == [is |-> Kind(files, r), root |-> r]
           x == [Asked(v, r) EXCEPT !.was = w]
<1>0. v \in Verbs
  BY DEF Verbs
<1>1. Begin(p, x)
  BY DEF AskRevoke
<1>2. files.key \in Key /\ r # None
  BY HomeFields, NoneApart DEF IInv, Shape
<1>3. w \in Standings
  BY KindType DEF Standings
<1> HIDE DEF v, w
<1>4. x = Taking(v, r, w, files.key, None, None, None)
  BY AskedAlso
<1> HIDE DEF x
<1>5. /\ x \in Actions
      /\ x.verb = v /\ x.at = "asked" /\ x.root = r /\ x.was = w /\ x.own = files.key
      /\ x.list = None /\ x.made = None
  BY <1>2, <1>3, <1>4, TakingIs, <1>0
<1>6. Reading(x)
  BY <1>1, <1>2, <1>5, NoneApart DEF Reading, v
<1>7. StillOwn(x, files) /\ CopyTodo(x, files)
  BY <1>5 DEF StillOwn, CopyTodo, v
<1>8. Apart(p, x)
  BY <1>5 DEF Apart, v
<1>9. x.verb # "none" /\ x.verb # "mint"
  BY <1>5 DEF v
<1> QED BY <1>1, <1>5, <1>6, <1>7, <1>8, <1>9, AskKeeps

LEMMA FreeIs ==
    /\ Free.by = None /\ Free.key = None /\ Free.admit = None /\ Free \in Residents
    /\ \A p \in Proc : LET s == [Free EXCEPT !.by = p]
                       IN  s.by = p /\ s.key = None /\ s.admit = None /\ s \in Residents
BY DEF Free, Residents

LEMMA SameServe ==
    ASSUME IInv, NEW p \in Proc, NEW x, acts' = [acts EXCEPT ![p] = x], UNCHANGED <<files, resident>>,
           x.at \notin {"armed", "locked", "writing"}
    PROVE  Alongside'
<1>1. (NeverBoth /\ KeyServed)'
  BY DEF IInv, Alongside, NeverBoth, KeyServed, Admitting
<1>2. ASSUME NEW q \in Proc PROVE Beside(q, acts'[q], resident')
  <2>1. CASE q = p
    <3>1. acts'[q] = x
      BY <2>1 DEF IInv, Shape
    <3> QED BY <3>1 DEF Beside
  <2>2. CASE q # p
    <3>1. acts'[q] = acts[q] /\ resident' = resident
      BY <2>2 DEF IInv, Shape
    <3> QED BY <3>1 DEF IInv, Alongside
  <2> QED BY <2>1, <2>2
<1> QED BY <1>1, <1>2 DEF Alongside

LEMMA ServeLetGo ==
    ASSUME IInv, NEW p \in Proc, NEW x, acts' = [acts EXCEPT ![p] = x], files' = files, LetGo(p),
           x.at \notin {"armed", "locked", "writing"}
    PROVE  Alongside' /\ resident' \in Residents
<1>1. CASE resident.by # p
  <2>1. resident' = resident
    BY <1>1 DEF LetGo
  <2> QED BY <2>1, SameServe DEF IInv, Shape
<1>2. CASE resident.by = p
  <2>1. resident' = Free
    BY <1>2 DEF LetGo
  <2>2. (NeverBoth /\ KeyServed)'
    BY <2>1, FreeIs DEF NeverBoth, KeyServed, Admitting
  <2>3. ASSUME NEW q \in Proc PROVE Beside(q, acts'[q], resident')
    <3>1. CASE q = p
      <4>1. acts'[q] = x
        BY <3>1 DEF IInv, Shape
      <4> QED BY <4>1 DEF Beside
    <3>2. CASE q # p
      <4>1. acts'[q] = acts[q]
        BY <3>2 DEF IInv, Shape
      <4>2. Beside(q, acts[q], resident) /\ resident # [Free EXCEPT !.by = q]
        BY <1>2, <3>2, FreeIs DEF IInv, Alongside
      <4> QED BY <4>1, <4>2, <2>1, FreeIs DEF Beside
    <3> QED BY <3>1, <3>2
  <2> QED BY <2>1, <2>2, <2>3, FreeIs DEF Alongside
<1> QED BY <1>1, <1>2

LEMMA FirstUsed == ASSUME IInv PROVE FirstKey \in Used
BY DEF Used, IInv, Shape

LEMMA PasteKeeps == ASSUME IInv, NEW p \in Proc, NEW r \in Root, NEW k \in Key, Paste(p, r, k) PROVE IInv'
<1> DEFINE v == "join"
           w == JoinReads(StandingOf(files))
           m == acts[p].made
           x == [Asked(v, r) EXCEPT !.was = w, !.own = k, !.made = m]
<1>0. v \in Verbs
  BY DEF Verbs
<1>1. /\ acts[p].at = "printed" /\ files.key = m /\ r \in Abroad /\ k \notin Used
      /\ w.is \in {"unpinned", "switching", "device"}
      /\ acts' = [acts EXCEPT ![p] = x]
      /\ UNCHANGED <<files, lock, resident, signed, begun, stops, stopped>>
  BY DEF Paste
<1>2. w \in Standings /\ r # None /\ m \in Key /\ m # None
  BY <1>1, StandingType, JoinReadsType, HomeFields, NoneApart DEF IInv, Shape
<1>3. k # FirstKey
  BY <1>1, FirstUsed
<1>4. lock # p /\ begun' \in 0 .. MaxActs /\ resident' \in Residents
  BY <1>1 DEF IInv, Shape
<1> HIDE DEF v, w, m
<1>5. x = Taking(v, r, w, k, None, None, m)
  <2>1. x = Pasting(v, r, w, k, m)
    BY DEF Pasting
  <2> HIDE DEF x
  <2> QED BY <2>1, AskedPasted
<1> HIDE DEF x
<1>6. /\ x \in Actions
      /\ x.verb = v /\ x.at = "asked" /\ x.root = r /\ x.was = w /\ x.own = k
      /\ x.list = None /\ x.made = m
  BY <1>0, <1>2, <1>5, TakingIs
<1>7. Reading(x)
  BY <1>1, <1>2, <1>6, NoneApart DEF Reading, v
<1>8. FirstRead(x, files) /\ Pasted(x) /\ StillOwn(x, files) /\ CopyTodo(x, files)
  BY <1>2, <1>3, <1>6 DEF FirstRead, Pasted, StillOwn, CopyTodo, v
<1>9. Apart(p, x)
  BY <1>1, <1>6, OldRoot
<1>10. ~Unborn(x, files)
  BY <1>6 DEF Unborn, v
<1>11. Alongside'
  BY <1>1, <1>6, SameServe
<1> QED BY <1>1, <1>4, <1>6, <1>7, <1>8, <1>9, <1>10, <1>11, TurnKeeps DEF Read

LEMMA IdleIs == Idle \in Actions /\ Idle.at = "idle" /\ Idle.verb = "none" /\ Idle.root = None
<1>1. Unpinned \in Standings
  BY DEF Unpinned, Standings
<1>2. <<>> \in Seq(Writes)
  OBVIOUS
<1>3. "idle" \in Ats
  BY DEF Ats
<1> DEFINE e == <<>>
           u == Unpinned
<1> HIDE DEF e, u
<1>4. Idle = [verb |-> "none", at |-> "idle", root |-> None, was |-> u, own |-> None, list |-> None,
              held |-> None, number |-> 0, made |-> None, todo |-> e]
  BY DEF Idle, e, u
<1>5. u \in Standings /\ e \in Seq(Writes)
  BY <1>1, <1>2 DEF e, u
<1> QED BY <1>3, <1>4, <1>5 DEF Actions

LEMMA IdleReads == ASSUME IInv, NEW p \in Proc PROVE Read(Idle, files) /\ Apart(p, Idle) /\ ~Unborn(Idle, files)
<1>1. Idle.at = "idle" /\ Idle.verb = "none" /\ Idle.root = None
  BY IdleIs
<1>2. Apart(p, Idle)
  BY <1>1, OldRoot
<1> QED BY <1>1, <1>2 DEF Read, Reading, FirstRead, Pasted, StillOwn, CopyTodo, Unborn

LEMMA RefuseKeeps == ASSUME IInv, NEW p \in Proc, Refuse(p) PROVE IInv'
<1>1. /\ acts[p].at \notin {"locked", "writing"} /\ acts' = [acts EXCEPT ![p] = Idle] /\ LetGo(p)
      /\ UNCHANGED <<files, lock, signed, begun, stops, stopped>>
  BY DEF Refuse
<1>2. Idle \in Actions /\ Idle.at \notin {"armed", "locked", "writing"}
  BY IdleIs
<1>3. lock # p /\ begun' \in 0 .. MaxActs
  BY <1>1 DEF IInv, Shape
<1>4. Alongside' /\ resident' \in Residents
  BY <1>1, <1>2, ServeLetGo
<1> QED BY <1>1, <1>2, <1>3, <1>4, IdleReads, TurnKeeps

\* A verb that goes on: what it read stays.
Goes(a, v, t) == [a EXCEPT !.verb = v, !.at = t]

LEMMA GoesIs ==
    ASSUME NEW a \in Actions, NEW v \in Verbs, NEW t \in Ats
    PROVE  LET x == Goes(a, v, t)
           IN  /\ x \in Actions /\ x.verb = v /\ x.at = t
               /\ x.root = a.root /\ x.was = a.was /\ x.own = a.own /\ x.list = a.list /\ x.held = a.held
               /\ x.number = a.number /\ x.made = a.made /\ x.todo = a.todo
BY DEF Goes, Actions

LEMMA ActIs == ASSUME IInv, NEW p \in Proc PROVE acts[p] \in Actions /\ Read(acts[p], files)
BY DEF IInv, Shape

LEMMA HoldServeKeeps == ASSUME IInv, NEW p \in Proc, HoldServe(p) PROVE IInv'
<1> DEFINE a == acts[p]
           v == "new key"
           t == "armed"
           x == Goes(a, v, t)
<1>0. v \in Verbs /\ t \in Ats /\ t \notin {"locked", "writing"}
  BY DEF Verbs, Ats
<1>1. /\ a.verb = v /\ a.at = "asked"
      /\ lock = None /\ resident = Free /\ resident' = [Free EXCEPT !.by = p]
      /\ acts' = [acts EXCEPT ![p].at = t]
      /\ UNCHANGED <<files, lock, signed, begun, stops, stopped>>
  BY DEF HoldServe, Waits
<1>2. a \in Actions /\ Read(a, files)
  BY ActIs
<1> HIDE DEF v, t
<1>3. /\ x \in Actions /\ x.verb = v /\ x.at = t
      /\ x.root = a.root /\ x.was = a.was /\ x.own = a.own /\ x.list = a.list /\ x.held = a.held
      /\ x.made = a.made
  BY <1>0, <1>2, GoesIs
<1>4. acts' = [acts EXCEPT ![p] = x]
  BY <1>1, <1>2 DEF Goes, Actions, IInv, Shape
<1> HIDE DEF x
<1>5. lock # p /\ begun' \in 0 .. MaxActs /\ resident' \in Residents
  BY <1>1, FreeIs DEF IInv, Shape
<1>6. Read(x, files)
  BY <1>1, <1>2, <1>3 DEF Read, Reading, FirstRead, Pasted, StillOwn, CopyTodo, v, t
<1>7. Apart(p, x) /\ ~Unborn(x, files)
  <2>1. Apart(p, x)
    BY <1>1, <1>3 DEF Apart, IInv, Unheard, Alone, v
  <2> QED BY <2>1, <1>3 DEF Unborn, v
<1>8. Alongside'
  <2>1. (NeverBoth /\ KeyServed)'
    BY <1>1, FreeIs DEF NeverBoth, KeyServed, Admitting
  <2>2. ASSUME NEW q \in Proc PROVE Beside(q, acts'[q], resident')
    <3>1. CASE q = p
      <4>1. acts'[q] = x
        BY <3>1, <1>4 DEF IInv, Shape
      <4> QED BY <4>1, <3>1, <1>1, <1>3 DEF Beside, t
    <3>2. CASE q # p
      <4>1. acts'[q] = acts[q]
        BY <3>2, <1>1 DEF IInv, Shape
      <4>2. Beside(q, acts[q], resident)
        BY DEF IInv, Alongside
      <4>3. resident # [Free EXCEPT !.by = q]
        <5>1. resident = Free /\ Free.by = None /\ q # None
          BY <1>1, FreeIs, NoneProc
        <5>2. [Free EXCEPT !.by = q].by = q
          BY FreeIs
        <5> QED BY <5>1, <5>2
      <4> QED BY <4>1, <4>2, <4>3, <1>1, FreeIs DEF Beside
    <3> QED BY <3>1, <3>2
  <2> QED BY <2>1, <2>2 DEF Alongside
<1> QED BY <1>0, <1>1, <1>3, <1>4, <1>5, <1>6, <1>7, <1>8, TurnKeeps

\* A restore that syncs goes on to undo what it did, or to a new cut.
LEMMA SyncedKeeps ==
    ASSUME IInv, NEW p \in Proc, acts[p].at = "syncing", NEW v, NEW t,
           (v = "undo" /\ t = "undoing") \/ (v = "recut" /\ t = "recutting"),
           acts' = [acts EXCEPT ![p].verb = v, ![p].at = t],
           UNCHANGED <<files, lock, resident, signed, begun, stops, stopped>>
    PROVE  IInv'
<1> DEFINE a == acts[p]
           x == Goes(a, v, t)
<1>1. v \in Verbs /\ t \in Ats /\ t \notin {"armed", "locked", "writing"}
  BY DEF Verbs, Ats
<1>2. a \in Actions /\ Read(a, files)
  BY ActIs
<1>3. /\ x \in Actions /\ x.verb = v /\ x.at = t
      /\ x.root = a.root /\ x.was = a.was /\ x.own = a.own /\ x.list = a.list /\ x.held = a.held
      /\ x.made = a.made
  BY <1>1, <1>2, GoesIs
<1>4. acts' = [acts EXCEPT ![p] = x]
  BY <1>2 DEF Goes, Actions, IInv, Shape
<1> HIDE DEF x
<1>5. lock # p /\ begun' \in 0 .. MaxActs /\ resident' \in Residents
  BY DEF IInv, Shape
<1>6. a.verb = "restore" /\ a.root # None /\ a.own # None
  BY <1>2 DEF Read, Reading
<1>7. Read(x, files)
  BY <1>2, <1>3, <1>6 DEF Read, Reading, FirstRead, Pasted, StillOwn, CopyTodo
<1>8. Apart(p, x) /\ ~Unborn(x, files)
  <2>1. Apart(p, x)
    BY <1>3, <1>6 DEF Apart, IInv, Unheard, Alone
  <2> QED BY <2>1, <1>3 DEF Unborn
<1>9. Alongside'
  BY <1>1, <1>3, <1>4, SameServe
<1> QED BY <1>1, <1>3, <1>4, <1>5, <1>7, <1>8, <1>9, TurnKeeps

LEMMA RevokedKeeps == ASSUME IInv, NEW p \in Proc, Revoked(p) PROVE IInv'
<1> DEFINE v == "undo"
           t == "undoing"
<1>1. /\ acts[p].at = "syncing" /\ acts' = [acts EXCEPT ![p].verb = v, ![p].at = t]
      /\ UNCHANGED <<files, lock, resident, signed, begun, stops, stopped>>
  BY DEF Revoked
<1>2. (v = "undo" /\ t = "undoing") \/ (v = "recut" /\ t = "recutting")
  OBVIOUS
<1> HIDE DEF v, t
<1> QED BY <1>1, <1>2, SyncedKeeps

LEMMA NewerKeeps == ASSUME IInv, NEW p \in Proc, Newer(p) PROVE IInv'
<1> DEFINE v == "recut"
           t == "recutting"
<1>1. /\ acts[p].at = "syncing" /\ acts' = [acts EXCEPT ![p].verb = v, ![p].at = t]
      /\ UNCHANGED <<files, lock, resident, signed, begun, stops, stopped>>
  BY DEF Newer
<1>2. (v = "undo" /\ t = "undoing") \/ (v = "recut" /\ t = "recutting")
  OBVIOUS
<1> HIDE DEF v, t
<1> QED BY <1>1, <1>2, SyncedKeeps

-----------------------------------------------------------------------------
(* The serve, and the roots elsewhere. *)

LEMMA ServeOnly ==
    ASSUME IInv, UNCHANGED <<files, lock, acts, signed, begun, stops, stopped>>, resident' \in Residents,
           (NeverBoth /\ KeyServed)', \A q \in Proc : Beside(q, acts[q], resident')
    PROVE  IInv'
<1>1. Shape'
  BY DEF IInv, Shape
<1>2. Alongside'
  BY DEF Alongside
<1>3. Unheard'
  BY DEF IInv, Unheard, Alone
<1>4. InFlight'
  BY DEF IInv, InFlight
<1>5. NamedVerb'
  BY DEF IInv, NamedVerb
<1> QED BY <1>1, <1>2, <1>3, <1>4, <1>5 DEF IInv

LEMMA StartServeKeeps == ASSUME IInv, StartServe PROVE IInv'
<1> DEFINE s == [Free EXCEPT !.by = "serve"]
<1>1. resident = Free /\ resident' = s /\ UNCHANGED <<files, lock, acts, signed, begun, stops, stopped>>
  BY DEF StartServe
<1>2. s \in Residents /\ s.key = None /\ s.admit = None
  BY DEF Free, Residents
<1>3. ASSUME NEW q \in Proc PROVE Beside(q, acts[q], resident')
  <2>1. Beside(q, acts[q], resident) /\ resident # [Free EXCEPT !.by = q]
    BY <1>1, FreeIs, HomeAssumption DEF IInv, Alongside
  <2> QED BY <2>1, <1>1, <1>2 DEF Beside
<1> HIDE DEF s
<1>4. (NeverBoth /\ KeyServed)'
  BY <1>1, <1>2 DEF NeverBoth, KeyServed, Admitting
<1> QED BY <1>1, <1>2, <1>3, <1>4, ServeOnly

LEMMA ServeKeyKeeps == ASSUME IInv, ServeKey PROVE IInv'
<1> DEFINE s == [resident EXCEPT !.key = files.key]
<1>1. resident.by = "serve" /\ resident' = s /\ UNCHANGED <<files, lock, acts, signed, begun, stops, stopped>>
  BY DEF ServeKey
<1>2. resident \in Residents /\ files.key \in Key
  BY HomeFields DEF IInv, Shape
<1>3. s \in Residents /\ s.key = files.key /\ s.admit = resident.admit
  BY <1>2 DEF Residents
<1>4. ASSUME NEW q \in Proc PROVE Beside(q, acts[q], resident')
  <2>1. Beside(q, acts[q], resident) /\ resident # [Free EXCEPT !.by = q]
    BY <1>1, FreeIs, HomeAssumption DEF IInv, Alongside
  <2> QED BY <2>1, <1>1, <1>3 DEF Beside
<1> HIDE DEF s
<1>5. (NeverBoth /\ KeyServed)'
  BY <1>1, <1>3 DEF IInv, Alongside, NeverBoth, KeyServed, Admitting
<1> QED BY <1>1, <1>3, <1>4, <1>5, ServeOnly

\* A serve admits a root only while nobody writes, and there is no pin.
LEMMA AdmitKeeps == ASSUME IInv, NEW r \in Root, Admit(r) PROVE IInv'
<1> DEFINE s == [resident EXCEPT !.admit = r]
<1>1. /\ resident.by = "serve" /\ lock = None /\ StandingOf(files) = Unpinned /\ resident' = s
      /\ UNCHANGED <<files, lock, acts, signed, begun, stops, stopped>>
  BY DEF Admit
<1>2. resident \in Residents
  BY DEF IInv, Shape
<1>3. s \in Residents /\ s.key = resident.key
  BY <1>2 DEF Residents
<1>4. ASSUME NEW q \in Proc PROVE Beside(q, acts[q], resident')
  <2>1. Beside(q, acts[q], resident) /\ resident # [Free EXCEPT !.by = q]
    BY <1>1, FreeIs, HomeAssumption DEF IInv, Alongside
  <2>2. acts[q].at \notin {"locked", "writing"}
    BY <1>1, NoneProc DEF IInv, Shape
  <2> QED BY <2>1, <2>2 DEF Beside
<1> HIDE DEF s
<1>5. LivePin(files) = None
  BY <1>1, ReadsUnpinned
<1>6. (NeverBoth /\ KeyServed)'
  BY <1>1, <1>3, <1>5 DEF IInv, Alongside, NeverBoth, KeyServed, Admitting
<1> QED BY <1>1, <1>3, <1>4, <1>6, ServeOnly

LEMMA StopServeKeeps == ASSUME IInv, StopServe PROVE IInv'
<1>1. /\ resident.by = "serve" /\ resident' = Free
      /\ UNCHANGED <<files, lock, acts, signed, begun, stops, stopped>>
  BY DEF StopServe
<1>2. ASSUME NEW q \in Proc PROVE Beside(q, acts[q], resident')
  <2>1. Beside(q, acts[q], resident) /\ resident # [Free EXCEPT !.by = q]
    BY <1>1, FreeIs, HomeAssumption DEF IInv, Alongside
  <2> QED BY <2>1, <1>1, FreeIs DEF Beside
<1>3. (NeverBoth /\ KeyServed)'
  BY <1>1, FreeIs DEF NeverBoth, KeyServed, Admitting
<1> QED BY <1>1, <1>2, <1>3, FreeIs, ServeOnly

\* The copy's list, or this machine's, changes, and nothing else.
LEMMA ListsKeep ==
    ASSUME IInv, UNCHANGED <<lock, acts, resident, begun, stops, stopped>>,
           signed \subseteq signed', signed' \subseteq Lists, files' \in Homes, Good(files'), Alike(files, files'),
           files'.copyKey = files.copyKey,
           (files'.list = files.list /\ Here(files') = Here(files)) \/ lock = None,
           \A p \in Proc : StillOwn(acts[p], files') /\ CopyTodo(acts[p], files')
    PROVE  IInv'
<1>1. /\ StandingOf(files') = StandingOf(files) /\ LivePin(files') = LivePin(files)
      /\ \A by : Named(files', by) <=> Named(files, by)
      /\ files'.key = files.key /\ files'.root = files.root
  BY AlikeReads DEF Alike
<1>2. Shape'
  BY DEF IInv, Shape
<1>3. Good(files)' /\ NamedVerb'
  BY <1>1 DEF IInv, NamedVerb
<1>4. \A p \in Proc : Read(acts[p], files')
  BY <1>1 DEF IInv, Read, FirstRead
<1>5. Unheard'
  BY <1>1 DEF IInv, Unheard, Alone, Unborn
<1>6. Alongside'
  BY <1>1 DEF IInv, Alongside, NeverBoth, KeyServed, Admitting
<1>7. InFlight'
  BY NoneProc DEF IInv, InFlight
<1> QED BY <1>2, <1>3, <1>4, <1>5, <1>6, <1>7 DEF IInv

LEMMA HearKeeps == ASSUME IInv, NEW l \in signed, Hear(l) PROVE IInv'
<1> DEFINE f == files
           h == Folded(files.list, l)
           g == files'
<1>1. /\ lock = None /\ StandingOf(files) \in {Device(l.root), Holds(l.root)}
      /\ UNCHANGED <<lock, resident, acts, signed, begun, stops, stopped>>
      /\ files' = [files EXCEPT !.list = h,
                      !.invited = IF NumberUnder(files.list, l.root) < l.number THEN None ELSE files.invited]
  BY DEF Hear
<1>2. files \in Homes /\ Good(files) /\ signed \subseteq Lists /\ l \in Lists
  BY DEF IInv, Shape
<1>3. h \in Lists /\ h.root = l.root
  BY <1>2, HomeFields, FoldedIs
<1>4. l.root \in Root
  BY <1>2 DEF Lists, List
<1> HIDE DEF h
<1>5. files \in Files /\ files.copyList \in Lists \cup {None} /\ files.invited \in Root \cup {None}
  BY <1>2, HomeFields DEF Homes
<1>6. /\ g \in Homes /\ g.list = h /\ g.key = f.key /\ g.root = f.root /\ g.pin = f.pin /\ g.badge = f.badge
      /\ g.revoked = f.revoked /\ g.copyKey = f.copyKey /\ g.copyList = f.copyList
  <2> DEFINE i == IF NumberUnder(files.list, l.root) < l.number THEN None ELSE files.invited
  <2>1. i \in Root \cup {None} /\ h \in List
    BY <1>3, <1>5 DEF Lists
  <2>2. g = [files EXCEPT !.list = h, !.invited = i]
    BY <1>1
  <2> HIDE DEF i, g
  <2>3. /\ g.list = h /\ g.key = f.key /\ g.root = f.root /\ g.pin = f.pin /\ g.badge = f.badge
        /\ g.revoked = f.revoked /\ g.copyKey = f.copyKey /\ g.copyList = f.copyList
    BY <1>5, <2>2 DEF Files
  <2>4. g \in Files
    BY <1>5, <2>1, <2>2 DEF Files
  <2> QED BY <1>3, <1>5, <2>3, <2>4 DEF Homes
<1>7. Alike(files, files')
  BY <1>6 DEF Alike
<1>8. /\ LiveRoot(f) = None \/ (LiveRoot(f) = l.root /\ LivePin(f) = l.root)
      /\ LivePin(f) = l.root /\ h # None
  BY <1>1, <1>3, ReadsDevice, ReadsHolds, NoneApart
<1>9. Good(files')
  <2>1. LiveRoot(g) = LiveRoot(f) /\ LivePin(g) = LivePin(f)
    BY <1>7, AlikeReads
  <2> QED BY <2>1, <1>2, <1>3, <1>4, <1>6, <1>8, NoneApart DEF Good, OneRoot, DeviceList, HalfMade, Spent
<1>10. ASSUME NEW p \in Proc PROVE StillOwn(acts[p], files') /\ CopyTodo(acts[p], files')
  <2>1. acts[p].at \notin {"locked", "writing"}
    BY <1>1, NoneProc DEF IInv, Shape
  <2>2. Reading(acts[p]) /\ CopyTodo(acts[p], files)
    BY DEF IInv, Read
  <2>3. CopyTodo(acts[p], files')
    BY <2>1, <2>2, <1>6 DEF CopyTodo
  <2>4. LiveRoot(g) = LiveRoot(f)
    BY <1>7, AlikeReads
  <2>5. StillOwn(acts[p], files')
    BY <2>2, <2>4, <1>3, <1>6, <1>8 DEF StillOwn, Reading
  <2> QED BY <2>3, <2>5
<1> QED BY <1>1, <1>2, <1>6, <1>7, <1>9, <1>10, ListsKeep

LEMMA AfterIs == ASSUME NEW l \in Lists, NEW k PROVE After(l, k) \in Lists /\ After(l, k).number > l.number
<1> DEFINE n == l.number + 1
           r == l.rows \ {k}
           d == l.drops \cup ({k} \cap l.rows)
           m == [l EXCEPT !.number = n]
           o == [m EXCEPT !.rows = r]
           q == [o EXCEPT !.drops = d]
<1>1. l \in List /\ l.number > 0 /\ l.number \in Nat /\ l.rows \in SUBSET Key /\ l.drops \in SUBSET Key
  BY DEF Lists, List
<1>2. n \in Nat /\ n > 0 /\ n > l.number /\ r \in SUBSET Key /\ d \in SUBSET Key
  BY <1>1
<1>3. After(l, k) = q
  BY DEF After
<1> HIDE DEF n, r, d
<1>4. m \in List /\ m.number = n
  BY <1>1, <1>2 DEF List
<1> HIDE DEF m
<1>5. o \in List /\ o.number = n
  BY <1>2, <1>4 DEF List
<1> HIDE DEF o
<1>6. q \in List /\ q.number = n
  BY <1>2, <1>5 DEF List
<1> QED BY <1>2, <1>3, <1>6 DEF Lists

LEMMA UseCopyKeeps == ASSUME IInv, NEW k \in Key \cup {None}, UseCopy(k) PROVE IInv'
<1> DEFINE f == files
           h == After(files.copyList, k)
           g == files'
<1>1. /\ files.copyKey # None /\ files.copyList # None
      /\ files' = [files EXCEPT !.copyList = h]
      /\ signed' = signed \cup {h}
      /\ UNCHANGED <<lock, resident, acts, begun, stops, stopped>>
  BY DEF UseCopy
<1>2. files \in Homes /\ Good(files) /\ signed \subseteq Lists /\ files.copyList \in Lists
  BY <1>1, HomeFields DEF IInv, Shape
<1>3. h \in Lists /\ h.number > files.copyList.number /\ h # None /\ h.number \in Nat
      /\ files.copyList.number \in Nat
  BY <1>2, AfterIs, NoneApart DEF Lists, List
<1> HIDE DEF h
<1>4. files \in Files
  BY <1>2 DEF Homes
<1>5. /\ g \in Homes /\ g.list = f.list /\ g.key = f.key /\ g.root = f.root /\ g.pin = f.pin /\ g.badge = f.badge
      /\ g.revoked = f.revoked /\ g.copyKey = f.copyKey /\ g.copyList = h
      /\ Here(g) = Here(f)
  <2>1. g \in Files
    BY <1>1, <1>3, <1>4 DEF Files, Lists
  <2>2. f.list \in Lists \cup {None} /\ g.list = f.list /\ g.copyList = h
    BY <1>1, <1>2, <1>4 DEF Files, Homes
  <2>3. g \in Homes
    BY <2>1, <2>2, <1>3 DEF Homes
  <2>4. Here(g) = Here(f)
    BY <1>1, <1>4 DEF Here, Files
  <2> QED BY <2>2, <2>3, <2>4, <1>1, <1>4 DEF Files
<1>6. Alike(files, files')
  BY <1>5 DEF Alike
<1>7. LiveRoot(g) = LiveRoot(f) /\ LivePin(g) = LivePin(f)
  BY <1>6, AlikeReads
<1>8. Good(files')
  BY <1>2, <1>5, <1>7 DEF Good, OneRoot, DeviceList, HalfMade, Spent
<1>9. ASSUME NEW p \in Proc PROVE StillOwn(acts[p], files') /\ CopyTodo(acts[p], files')
  <2>1. StillOwn(acts[p], files) /\ CopyTodo(acts[p], files)
    BY DEF IInv, Read
  <2>2. f.list # None => f.list.number \in Nat
    BY <1>2, HomeFields
  <2>3. StillOwn(acts[p], files')
    BY <2>1, <1>5, <1>7 DEF StillOwn
  <2>4. CopyTodo(acts[p], files')
    BY <2>1, <2>2, <1>1, <1>3, <1>5 DEF CopyTodo
  <2> QED BY <2>3, <2>4
<1>10. signed \subseteq signed' /\ signed' \subseteq Lists
  BY <1>1, <1>2, <1>3
<1> QED BY <1>1, <1>5, <1>6, <1>8, <1>9, <1>10, ListsKeep

LEMMA PutKeyKeeps == ASSUME IInv, NEW p \in Proc, PutKey(p) PROVE IInv'
<1> DEFINE a == acts[p]
           f == files
           g == files'
           x == [a EXCEPT !.made = None]
<1>1. /\ a.verb = "join" /\ a.at = "asked" /\ a.made # None /\ lock = None /\ resident = Free
      /\ files' = [files EXCEPT !.key = a.own]
      /\ acts' = [acts EXCEPT ![p].made = None]
      /\ UNCHANGED <<lock, resident, signed, begun, stops, stopped>>
  BY DEF PutKey, Waits
<1>2. a \in Actions /\ Read(a, files) /\ files \in Homes /\ files \in Files
  BY ActIs DEF IInv, Shape, Homes
<1>3. a.own \in Key /\ a.own # FirstKey
  BY <1>1, <1>2 DEF Read, Reading, Pasted, Actions
<1>4. /\ x \in Actions /\ x.verb = a.verb /\ x.at = a.at /\ x.root = a.root /\ x.was = a.was /\ x.own = a.own
      /\ x.list = a.list /\ x.held = a.held /\ x.made = None /\ x.todo = a.todo
  BY <1>2 DEF Actions
<1>5. acts' = [acts EXCEPT ![p] = x]
  BY <1>1, <1>2 DEF Actions, IInv, Shape
<1> HIDE DEF x
<1>6. /\ g \in Homes /\ g.key = a.own /\ g.root = f.root /\ g.pin = f.pin /\ g.badge = f.badge /\ g.list = f.list
      /\ g.revoked = f.revoked /\ g.copyKey = f.copyKey /\ g.copyList = f.copyList
  BY <1>1, <1>2, <1>3 DEF Files, Homes
<1>7. LiveRoot(g) = LiveRoot(f) /\ LivePin(g) = LivePin(f)
  BY <1>6 DEF LiveRoot, LivePin, Live
<1>8. acts'[p] = x /\ \A q \in Proc \ {p} : acts'[q] = acts[q]
  BY <1>5 DEF IInv, Shape
<1>9. Shape'
  <2>1. acts' \in [Proc -> Actions]
    BY <1>4, <1>5 DEF IInv, Shape
  <2>2. \A q \in Proc : acts'[q].at \in {"locked", "writing"} <=> lock' = q
    BY <1>1, <1>4, <1>8 DEF IInv, Shape
  <2> QED BY <2>1, <2>2, <1>1, <1>6 DEF IInv, Shape
<1>10. Good(files)' /\ NamedVerb'
  <2>1. Good(files)'
    BY <1>6, <1>7 DEF IInv, Good, OneRoot, DeviceList, HalfMade, Spent
  <2> QED BY <2>1, <1>3, <1>6 DEF NamedVerb
<1>11. ASSUME NEW q \in Proc PROVE Read(acts'[q], files')
  <2>1. ASSUME NEW b, Reading(b), Pasted(b), StillOwn(b, f), CopyTodo(b, f) PROVE Read(b, g)
    <3>1. StillOwn(b, g)
      BY <2>1, <1>6, <1>7 DEF StillOwn
    <3>2. CopyTodo(b, g)
      BY <2>1, <1>6 DEF CopyTodo
    <3> QED BY <2>1, <3>1, <3>2, <1>3, <1>6 DEF Read, FirstRead
  <2>2. CASE q = p
    <3>1. Reading(x) /\ Pasted(x) /\ StillOwn(x, f) /\ CopyTodo(x, f)
      BY <1>1, <1>2, <1>4 DEF Read, Reading, Pasted, StillOwn, CopyTodo
    <3> QED BY <3>1, <2>1, <2>2, <1>8
  <2>3. CASE q # p
    BY <2>1, <2>3, <1>8 DEF IInv, Read
  <2> QED BY <2>2, <2>3
<1>12. Unheard'
  <2>1. ASSUME NEW q \in Proc, Unborn(acts'[q], files') PROVE Alone(q, acts[q])'
    <3>1. q # p /\ acts'[q] = acts[q]
      BY <2>1, <1>1, <1>4, <1>8 DEF Unborn
    <3>2. Alone(q, acts[q])
      BY <2>1, <3>1, <1>6 DEF IInv, Unheard, Unborn
    <3> QED BY <3>1, <3>2, <1>4, <1>6, <1>8 DEF Alone
  <2> QED BY <2>1 DEF Unheard
<1>13. Alongside'
  <2>1. (NeverBoth /\ KeyServed)'
    BY <1>1, FreeIs DEF NeverBoth, KeyServed, Admitting
  <2>2. ASSUME NEW q \in Proc PROVE Beside(q, acts'[q], resident')
    <3>1. CASE q = p
      BY <3>1, <1>1, <1>4, <1>8 DEF Beside
    <3>2. CASE q # p
      <4>1. acts'[q] = acts[q] /\ resident' = resident
        BY <3>2, <1>1, <1>8
      <4> QED BY <4>1 DEF IInv, Alongside
    <3> QED BY <3>1, <3>2
  <2> QED BY <2>1, <2>2 DEF Alongside
<1>14. InFlight'
  BY <1>1, NoneProc DEF InFlight
<1> QED BY <1>9, <1>10, <1>11, <1>12, <1>13, <1>14 DEF IInv

-----------------------------------------------------------------------------
(* A verb that takes home.lock: what it is to write leads where it should. *)

Ready(a) == a.at \in {"asked", "armed", "undoing", "recutting"}

Locked(a, t) == [a EXCEPT !.at = "locked", !.todo = t]

LEMMA LockedIs ==
    ASSUME NEW a \in Actions, NEW t \in Seq(Writes)
    PROVE  LET x == Locked(a, t)
           IN  /\ x \in Actions /\ x.at = "locked" /\ x.todo = t
               /\ x.verb = a.verb /\ x.root = a.root /\ x.was = a.was /\ x.own = a.own /\ x.list = a.list
               /\ x.held = a.held /\ x.number = a.number /\ x.made = a.made
<1>1. "locked" \in Ats
  BY DEF Ats
<1> QED BY <1>1 DEF Locked, Actions

LEMMA GoKeeps ==
    ASSUME IInv, NEW p \in Proc, NEW t, Go(p, t), Ready(acts[p]), Leads(acts[p], stopped, Here(files), t),
           acts[p].verb \in Pinning => ~Admitting, acts[p].verb = "new key" => acts[p].at = "armed",
           CopyTodo(Locked(acts[p], t), files)
    PROVE  IInv'
<1> DEFINE a == acts[p]
           x == Locked(a, t)
<1>1. /\ lock = None /\ lock' = p /\ acts' = [acts EXCEPT ![p].at = "locked", ![p].todo = t]
      /\ UNCHANGED <<files, resident, signed, begun, stops, stopped>>
  BY DEF Go
<1>2. a \in Actions /\ Read(a, files)
  BY ActIs
<1>3. t \in Seq(Writes)
  BY DEF Leads, Path
<1>4. /\ x \in Actions /\ x.at = "locked" /\ x.todo = t
      /\ x.verb = a.verb /\ x.root = a.root /\ x.was = a.was /\ x.own = a.own /\ x.list = a.list
      /\ x.held = a.held /\ x.made = a.made
  BY <1>2, <1>3, LockedIs
<1>5. acts' = [acts EXCEPT ![p] = x]
  BY <1>1, <1>2 DEF Locked, Actions, IInv, Shape
<1>6. CopyTodo(x, files)
  OBVIOUS
<1> HIDE DEF x
<1>7. acts'[p] = x /\ \A q \in Proc \ {p} : acts'[q] = acts[q]
  BY <1>5 DEF IInv, Shape
<1>8. Shape'
  <2>1. acts' \in [Proc -> Actions]
    BY <1>4, <1>5 DEF IInv, Shape
  <2>2. ASSUME NEW q \in Proc PROVE acts'[q].at \in {"locked", "writing"} <=> lock' = q
    <3>1. acts[q].at \notin {"locked", "writing"}
      BY <1>1, NoneProc DEF IInv, Shape
    <3> QED BY <3>1, <1>1, <1>4, <1>7
  <2> QED BY <2>1, <2>2, <1>1 DEF IInv, Shape
<1>9. Good(files)' /\ NamedVerb'
  BY <1>1, NoneProc DEF IInv, NamedVerb
<1>10. Read(x, files)
  <2>1. Reading(x)
    BY <1>2, <1>4 DEF Ready, Read, Reading
  <2>2. FirstRead(x, files)
    BY <1>2, <1>4 DEF Ready, Read, FirstRead
  <2>3. Pasted(x) /\ StillOwn(x, files)
    BY <1>4 DEF Pasted, StillOwn
  <2> QED BY <2>1, <2>2, <2>3, <1>6 DEF Read
<1>11. \A q \in Proc : Read(acts'[q], files')
  BY <1>1, <1>7, <1>10 DEF IInv
<1>12. Unheard'
  <2>1. ASSUME NEW q \in Proc, Unborn(acts'[q], files') PROVE Alone(q, acts[q])'
    <3>1. acts'[q].root = acts[q].root /\ acts'[q].verb = acts[q].verb
      BY <1>4, <1>7
    <3>2. Unborn(acts[q], files)
      <4>1. CASE q = p
        BY <4>1, <2>1, <1>2, <1>4, <1>7 DEF Unborn, Ready, Read, Reading
      <4>2. CASE q # p
        BY <4>2, <2>1, <1>1, <1>7
      <4> QED BY <4>1, <4>2
    <3>3. Alone(q, acts[q])
      BY <3>2 DEF IInv, Unheard
    <3>4. \A o \in Proc : acts'[o].root = acts[o].root /\ acts'[o].verb = acts[o].verb
      BY <1>4, <1>7
    <3> QED BY <3>3, <3>4, <1>1 DEF Alone
  <2> QED BY <2>1 DEF Unheard
<1>13. Alongside'
  <2>1. (NeverBoth /\ KeyServed)'
    BY <1>1 DEF IInv, Alongside, NeverBoth, KeyServed, Admitting
  <2>2. ASSUME NEW q \in Proc PROVE Beside(q, acts'[q], resident')
    <3>1. CASE q = p
      <4>1. Beside(p, a, resident)
        BY DEF IInv, Alongside
      <4>2. Beside(p, x, resident)
        BY <4>1, <1>4 DEF Beside, Admitting
      <4> QED BY <4>2, <3>1, <1>1, <1>7
    <3>2. CASE q # p
      BY <3>2, <1>1, <1>7 DEF IInv, Alongside
    <3> QED BY <3>1, <3>2
  <2> QED BY <2>1, <2>2 DEF Alongside
<1>14. InFlight'
  <2>1. Leads(x, stopped, Here(files), t)
    <3>1. OneVerb(a, x)
      BY <1>4 DEF OneVerb
    <3> QED BY <3>1, LeadsSame
  <2> QED BY <2>1, <1>1, <1>4, <1>7 DEF InFlight
<1> QED BY <1>8, <1>9, <1>11, <1>12, <1>13, <1>14 DEF IInv

\* Between verbs the home is one to start from, and a key a verb read as FirstKey is that key.
LEMMA HereRests ==
    ASSUME IInv, lock = None
    PROVE  Rests(stopped, Here(files)) /\ files \in Homes /\ Here(files) \in Homes
<1>1. files \in Homes /\ Good(files) /\ (files.key = FirstKey => Named(files, stopped))
  BY DEF IInv, Shape, NamedVerb
<1>2. Here(files).key = files.key
  BY <1>1, HereIs DEF Alike
<1> QED BY <1>1, <1>2, HereIs, HereReads DEF Rests

LEMMA OwnFirst ==
    ASSUME IInv, NEW p \in Proc, Ready(acts[p]), acts[p].verb = "join" => acts[p].made = None
    PROVE  SameFirst(acts[p].own, Here(files))
<1>1. acts[p] \in Actions /\ Read(acts[p], files) /\ files \in Homes
  BY ActIs DEF IInv, Shape
<1>2. Here(files).key = files.key
  BY <1>1, HereIs DEF Alike
<1>3. acts[p].own # None /\ (files.key = FirstKey => acts[p].own = FirstKey)
  BY <1>1 DEF Read, Reading, FirstRead, Ready
<1>4. acts[p].own \in Key
  BY <1>1, <1>3 DEF Actions
<1> QED BY <1>2, <1>3, <1>4 DEF SameFirst

LEMMA GoPlain ==
    ASSUME IInv, NEW p \in Proc, NEW t, Go(p, t), Ready(acts[p]), Leads(acts[p], stopped, Here(files), t),
           acts[p].verb \in Pinning => ~Admitting, acts[p].verb = "new key" => acts[p].at = "armed",
           acts[p].verb # "backup", acts[p].verb # "forget"
    PROVE  IInv'
<1>1. acts[p] \in Actions /\ t \in Seq(Writes)
  BY ActIs DEF Leads, Path
<1>2. Locked(acts[p], t).verb = acts[p].verb
  BY <1>1, LockedIs
<1>3. CopyTodo(Locked(acts[p], t), files)
  BY <1>2 DEF CopyTodo
<1> QED BY <1>3, GoKeeps

\* The writes of a verb read no more of the home than they put back.
LEMMA HereWrites ==
    ASSUME NEW f \in Homes
    PROVE  /\ \A was, r, own : JoinWrites(Here(f), was, r, own) = JoinWrites(f, was, r, own)
           /\ LeaveWrites(Here(f)) = LeaveWrites(f)
           /\ \A was, l : RestoreList(Here(f), was, l) = RestoreList(f, was, l)
           /\ \A was, l : ListAfter(Here(f), was, l) = ListAfter(f, was, l)
           /\ \A l, h : BackupWrites(Here(f), l, h) = BackupWrites(f, l, h)
           /\ \A l, b : ForgetWrites(Here(f), l, b) = ForgetWrites(f, l, b)
           /\ \A r, kind : RevokeWrites(Here(f), r, kind) = RevokeWrites(f, r, kind)
<1> DEFINE g == Here(f)
<1>1. /\ g.key = f.key /\ g.root = f.root /\ g.pin = f.pin /\ g.badge = f.badge /\ g.revoked = f.revoked
      /\ g.list = f.list /\ RevokedRoot(g) = RevokedRoot(f)
  BY HereIs, HereReads DEF Alike
<1> HIDE DEF g
<1>2. \A was, r, own : JoinWrites(g, was, r, own) = JoinWrites(f, was, r, own)
  BY <1>1 DEF JoinWrites
<1>3. LeaveWrites(g) = LeaveWrites(f)
  BY <1>1 DEF LeaveWrites
<1>4. \A was, l : RestoreList(g, was, l) = RestoreList(f, was, l)
  BY <1>1 DEF RestoreList, FoldWrites
<1>5. \A was, l : ListAfter(g, was, l) = ListAfter(f, was, l)
  BY <1>1 DEF ListAfter
<1>6. \A l, h : BackupWrites(g, l, h) = BackupWrites(f, l, h)
  BY <1>1 DEF BackupWrites
<1>7. \A l, b : ForgetWrites(g, l, b) = ForgetWrites(f, l, b)
  BY <1>1 DEF ForgetWrites
<1>8. \A r : Latch(g, r) = Latch(f, r) /\ Strip(g, r) = Strip(f, r)
  BY <1>1 DEF Latch, Strip
<1>9. \A r, kind : RevokeWrites(g, r, kind) = RevokeWrites(f, r, kind)
  BY <1>3, <1>8 DEF RevokeWrites
<1> QED BY <1>2, <1>3, <1>4, <1>5, <1>6, <1>7, <1>9 DEF g

LEMMA JoinKeeps == ASSUME IInv, NEW p \in Proc, Join(p) PROVE IInv'
<1> DEFINE a == acts[p]
           f == Here(files)
           t == JoinWrites(files, a.was, a.root, a.own)
<1>1. /\ a.verb = "join" /\ a.at = "asked" /\ a.made = None /\ ~Admitting
      /\ JoinReads(StandingOf(files)) = a.was /\ Go(p, t) /\ lock = None
  BY DEF Join, Waits, Go
<1>2. Rests(stopped, f) /\ files \in Homes /\ f \in Homes
  BY <1>1, HereRests
<1>3. a \in Actions /\ Read(a, files)
  BY ActIs
<1>4. Ready(a)
  BY <1>1 DEF Ready
<1>5. a.own \in Key /\ (f.key = FirstKey => a.own = FirstKey)
  BY <1>1, <1>4, OwnFirst DEF SameFirst
<1>6. a.root \in Root /\ a.was.is \in {"unpinned", "switching", "device"}
  BY <1>1, <1>3 DEF Read, Reading, Actions
<1>7. JoinReads(StandingOf(f)) = a.was /\ JoinWrites(f, a.was, a.root, a.own) = t
  BY <1>1, <1>2, HereReads, HereWrites
<1>8. Good(f) /\ (f.key = FirstKey => Named(f, stopped))
  BY <1>2 DEF Rests
<1>9. a.verb = "join" /\ a.verb # "new key" /\ a.verb # "backup" /\ a.verb # "forget" /\ a.verb \in Pinning
  BY <1>1 DEF Pinning
<1> HIDE DEF a, f, t
<1>10. Leads(a, stopped, f, t)
  BY <1>2, <1>5, <1>6, <1>7, <1>8, <1>9, JoinLeads
<1> QED BY <1>1, <1>4, <1>9, <1>10, GoPlain DEF a, f

LEMMA LeaveKeeps == ASSUME IInv, NEW p \in Proc, Leave(p) PROVE IInv'
<1> DEFINE a == acts[p]
           f == Here(files)
           t == LeaveWrites(files)
<1>1. a.verb = "leave" /\ a.at = "asked" /\ LeaveStill(a.was, StandingOf(files)) /\ Go(p, t) /\ lock = None
  BY DEF Leave, Waits, Go
<1>2. Rests(stopped, f) /\ files \in Homes /\ f \in Homes
  BY <1>1, HereRests
<1>3. CanLeave(a.was) /\ Ready(a)
  BY <1>1, ActIs DEF Read, Reading, Ready
<1>4. LeaveStill(a.was, StandingOf(f)) /\ LeaveWrites(f) = t
  BY <1>1, <1>2, HereReads, HereWrites
<1>5. a.verb # "new key" /\ a.verb # "backup" /\ a.verb # "forget" /\ a.verb \notin Pinning
  BY <1>1 DEF Pinning
<1> HIDE DEF a, f, t
<1>6. Leads(a, stopped, f, t)
  BY <1>1, <1>2, <1>3, <1>4, LeaveLeads
<1> QED BY <1>1, <1>3, <1>5, <1>6, GoPlain DEF a, f

LEMMA NewKeyKeeps == ASSUME IInv, NEW p \in Proc, NEW k \in Key, NewKey(p, k) PROVE IInv'
<1> DEFINE a == acts[p]
           f == Here(files)
           t == When(a.was # Unpinned, LeaveWrites(files)) \o <<File("key", k)>>
<1>1. /\ a.verb = "new key" /\ a.at = "armed" /\ k \notin Used /\ LeaveStill(a.was, StandingOf(files))
      /\ Go(p, t) /\ lock = None
  BY DEF NewKey, Go
<1>2. Rests(stopped, f) /\ files \in Homes /\ f \in Homes
  BY <1>1, HereRests
<1>3. (CanLeave(a.was) \/ a.was = Unpinned) /\ Ready(a)
  BY <1>1, ActIs DEF Read, Reading, Ready
<1>4. LeaveStill(a.was, StandingOf(f)) /\ LeaveWrites(f) = LeaveWrites(files)
  BY <1>1, <1>2, HereReads, HereWrites
<1>5. k # FirstKey
  BY <1>1, FirstUsed
<1>6. a.verb # "backup" /\ a.verb # "forget" /\ a.verb \notin Pinning
  BY <1>1 DEF Pinning
<1>7. t = When(a.was # Unpinned, LeaveWrites(f)) \o <<File("key", k)>>
  BY <1>4
<1> HIDE DEF a, f, t
<1>8. Leads(a, stopped, f, t)
  BY <1>1, <1>2, <1>3, <1>4, <1>5, <1>7, NewKeyLeads
<1> QED BY <1>1, <1>3, <1>6, <1>8, GoPlain DEF a, f

LEMMA MintKeeps == ASSUME IInv, NEW p \in Proc, Mint(p) PROVE IInv'
<1> DEFINE a == acts[p]
           f == Here(files)
           t == When(files.root # None, <<File("root", None)>>) \o <<File("root", a.root)>>
                  \o TakeOwn(a.root, a.own, None)
<1>1. a.verb = "mint" /\ a.at = "asked" /\ StandingOf(files) = a.was /\ ~Admitting /\ Go(p, t) /\ lock = None
  BY DEF Mint, Waits, Still, Go
<1>2. Rests(stopped, f) /\ files \in Homes /\ f \in Homes
  BY <1>1, HereRests
<1>3. a.was = Unpinned /\ Ready(a) /\ a.root \in Root
  BY <1>1, ActIs DEF Read, Reading, Ready, Actions
<1>4. SameFirst(a.own, f)
  BY <1>1, <1>3, OwnFirst
<1>5. StandingOf(f) = Unpinned
  BY <1>1, <1>2, <1>3, HereReads
<1>6. f.root = files.root /\ f.root # a.root
  <2>1. Alone(p, a)
    BY <1>1 DEF IInv, Unheard, Unborn
  <2> QED BY <2>1, <1>2, HereIs DEF Alone, Alike
<1>7. a.verb # "new key" /\ a.verb # "backup" /\ a.verb # "forget"
  BY <1>1
<1>8. t = When(f.root # None, <<File("root", None)>>) \o <<File("root", a.root)>> \o TakeOwn(a.root, a.own, None)
  BY <1>6
<1> HIDE DEF a, f, t
<1>9. Leads(a, stopped, f, t)
  BY <1>1, <1>2, <1>3, <1>4, <1>5, <1>6, <1>8, MintLeads
<1> QED BY <1>1, <1>3, <1>7, <1>9, GoPlain DEF a, f

LEMMA FinishKeeps == ASSUME IInv, NEW p \in Proc, Finish(p) PROVE IInv'
<1> DEFINE a == acts[p]
           f == Here(files)
           s == TakeStanding(a.root, a.own)
           t == TakeOwn(a.root, a.own, a.list)
<1>1. /\ a.verb = "finish" /\ a.at = "asked" /\ StandingOf(files) = a.was /\ ~Admitting /\ lock = None
      /\ (Go(p, s) /\ Listed(a.list, a.own)) \/ Go(p, t)
  BY DEF Finish, Waits, Still, Go
<1>2. Rests(stopped, f) /\ files \in Homes /\ f \in Homes
  BY <1>1, HereRests
<1>3. /\ a.was = Minting(a.root) /\ Ready(a) /\ a.root \in Root /\ a.list \in Lists \cup {None}
      /\ a.list # None => a.list.root = a.root
  BY <1>1, ActIs DEF Read, Reading, Ready, Actions
<1>4. SameFirst(a.own, f)
  BY <1>1, <1>3, OwnFirst
<1>5. StandingOf(f) = Minting(a.root)
  BY <1>1, <1>2, <1>3, HereReads
<1>6. Listed(a.list, a.own) => f.list # None /\ f.list.root = a.root
  <2>1. LiveRoot(files) = a.root
    BY <1>1, <1>3, ReadsMinting
  <2>2. a.list # None => files.list # None /\ files.list.root = a.root
    BY <2>1, <1>1, ActIs DEF Read, StillOwn
  <2> QED BY <2>2, <1>2, HereIs DEF Listed
<1>7. a.verb # "new key" /\ a.verb # "backup" /\ a.verb # "forget"
  BY <1>1
<1> HIDE DEF a, f, s, t
<1>8. Listed(a.list, a.own) => Leads(a, stopped, f, s)
  BY <1>1, <1>2, <1>3, <1>4, <1>5, <1>6, FinishLeads DEF s
<1>9. Leads(a, stopped, f, t)
  BY <1>1, <1>2, <1>3, <1>4, <1>5, FinishLeads DEF t
<1> QED BY <1>1, <1>3, <1>7, <1>8, <1>9, GoPlain DEF a, f

LEMMA RestoreKeeps == ASSUME IInv, NEW p \in Proc, NEW b \in BOOLEAN, Restore(p, b) PROVE IInv'
<1> DEFINE a == acts[p]
           f == Here(files)
           n == ListAfter(files, a.was, a.list)
           t == RestoreList(files, a.was, a.list)
                  \o When(files.key \notin n.drops, RestoreRest(a.was, n, a.root, a.own, b))
<1>1. a.verb = "restore" /\ a.at = "asked" /\ StandingOf(files) = a.was /\ ~Admitting /\ Go(p, t) /\ lock = None
  BY DEF Restore, Waits, Still, Go
<1>2. Rests(stopped, f) /\ files \in Homes /\ f \in Homes
  BY <1>1, HereRests
<1>3. /\ a.was \in {Unpinned, Minting(a.root), Device(a.root)} /\ Ready(a) /\ a.root \in Root
      /\ a.list \in Lists /\ a.list.root = a.root
  BY <1>1, ActIs DEF Read, Reading, Ready, Actions
<1>4. SameFirst(a.own, f)
  BY <1>1, <1>3, OwnFirst
<1>5. /\ StandingOf(f) = a.was /\ n = ListAfter(f, a.was, a.list) /\ f.key = files.key
      /\ RestoreList(f, a.was, a.list) = RestoreList(files, a.was, a.list)
  BY <1>1, <1>2, HereReads, HereWrites, HereIs DEF Alike
<1>6. a.verb # "new key" /\ a.verb # "backup" /\ a.verb # "forget"
  BY <1>1
<1>7. t = RestoreList(f, a.was, a.list) \o When(f.key \notin n.drops, RestoreRest(a.was, n, a.root, a.own, b))
  BY <1>5
<1> HIDE DEF a, f, n, t
<1>8. Leads(a, stopped, f, t)
  BY <1>1, <1>2, <1>3, <1>4, <1>5, <1>7, RestoreLeads
<1> QED BY <1>1, <1>3, <1>6, <1>8, GoPlain DEF a, f

LEMMA UndoKeeps == ASSUME IInv, NEW p \in Proc, Undo(p) PROVE IInv'
<1> DEFINE a == acts[p]
           f == Here(files)
           t == <<File("root", None), File("badge", None), File("pin", None)>>
<1>1. a.at = "undoing" /\ Go(p, t) /\ lock = None
  BY DEF Undo, Go
<1>2. Rests(stopped, f)
  BY <1>1, HereRests
<1>3. a.verb = "undo" /\ Ready(a)
  BY <1>1, ActIs DEF Read, Reading, Ready
<1>4. a.verb # "new key" /\ a.verb # "backup" /\ a.verb # "forget" /\ a.verb \notin Pinning
  BY <1>3 DEF Pinning
<1>5. Leads(a, stopped, f, t)
  <2> HIDE DEF a, f
  <2> QED BY <1>2, <1>3, UndoLeads
<1> HIDE DEF a, f, t
<1> QED BY <1>1, <1>3, <1>4, <1>5, GoPlain DEF a, f

LEMMA RecutKeeps == ASSUME IInv, NEW p \in Proc, Recut(p) PROVE IInv'
<1> DEFINE a == acts[p]
           f == Here(files)
           t == <<Head(TakeOwn(a.root, a.own, files.list))>>
<1>1. /\ a.at = "recutting" /\ StandingOf(files) \in {Holds(a.root), Device(a.root)}
      /\ NumberUnder(files.list, a.root) \in 1 .. MaxNumber - 1
      /\ Go(p, t) /\ lock = None
  BY DEF Recut, Go
<1>2. Rests(stopped, f) /\ files \in Homes /\ f \in Homes
  BY <1>1, HereRests
<1>3. a.verb = "recut" /\ Ready(a) /\ a.root \in Root
  BY <1>1, ActIs DEF Read, Reading, Ready, Actions
<1>4. a.own \in Key
  BY <1>3, OwnFirst DEF SameFirst
<1>5. StandingOf(f) \in {Holds(a.root), Device(a.root)} /\ f.list = files.list
  BY <1>1, <1>2, HereReads, HereIs
<1>6. files.list # None /\ files.list.root = a.root
  <2>1. NumberUnder(files.list, a.root) # 0
    BY <1>1
  <2> QED BY <2>1 DEF NumberUnder
<1>7. a.verb # "new key" /\ a.verb # "backup" /\ a.verb # "forget" /\ a.verb \notin Pinning
  BY <1>3 DEF Pinning
<1>8. t = <<Head(TakeOwn(a.root, a.own, f.list))>>
  BY <1>5
<1> HIDE DEF a, f, t
<1>9. Leads(a, stopped, f, t)
  BY <1>2, <1>3, <1>4, <1>5, <1>6, <1>8, RecutLeads
<1> QED BY <1>1, <1>3, <1>7, <1>9, GoPlain DEF a, f

LEMMA RevokeKeeps == ASSUME IInv, NEW p \in Proc, Revoke(p) PROVE IInv'
<1> DEFINE a == acts[p]
           f == Here(files)
           kind == a.was.is
           t == RevokeWrites(files, a.root, kind)
<1>1. /\ a.verb = "revoke" /\ a.at = "asked" /\ (~IsDamaged(StandingOf(files)) \/ kind = "latched")
      /\ Kind(files, a.root) = kind /\ Go(p, t) /\ lock = None
  BY DEF Revoke, Waits, Go, RevokeWrites
<1>2. Rests(stopped, f) /\ files \in Homes /\ f \in Homes
  BY <1>1, HereRests
<1>3. Ready(a) /\ a.root \in Root
  BY <1>1, ActIs DEF Read, Reading, Ready, Actions
<1>4. (~IsDamaged(StandingOf(f)) \/ kind = "latched") /\ Kind(f, a.root) = kind
      /\ RevokeWrites(f, a.root, kind) = t
  BY <1>1, <1>2, HereReads, HereWrites
<1>5. a.verb # "new key" /\ a.verb # "backup" /\ a.verb # "forget" /\ a.verb \notin Pinning
  BY <1>1 DEF Pinning
<1> HIDE DEF a, f, kind, t
<1>6. Leads(a, stopped, f, t)
  BY <1>1, <1>2, <1>3, <1>4, RevokeLeads
<1> QED BY <1>1, <1>3, <1>5, <1>6, GoPlain DEF a, f

\* Two writes at most, each where it is needed.
Two(t, x, y, b, c) ==
    /\ t \in {<<>>, <<x>>, <<y>>, <<x, y>>}
    /\ t \in {<<>>, <<y>>} => ~b
    /\ t \in {<<>>, <<x>>} => ~c

LEMMA AtMostTwo ==
    ASSUME NEW b \in BOOLEAN, NEW c \in BOOLEAN, NEW x, NEW y, x.name # y.name
    PROVE  Two(When(b, <<x>>) \o When(c, <<y>>), x, y, b, c)
<1>1. x # y
  OBVIOUS
<1>2. <<x>> # <<y>> /\ <<x>> # <<>> /\ <<y>> # <<>> /\ <<x, y>> # <<>> /\ <<x, y>> # <<x>> /\ <<x, y>> # <<y>>
  BY <1>1
<1>3. <<x>> \o <<y>> = <<x, y>>
  BY Pair
<1>4. <<>> \o <<>> = <<>> /\ <<>> \o <<y>> = <<y>> /\ <<x>> \o <<>> = <<x>>
  OBVIOUS
<1> QED BY <1>2, <1>3, <1>4 DEF When, Two

LEMMA BackupKeeps == ASSUME IInv, NEW p \in Proc, Backup(p) PROVE IInv'
<1> DEFINE a == acts[p]
           f == Here(files)
           t == BackupWrites(files, a.list, a.held)
           x == Locked(a, t)
           l == File("copyList", files.list)
           k == File("copyKey", files.root)
<1>1. a.verb = "backup" /\ a.at = "asked" /\ files.root # None /\ Go(p, t) /\ lock = None
  BY DEF Backup, Waits, Go
<1>2. Rests(stopped, f) /\ files \in Homes /\ f \in Homes
  BY <1>1, HereRests
<1>3. Ready(a) /\ a \in Actions /\ (a.list # None => files.copyList # None)
  BY <1>1, ActIs DEF Read, CopyTodo, Ready
<1>4. BackupWrites(f, a.list, a.held) = t /\ f.root # None
  BY <1>1, <1>2, HereWrites, HereIs DEF Alike
<1>5. a.verb # "new key" /\ a.verb # "forget" /\ a.verb \notin Pinning
  BY <1>1 DEF Pinning
<1>6. /\ t \in {<<>>, <<l>>, <<k>>, <<l, k>>}
      /\ t \in {<<>>, <<k>>} => ~(files.list # None /\ (a.list = None \/ a.list.number < files.list.number))
      /\ t \in {<<>>, <<l>>} => ~(a.held # files.root)
  <2>1. l.name # k.name
    BY DEF File
  <2> DEFINE behind == files.list # None /\ (a.list = None \/ a.list.number < files.list.number)
             wanting == a.held # files.root
  <2>2. t = When(behind, <<l>>) \o When(wanting, <<k>>)
    BY DEF BackupWrites
  <2>0. behind \in BOOLEAN /\ wanting \in BOOLEAN
    OBVIOUS
  <2> HIDE DEF t, l, k, behind, wanting
  <2>3. /\ t \in {<<>>, <<l>>, <<k>>, <<l, k>>}
        /\ t \in {<<>>, <<k>>} => ~behind
        /\ t \in {<<>>, <<l>>} => ~wanting
    <3>1. Two(t, l, k, behind, wanting)
      BY <2>0, <2>1, <2>2, AtMostTwo
    <3> QED BY <3>1 DEF Two
  <2> QED BY <2>3 DEF behind, wanting
<1>7. Leads(a, stopped, f, t)
  <2> HIDE DEF a, f, t
  <2> QED BY <1>1, <1>2, <1>4, BackupLeads
<1>8. CopyTodo(x, files)
  <2>1. t \in Seq(Writes)
    BY <1>7 DEF Leads, Path
  <2>2. x.verb = a.verb /\ x.at = "locked" /\ x.todo = t /\ x.held = a.held
    BY <2>1, <1>3, LockedIs
  <2>3. x.todo \in {<<>>, <<k>>} => files.list = None \/ files.copyList # None
    BY <2>2, <1>3, <1>6
  <2> HIDE DEF x, t
  <2> QED BY <2>2, <2>3, <1>1, <1>6 DEF CopyTodo
<1> HIDE DEF a, f, t
<1> QED BY <1>1, <1>3, <1>5, <1>7, <1>8, GoKeeps DEF a, f, x

LEMMA ForgetKeeps == ASSUME IInv, NEW p \in Proc, NEW b \in BOOLEAN, Forget(p, b) PROVE IInv'
<1> DEFINE a == acts[p]
           f == Here(files)
           t == ForgetWrites(files, a.list, b)
           x == Locked(a, t)
           l == File("copyList", files.list)
           k == File("root", None)
           behind == files.list # None /\ a.list.number < files.list.number
<1>1. /\ a.verb = "forget" /\ a.at = "asked" /\ StandingOf(files) = Holds(a.root)
      /\ files.copyKey = a.root /\ files.copyList = a.list /\ a.list.root = a.root
      /\ Go(p, t) /\ lock = None
  BY DEF Forget, Waits, Go
<1>2. Rests(stopped, f) /\ files \in Homes /\ f \in Homes
  BY <1>1, HereRests
<1>3. Ready(a) /\ a \in Actions /\ a.root \in Root
  BY <1>1, ActIs DEF Read, Reading, Ready, Actions
<1>4. ForgetWrites(f, a.list, b) = t /\ StandingOf(f) = Holds(a.root) /\ f.copyKey = a.root
  BY <1>1, <1>2, HereReads, HereWrites, HereIs
<1>5. a.verb # "new key" /\ a.verb # "backup" /\ a.verb \notin Pinning
  BY <1>1 DEF Pinning
<1>6. t \in {<<>>, <<l>>, <<k>>, <<l, k>>} /\ (t \in {<<>>, <<k>>} => ~behind)
  <2>1. l.name # k.name
    BY DEF File
  <2> DEFINE gone == ~(behind /\ b)
  <2>2. t = When(behind, <<l>>) \o When(gone, <<k>>)
    BY DEF ForgetWrites
  <2>0. behind \in BOOLEAN /\ gone \in BOOLEAN
    OBVIOUS
  <2> HIDE DEF t, l, k, behind, gone
  <2>3. Two(t, l, k, behind, gone)
    BY <2>0, <2>1, <2>2, AtMostTwo
  <2> QED BY <2>3 DEF Two
<1>7. Leads(a, stopped, f, t)
  <2> HIDE DEF a, f, t
  <2> QED BY <1>1, <1>2, <1>4, ForgetLeads
<1>8. files.list # None /\ files.copyList # None /\ files.list.number \in Nat /\ files.copyList.number \in Nat
  <2>1. LiveRoot(files) # None /\ LivePin(files) # None
    BY <1>1, ReadsHolds
  <2>2. files.list # None
    BY <2>1 DEF IInv, Good, OneRoot
  <2>3. a.list # None
    BY <1>1, ActIs DEF Read, Reading
  <2>4. \A l0 \in Lists : l0.number \in Nat
    BY DEF Lists, List
  <2>5. files.list \in Lists /\ files.copyList \in Lists /\ files.copyList # None
    BY <2>2, <2>3, <1>1, <1>2, HomeFields
  <2> QED BY <2>2, <2>4, <2>5
<1>9. CopyTodo(x, files)
  <2>1. t \in Seq(Writes)
    BY <1>7 DEF Leads, Path
  <2>2. x.verb = a.verb /\ x.at = "locked" /\ x.todo = t /\ x.root = a.root
    BY <2>1, <1>3, LockedIs
  <2>3. x.todo \in {<<>>, <<k>>} => files.copyList.number >= files.list.number
    BY <2>2, <1>1, <1>6, <1>8
  <2> HIDE DEF x, t
  <2> QED BY <2>2, <2>3, <1>1, <1>6, <1>8 DEF CopyTodo
<1> HIDE DEF a, f, t
<1> QED BY <1>1, <1>3, <1>5, <1>7, <1>9, GoKeeps DEF a, f, x

-----------------------------------------------------------------------------
(* A verb that writes, and its end. *)

LEMMA HereFair ==
    ASSUME NEW f \in Homes, NEW g \in Homes, NEW v, NEW r
    PROVE  Fair(v, r, Here(f), Here(g)) <=> Fair(v, r, f, g)
<1> DEFINE d == Here(f)
           e == Here(g)
<1>1. /\ d.key = f.key /\ d.root = f.root /\ d.list = f.list /\ d.revoked = f.revoked /\ d.copyKey = f.copyKey
      /\ LiveRoot(d) = LiveRoot(f) /\ LivePin(d) = LivePin(f)
  BY HereIs, HereReads DEF Alike
<1>2. /\ e.key = g.key /\ e.root = g.root /\ e.list = g.list /\ e.revoked = g.revoked /\ e.copyKey = g.copyKey
      /\ LiveRoot(e) = LiveRoot(g) /\ LivePin(e) = LivePin(g)
  BY HereIs, HereReads DEF Alike
<1> HIDE DEF d, e
<1>3. ListStays(v, r, d, e) <=> ListStays(v, r, f, g)
  BY <1>1, <1>2 DEF ListStays
<1>4. Loses(v, d, e) <=> Loses(v, f, g)
  BY <1>1, <1>2 DEF Loses
<1>5. Fair(v, r, d, e) <=> Fair(v, r, f, g)
  BY <1>1, <1>2, <1>3, <1>4 DEF Fair
<1> QED BY <1>5 DEF d, e

Written(a) == [a EXCEPT !.at = "writing", !.todo = Tail(a.todo)]

LEMMA WrittenIs ==
    ASSUME NEW a \in Actions, a.todo # <<>>
    PROVE  LET x == Written(a)
           IN  /\ x \in Actions /\ x.at = "writing" /\ x.todo = Tail(a.todo)
               /\ x.verb = a.verb /\ x.root = a.root /\ x.was = a.was /\ x.own = a.own /\ x.list = a.list
               /\ x.held = a.held /\ x.number = a.number /\ x.made = a.made
<1>1. "writing" \in Ats
  BY DEF Ats
<1>2. a.todo \in Seq(Writes)
  BY DEF Actions
<1> DEFINE t == Tail(a.todo)
<1>3. t \in Seq(Writes)
  BY <1>2
<1> HIDE DEF t
<1>4. /\ [a EXCEPT !.at = "writing", !.todo = t] \in Actions
      /\ [a EXCEPT !.at = "writing", !.todo = t].at = "writing"
      /\ [a EXCEPT !.at = "writing", !.todo = t].todo = t
  BY <1>1, <1>3 DEF Actions
<1> QED BY <1>4 DEF Written, Actions, t

\* What one write is, under the invariant.
LEMMA WriteIs ==
    ASSUME IInv, NEW p \in Proc, Write(p)
    PROVE  LET a == acts[p]
               w == Head(a.todo)
           IN  /\ lock = p /\ a.at \in {"locked", "writing"} /\ a.todo # <<>> /\ w \in Writes
               /\ files' = [files EXCEPT ![w.name] = w.to] /\ files' \in Homes /\ Good(files')
               /\ Fair(a.verb, a.root, files, files')
               /\ Leads(a, stopped, Here(files'), Tail(a.todo))
               /\ acts' = [acts EXCEPT ![p] = Written(a)]
               /\ signed' = IF w.cut THEN signed \cup {w.to} ELSE signed
               /\ UNCHANGED <<lock, resident, begun, stops, stopped>>
<1> DEFINE a == acts[p]
           w == Head(a.todo)
           t == a.todo
           f == Here(files)
           g == Put(f, w)
<1>1. /\ a.at \in {"locked", "writing"} /\ t # <<>>
      /\ files' = [files EXCEPT ![w.name] = w.to]
      /\ acts' = [acts EXCEPT ![p].at = "writing", ![p].todo = Tail(t)]
      /\ signed' = IF w.cut THEN signed \cup {w.to} ELSE signed
      /\ UNCHANGED <<lock, resident, begun, stops, stopped>>
  BY DEF Write
<1>2. files \in Homes /\ a \in Actions
  BY ActIs DEF IInv, Shape
<1>3. lock = p
  BY <1>1 DEF IInv, Shape
<1>4. PICK h : Path(a.verb, a.root, stopped, f, t, h) /\ Ends(a, stopped, h)
  BY <1>3 DEF IInv, InFlight, Leads
<1>5. w \in Writes /\ Fair(a.verb, a.root, f, g) /\ Path(a.verb, a.root, stopped, g, Tail(t), h)
  <2> HIDE DEF a, f
  <2> QED BY <1>1, <1>4, PathHead
<1>6. files' \in Homes /\ Here(files') = g
  <2>1. w \in Writes
    BY <1>5
  <2> HIDE DEF w
  <2> QED BY <2>1, <1>1, <1>2, HerePut
<1>7. Good(files')
  <2>1. Sound(a.verb, stopped, g)
    BY <1>5, PathSound
  <2> QED BY <2>1, <1>6, HereReads DEF Sound
<1>8. Fair(a.verb, a.root, files, files')
  BY <1>2, <1>5, <1>6, HereFair
<1>9. Leads(a, stopped, Here(files'), Tail(t))
  BY <1>4, <1>5, <1>6 DEF Leads
<1>10. acts' = [acts EXCEPT ![p] = Written(a)]
  <2> DEFINE s == Tail(t)
  <2>1. acts' = [acts EXCEPT ![p].at = "writing", ![p].todo = s] /\ Written(a) = [a EXCEPT !.at = "writing", !.todo = s]
    BY <1>1 DEF Written
  <2> HIDE DEF s
  <2> QED BY <2>1, <1>2 DEF Actions, IInv, Shape
<1> QED BY <1>1, <1>3, <1>5, <1>6, <1>7, <1>8, <1>9, <1>10

\* The next of two writes at most.
LEMMA NextOfTwo ==
    ASSUME NEW t, NEW x, NEW y, x.name # y.name, t \in {<<>>, <<x>>, <<y>>, <<x, y>>}, t # <<>>
    PROVE  /\ Head(t) = x \/ Head(t) = y
           /\ Head(t) = x => t \in {<<x>>, <<x, y>>} /\ Tail(t) \in {<<>>, <<y>>}
           /\ Head(t) = y => t = <<y>> /\ Tail(t) = <<>>
           /\ Head(t) = x /\ Tail(t) \in {<<>>, <<x>>} => t = <<x>>
<1>1. x # y
  OBVIOUS
<1>2. /\ Head(<<x>>) = x /\ Head(<<y>>) = y /\ Head(<<x, y>>) = x
      /\ Tail(<<x>>) = <<>> /\ Tail(<<y>>) = <<>> /\ Tail(<<x, y>>) = <<y>>
  OBVIOUS
<1>3. <<y>> # <<x>> /\ <<y>> # <<>> /\ <<x>> # <<>>
  BY <1>1
<1>4. CASE t = <<x>>
  BY <1>4, <1>1, <1>2
<1>5. CASE t = <<y>>
  BY <1>5, <1>1, <1>2
<1>6. CASE t = <<x, y>>
  BY <1>6, <1>1, <1>2, <1>3
<1> QED BY <1>4, <1>5, <1>6

LEMMA CopyWritten ==
    ASSUME NEW a, NEW f \in Homes, NEW g \in Homes, NEW w \in Writes, NEW x, CopyTodo(a, f),
           a.todo # <<>>, w = Head(a.todo), g = [f EXCEPT ![w.name] = w.to], a.at \in {"locked", "writing"},
           x.at = "writing", x.todo = Tail(a.todo), x.verb = a.verb, x.root = a.root, x.held = a.held
    PROVE  CopyTodo(x, g)
<1> DEFINE l == File("copyList", f.list)
           k == File("copyKey", f.root)
           r == File("root", None)
           t == a.todo
<1>1. /\ l.name = "copyList" /\ l.to = f.list /\ k.name = "copyKey" /\ k.to = f.root
      /\ r.name = "root" /\ r.to = None
  BY DEF File
<1>2. f \in Files
  BY DEF Homes
<1>3. w = l => g.copyList = f.list /\ g.list = f.list /\ g.root = f.root /\ g.copyKey = f.copyKey
                 /\ f.list \in Lists
  <2>1. ASSUME w = l
        PROVE  g.copyList = f.list /\ g.list = f.list /\ g.root = f.root /\ g.copyKey = f.copyKey
    BY <2>1, <1>1, <1>2 DEF Files
  <2>2. ASSUME w = l PROVE w.to \in Lists
    BY <2>2, <1>1 DEF Writes
  <2> QED BY <2>1, <2>2, <1>1
<1>4. w = k => g.copyKey = f.root /\ g.copyList = f.copyList /\ g.list = f.list /\ g.root = f.root
  BY <1>1, <1>2 DEF Files
<1>5. w = r => g.copyKey = f.copyKey /\ g.copyList = f.copyList /\ g.list = f.list
  BY <1>1, <1>2 DEF Files
<1>6. l.name # k.name /\ l.name # r.name
  BY <1>1
<1>7. \A h \in Lists : h # None /\ h.number \in Nat
  BY NoneApart DEF Lists, List
<1>8. File("copyList", g.list) = File("copyList", f.list) <=> g.list = f.list
  BY DEF File
<1>9. CASE a.verb = "backup"
  <2>1. /\ t \in {<<>>, <<l>>, <<k>>, <<l, k>>}
        /\ t \in {<<>>, <<k>>} => f.list = None \/ f.copyList # None
        /\ t \in {<<>>, <<l>>} => a.held = f.root \/ f.copyKey = f.root
    BY <1>9 DEF CopyTodo
  <2> HIDE DEF l, k, r, t
  <2>2. /\ w = l \/ w = k
        /\ w = l => Tail(t) \in {<<>>, <<k>>}
        /\ w = k => t = <<k>> /\ Tail(t) = <<>>
        /\ w = l /\ Tail(t) \in {<<>>, <<l>>} => t = <<l>>
    <3>1. t # <<>> /\ w = Head(t)
      BY DEF t
    <3> QED BY <3>1, <2>1, <1>6, NextOfTwo
  <2>3. g.list = f.list /\ g.root = f.root
    BY <2>2, <1>3, <1>4
  <2>4. g.list = None \/ g.copyList # None
    BY <2>1, <2>2, <1>3, <1>4, <1>7
  <2>5. Tail(t) \in {<<>>, <<l>>} => a.held = g.root \/ g.copyKey = g.root
    BY <2>1, <2>2, <1>3, <1>4
  <2>6. l = File("copyList", g.list) /\ k = File("copyKey", g.root)
    BY <2>3 DEF l, k
  <2>7. x.todo = Tail(t) /\ x.verb = "backup"
    BY <1>9 DEF t
  <2>8. x.todo \in {<<>>, <<l>>, <<k>>, <<l, k>>}
    BY <2>2, <2>7
  <2> QED BY <2>4, <2>5, <2>6, <2>7, <2>8 DEF CopyTodo
<1>10. CASE a.verb = "forget"
  <2>1. /\ f.copyKey = a.root /\ f.list # None /\ f.copyList # None
        /\ t \in {<<>>, <<l>>, <<r>>, <<l, r>>}
        /\ t \in {<<>>, <<r>>} => f.copyList.number >= f.list.number
    BY <1>10 DEF CopyTodo
  <2> HIDE DEF l, k, r, t
  <2>2. /\ w = l \/ w = r
        /\ w = l => Tail(t) \in {<<>>, <<r>>}
        /\ w = r => t = <<r>> /\ Tail(t) = <<>>
    <3>1. t # <<>> /\ w = Head(t)
      BY DEF t
    <3> QED BY <3>1, <2>1, <1>6, NextOfTwo
  <2>3. g.list = f.list /\ g.copyKey = f.copyKey /\ g.copyList # None
    BY <2>1, <2>2, <1>3, <1>5, <1>7
  <2>4. g.copyList.number >= g.list.number
    BY <2>1, <2>2, <1>3, <1>5, <1>7
  <2>5. l = File("copyList", g.list)
    BY <2>3 DEF l
  <2>6. x.todo = Tail(t) /\ x.verb = "forget" /\ x.root = a.root
    BY <1>10 DEF t
  <2>7. x.todo \in {<<>>, <<l>>, <<r>>, <<l, r>>}
    BY <2>2, <2>6
  <2> QED BY <2>1, <2>3, <2>4, <2>5, <2>6, <2>7 DEF CopyTodo, r
<1>11. CASE a.verb # "backup" /\ a.verb # "forget"
  BY <1>11 DEF CopyTodo
<1> QED BY <1>9, <1>10, <1>11

LEMMA WriteKeeps == ASSUME IInv, NEW p \in Proc, Write(p) PROVE IInv'
<1> DEFINE a == acts[p]
           x == Written(a)
           w == Head(a.todo)
           f == files
           g == files'
<1>1. /\ lock = p /\ a.at \in {"locked", "writing"} /\ a.todo # <<>> /\ w \in Writes
      /\ g = [f EXCEPT ![w.name] = w.to] /\ g \in Homes /\ Good(g)
      /\ Fair(a.verb, a.root, f, g)
      /\ Leads(a, stopped, Here(g), Tail(a.todo))
      /\ acts' = [acts EXCEPT ![p] = x]
      /\ signed' = IF w.cut THEN signed \cup {w.to} ELSE signed
      /\ UNCHANGED <<lock, resident, begun, stops, stopped>>
  BY WriteIs
<1>2. a \in Actions /\ Read(a, f) /\ f \in Homes
  BY ActIs DEF IInv, Shape
<1>3. /\ x \in Actions /\ x.at = "writing" /\ x.todo = Tail(a.todo)
      /\ x.verb = a.verb /\ x.root = a.root /\ x.own = a.own /\ x.held = a.held /\ x.made = a.made
  BY <1>1, <1>2, WrittenIs
<1>4. acts'[p] = x /\ \A q \in Proc \ {p} : acts'[q] = acts[q]
  BY <1>1 DEF IInv, Shape
<1>5. \A q \in Proc \ {p} : acts[q].at \notin {"locked", "writing"}
  BY <1>1 DEF IInv, Shape
<1> HIDE DEF x
<1>6. Shape'
  <2>1. acts' \in [Proc -> Actions]
    BY <1>1, <1>3 DEF IInv, Shape
  <2>2. \A q \in Proc : acts'[q].at \in {"locked", "writing"} <=> lock' = q
    BY <1>1, <1>3, <1>4, <1>5
  <2>3. signed' \subseteq Lists /\ signed \subseteq signed'
    <3>1. w.cut => w.to \in Lists
      BY <1>1 DEF Writes
    <3> QED BY <3>1, <1>1 DEF IInv, Shape
  <2> QED BY <2>1, <2>2, <2>3, <1>1 DEF IInv, Shape
<1>7. NamedVerb'
  BY <1>1, NoneProc DEF NamedVerb
<1>8. /\ LiveRoot(g) # None =>
           \/ LiveRoot(f) = LiveRoot(g) /\ g.list = f.list
           \/ g.list # None /\ g.list.root = LiveRoot(g)
           \/ a.verb = "mint" /\ LiveRoot(g) = a.root /\ f.root # a.root
      /\ g.key # f.key => a.verb = "new key" /\ g.key # FirstKey
  BY <1>1 DEF Fair, ListStays
<1>9. ASSUME NEW q \in Proc PROVE Read(acts'[q], g)
  <2>1. CASE q = p
    <3>1. Reading(x)
      BY <1>1, <1>2, <1>3 DEF Read, Reading
    <3>2. FirstRead(x, g)
      BY <1>1, <1>2, <1>3, <1>8 DEF Read, FirstRead
    <3>3. Pasted(x) /\ StillOwn(x, g)
      BY <1>3 DEF Pasted, StillOwn
    <3>4. CopyTodo(x, g)
      BY <1>1, <1>2, <1>3, CopyWritten DEF Read
    <3> QED BY <2>1, <3>1, <3>2, <3>3, <3>4, <1>4 DEF Read
  <2>2. CASE q # p
    <3> DEFINE b == acts[q]
    <3>1. Read(b, f) /\ acts'[q] = b /\ b.at \notin {"locked", "writing"}
      BY <2>2, <1>4, <1>5 DEF IInv
    <3>2. FirstRead(b, g)
      BY <3>1, <1>8 DEF Read, FirstRead
    <3>3. StillOwn(b, g)
      <4> SUFFICES ASSUME b.verb = "finish", b.at = "asked", LiveRoot(g) = b.root
                   PROVE  /\ b.list # None => g.list # None
                          /\ g.list # None => g.list.root = b.root
        BY DEF StillOwn
      <4>1. b.root # None
        BY <3>1 DEF Read, Reading
      <4>2. ~(a.verb = "mint" /\ LiveRoot(g) = a.root /\ f.root # a.root)
        <5>1. Unborn(a, f) /\ a.root = b.root => b.verb = "revoke"
          BY <2>2 DEF IInv, Unheard, Alone
        <5> QED BY <5>1, <1>1 DEF Unborn
      <4> QED BY <4>1, <4>2, <3>1, <1>8 DEF Read, StillOwn
    <3>4. CopyTodo(b, g)
      <4>1. f.copyList # None => g.copyList # None
        <5>1. w.name = "copyList" => w.to \in Lists
          BY <1>1 DEF Writes
        <5>2. g.copyList = IF w.name = "copyList" THEN w.to ELSE f.copyList
          BY <1>1, <1>2 DEF Homes, Files
        <5> QED BY <5>1, <5>2, NoneApart
      <4> QED BY <4>1, <3>1 DEF Read, CopyTodo
    <3> QED BY <3>1, <3>2, <3>3, <3>4 DEF Read
  <2> QED BY <2>1, <2>2
<1>10. Unheard'
  <2>1. ASSUME NEW q \in Proc, Unborn(acts'[q], files') PROVE Alone(q, acts[q])'
    <3>1. \A o \in Proc : acts'[o].root = acts[o].root /\ acts'[o].verb = acts[o].verb
      BY <1>3, <1>4
    <3>2. Unborn(acts[q], f)
      <4>1. CASE q = p
        <5>1. a.verb = "mint" /\ f.root = a.root => g.root = a.root
          BY <1>1 DEF Fair
        <5> QED BY <4>1, <5>1, <2>1, <1>1, <1>3, <1>4 DEF Unborn
      <4>2. CASE q # p
        BY <4>2, <2>1, <1>4, <1>5 DEF Unborn
      <4> QED BY <4>1, <4>2
    <3>3. Alone(q, acts[q])
      BY <3>2 DEF IInv, Unheard
    <3>4. acts[q].root # None
      BY <3>2 DEF IInv, Read, Reading, Unborn
    <3>5. g.root # acts[q].root
      <4>1. CASE q = p
        BY <4>1, <2>1, <1>3, <1>4 DEF Unborn
      <4>2. CASE q # p
        <5>1. g.root \in {None, f.root} \/ (a.verb \in {"mint", "restore"} /\ g.root = a.root)
          BY <1>1 DEF Fair
        <5>2. a.root = acts[q].root => a.verb = "revoke"
          BY <4>2, <3>3 DEF Alone
        <5> QED BY <5>1, <5>2, <3>3, <3>4 DEF Alone
      <4> QED BY <4>1, <4>2
    <3>6. g.copyKey # acts[q].root
      <4>1. g.copyKey \in {f.copyKey, f.root}
        BY <1>1 DEF Fair
      <4> QED BY <4>1, <3>3 DEF Alone
    <3> QED BY <3>1, <3>3, <3>5, <3>6 DEF Alone
  <2> QED BY <2>1 DEF Unheard
<1>11. Alongside'
  <2>1. Beside(p, a, resident)
    BY DEF IInv, Alongside
  <2>2. NeverBoth'
    <3>1. LivePin(g) # None => LivePin(f) # None \/ a.verb \in Pinning
      BY <1>1 DEF Fair
    <3>2. a.verb \in Pinning => resident.admit = None
      BY <2>1, <1>1 DEF Beside
    <3> QED BY <3>1, <3>2, <1>1 DEF IInv, Alongside, NeverBoth, Admitting
  <2>3. KeyServed'
    <3>1. g.key # f.key => resident.key = None
      BY <2>1, <1>1, <1>8, FreeIs DEF Beside
    <3> QED BY <3>1, <1>1 DEF IInv, Alongside, KeyServed
  <2>4. ASSUME NEW q \in Proc PROVE Beside(q, acts'[q], resident')
    <3>1. CASE q = p
      <4>1. Beside(p, x, resident)
        BY <2>1, <1>1, <1>3 DEF Beside
      <4> QED BY <3>1, <4>1, <1>1, <1>4
    <3>2. CASE q # p
      BY <3>2, <1>1, <1>4 DEF IInv, Alongside
    <3> QED BY <3>1, <3>2
  <2> QED BY <2>2, <2>3, <2>4 DEF Alongside
<1>12. InFlight'
  <2>1. Leads(x, stopped, Here(g), x.todo)
    <3>1. OneVerb(a, x)
      BY <1>3 DEF OneVerb
    <3>2. Leads(a, stopped, Here(g), x.todo)
      BY <1>1, <1>3
    <3> QED BY <3>1, <3>2, LeadsSame
  <2> QED BY <2>1, <1>1, <1>4 DEF InFlight
<1> QED BY <1>1, <1>6, <1>7, <1>9, <1>10, <1>11, <1>12 DEF IInv

\* A verb lets go of home.lock, and of serve.lock.
LEMMA EndKeeps ==
    ASSUME IInv, NEW p \in Proc, lock = p, NEW x \in Actions, acts' = [acts EXCEPT ![p] = x], lock' = None,
           UNCHANGED <<files, signed, begun>>, stops' \in 0 .. MaxStops, stopped' \subseteq Verbs, LetGo(p),
           x.at \notin {"armed", "locked", "writing"}, Read(x, files), ~Unborn(x, files),
           x.root = None \/ (x.root = acts[p].root /\ x.verb = acts[p].verb), NamedVerb'
    PROVE  IInv'
<1>1. acts'[p] = x /\ \A q \in Proc \ {p} : acts'[q] = acts[q]
  BY DEF IInv, Shape
<1>2. \A q \in Proc \ {p} : acts[q].at \notin {"locked", "writing"}
  BY DEF IInv, Shape
<1>3. Alongside' /\ resident' \in Residents
  BY ServeLetGo
<1>4. Shape'
  <2>1. acts' \in [Proc -> Actions]
    BY DEF IInv, Shape
  <2>2. \A q \in Proc : acts'[q].at \in {"locked", "writing"} <=> lock' = q
    BY <1>1, <1>2, NoneProc
  <2> QED BY <2>1, <2>2, <1>3 DEF IInv, Shape
<1>5. Good(files)'
  BY DEF IInv
<1>6. \A q \in Proc : Read(acts'[q], files')
  BY <1>1 DEF IInv
<1>7. Unheard'
  <2>1. ASSUME NEW q \in Proc, Unborn(acts'[q], files') PROVE Alone(q, acts[q])'
    <3>1. q # p
      BY <2>1, <1>1
    <3>2. acts'[q] = acts[q] /\ Alone(q, acts[q])
      BY <3>1, <2>1, <1>1 DEF IInv, Unheard
    <3>3. acts[q].root # None
      BY <3>2, <2>1 DEF IInv, Read, Reading, Unborn
    <3>4. ASSUME NEW o \in Proc \ {q}, acts'[o].root = acts[q].root PROVE acts'[o].verb = "revoke"
      <4>1. CASE o = p
        BY <4>1, <3>1, <3>2, <3>3, <3>4, <1>1 DEF Alone
      <4>2. CASE o # p
        BY <4>2, <3>2, <3>4, <1>1 DEF Alone
      <4> QED BY <4>1, <4>2
    <3> QED BY <3>2, <3>4 DEF Alone
  <2> QED BY <2>1 DEF Unheard
<1>8. InFlight'
  BY NoneProc DEF InFlight
<1> QED BY <1>3, <1>4, <1>5, <1>6, <1>7, <1>8 DEF IInv

\* A verb that has written all of its files leaves what it is to leave.
LEMMA AllWritten ==
    ASSUME IInv, NEW p \in Proc, lock = p, acts[p].todo = <<>>
    PROVE  Ends(acts[p], stopped, Here(files))
<1> DEFINE a == acts[p]
           f == Here(files)
           t == a.todo
<1>1. PICK h : Path(a.verb, a.root, stopped, f, t, h) /\ Ends(a, stopped, h)
  BY DEF IInv, InFlight, Leads
<1>2. h = f
  <2> DEFINE v == a.verb
             r == a.root
  <2>1. Path(v, r, stopped, f, <<>>, h)
    BY <1>1
  <2> HIDE DEF v, r, f
  <2> QED BY <2>1, PathEnd
<1> QED BY <1>1, <1>2

\* A restore that put its root here, and now syncs.
Synced(a, n) == [a EXCEPT !.at = "syncing", !.number = n]

LEMMA SyncedIs ==
    ASSUME NEW a \in Actions, NEW n \in Nat
    PROVE  /\ Synced(a, n) \in Actions /\ Synced(a, n).at = "syncing" /\ Synced(a, n).verb = a.verb
           /\ Synced(a, n).root = a.root /\ Synced(a, n).own = a.own
<1> DEFINE s == "syncing"
           y == [a EXCEPT !.at = s]
<1>1. s \in Ats
  BY DEF Ats
<1> HIDE DEF s
<1>2. /\ y \in Actions /\ y.at = s /\ y.verb = a.verb /\ y.root = a.root /\ y.own = a.own
  BY <1>1 DEF Actions
<1>3. Synced(a, n) = [y EXCEPT !.number = n]
  BY DEF Synced, s, Actions
<1> HIDE DEF y
<1>4. /\ [y EXCEPT !.number = n] \in Actions /\ [y EXCEPT !.number = n].at = s
      /\ [y EXCEPT !.number = n].verb = a.verb /\ [y EXCEPT !.number = n].root = a.root
      /\ [y EXCEPT !.number = n].own = a.own
  BY <1>2 DEF Actions
<1> QED BY <1>3, <1>4 DEF s

LEMMA DoneKeeps == ASSUME IInv, NEW p \in Proc, Done(p) PROVE IInv'
<1> DEFINE a == acts[p]
           n == NumberUnder(files.list, a.root)
           synced == a.verb = "restore" /\ StandingOf(files) = Holds(a.root)
           x == IF synced THEN Synced(a, n) ELSE Idle
<1>1. /\ a.at \in {"locked", "writing"} /\ a.todo = <<>> /\ lock' = None
      /\ acts' = [acts EXCEPT ![p] = x] /\ LetGo(p)
      /\ stopped' = IF IsWhole(StandingOf(files)) THEN {} ELSE stopped
      /\ UNCHANGED <<files, signed, begun, stops>>
  BY DEF Done, Synced
<1>2. lock = p /\ a \in Actions /\ Read(a, files) /\ files \in Homes
  BY <1>1, ActIs DEF IInv, Shape
<1>3. n \in Nat
  BY <1>2, HomeFields DEF NumberUnder
<1>4. /\ Synced(a, n) \in Actions /\ Synced(a, n).at = "syncing" /\ Synced(a, n).verb = a.verb
      /\ Synced(a, n).root = a.root /\ Synced(a, n).own = a.own
  BY <1>2, <1>3, SyncedIs
<1>6. synced => Read(Synced(a, n), files) /\ ~Unborn(Synced(a, n), files)
  <2> SUFFICES ASSUME synced PROVE Read(Synced(a, n), files) /\ ~Unborn(Synced(a, n), files)
    OBVIOUS
  <2>1. a.verb = "restore" /\ a.root # None /\ a.own # None
    BY <1>1, <1>2 DEF Read, Reading
  <2> DEFINE y == Synced(a, n)
  <2>2. y.at = "syncing" /\ y.verb = "restore" /\ y.root = a.root /\ y.own = a.own
    BY <2>1, <1>4
  <2> HIDE DEF y
  <2>3. Reading(y)
    BY <2>1, <2>2 DEF Reading
  <2>4. FirstRead(y, files)
    BY <2>1, <2>2, <1>1, <1>2 DEF Read, FirstRead
  <2>5. Pasted(y) /\ StillOwn(y, files) /\ CopyTodo(y, files) /\ ~Unborn(y, files)
    BY <2>2 DEF Pasted, StillOwn, CopyTodo, Unborn
  <2> QED BY <2>3, <2>4, <2>5 DEF Read, y
<1>7. /\ x \in Actions /\ x.at \notin {"armed", "locked", "writing"} /\ Read(x, files) /\ ~Unborn(x, files)
      /\ x.root = None \/ (x.root = a.root /\ x.verb = a.verb)
  <2>1. CASE synced
    BY <2>1, <1>4, <1>6
  <2>2. CASE ~synced
    BY <2>2, IdleIs, IdleReads
  <2> QED BY <2>1, <2>2
<1>8. stopped' \subseteq Verbs /\ stops' \in 0 .. MaxStops
  BY <1>1 DEF IInv, Shape
<1>9. NamedVerb'
  <2>1. IsWhole(StandingOf(files)) => Named(files, stopped')
    BY DEF Named
  <2>2. files.key = FirstKey => Named(files, stopped)
    <3>1. Ends(a, stopped, Here(files))
      BY <1>1, <1>2, AllWritten
    <3>2. Here(files).key = files.key
      BY <1>2, HereIs DEF Alike
    <3> QED BY <3>1, <3>2, <1>2, HereReads DEF Ends
  <2> QED BY <2>1, <2>2, <1>1 DEF NamedVerb
<1> HIDE DEF x, synced, n
<1> QED BY <1>1, <1>2, <1>7, <1>8, <1>9, EndKeeps

LEMMA StopKeeps == ASSUME IInv, NEW p \in Proc, Stop(p) PROVE IInv'
<1> DEFINE a == acts[p]
<1>1. /\ a.at = "writing" /\ stops < MaxStops /\ stops' = stops + 1 /\ stopped' = stopped \cup {a.verb}
      /\ lock' = None /\ acts' = [acts EXCEPT ![p] = Idle] /\ LetGo(p)
      /\ UNCHANGED <<files, signed, begun>>
  BY DEF Stop
<1>2. lock = p /\ a \in Actions /\ Read(a, files) /\ files \in Homes
  BY <1>1, ActIs DEF IInv, Shape
<1>3. stopped' \subseteq Verbs
  <2>1. a.verb # "none"
    BY <1>1, <1>2 DEF Read, Reading
  <2> QED BY <2>1, <1>1, <1>2 DEF IInv, Shape, Actions
<1>4. stops' \in 0 .. MaxStops
  BY <1>1, HomeAssumption DEF IInv, Shape
<1>5. NamedVerb'
  <2>1. PICK h : Path(a.verb, a.root, stopped, Here(files), a.todo, h)
    BY <1>2 DEF IInv, InFlight, Leads
  <2>2. Sound(a.verb, stopped, Here(files))
    BY <2>1, PathSound
  <2>3. files.key = FirstKey => Named(files, stopped \cup {a.verb})
    BY <2>2, <1>2, HereIs, HereReads DEF Sound, Alike
  <2> QED BY <2>3, <1>1 DEF NamedVerb
<1>6. /\ Idle \in Actions /\ Idle.at \notin {"armed", "locked", "writing"} /\ Idle.root = None
      /\ Read(Idle, files) /\ ~Unborn(Idle, files)
  BY IdleIs, IdleReads
<1> QED BY <1>1, <1>2, <1>3, <1>4, <1>5, <1>6, EndKeeps

-----------------------------------------------------------------------------
(* The invariant holds from the start, and every step keeps it. *)

LEMMA FirstListIs ==
    ASSUME NEW r \in Root
    PROVE  /\ FirstList(r) \in Lists /\ FirstList(r).root = r /\ FirstKey \in FirstList(r).rows
           /\ After(FirstList(r), FirstKey) \in Lists
<1>1. FirstList(r) \in Lists /\ FirstList(r).root = r /\ FirstKey \in FirstList(r).rows
  BY HomeAssumption DEF FirstList, Lists, List
<1> QED BY <1>1, AfterIs

LEMMA PrintedIs ==
    /\ Printed \in Actions /\ Printed.at = "printed" /\ Printed.verb = "join" /\ Printed.root = None
    /\ Printed.made = FirstKey
<1> DEFINE v == "join"
           s == "printed"
           y == [Idle EXCEPT !.verb = v]
           z == [y EXCEPT !.at = s]
<1>1. v \in Verbs /\ s \in Ats
  BY DEF Verbs, Ats
<1>2. Printed = [z EXCEPT !.made = FirstKey]
  BY IdleIs DEF Printed, Actions
<1> HIDE DEF v, s
<1>3. y \in Actions /\ y.verb = v /\ y.root = None
  BY <1>1, IdleIs DEF Actions
<1> HIDE DEF y
<1>4. z \in Actions /\ z.at = s /\ z.verb = v /\ z.root = None
  BY <1>1, <1>3 DEF Actions
<1> HIDE DEF z
<1>5. LET x == [z EXCEPT !.made = FirstKey]
      IN  x \in Actions /\ x.at = s /\ x.verb = v /\ x.root = None /\ x.made = FirstKey
  BY <1>4, HomeAssumption DEF Actions
<1> QED BY <1>2, <1>5 DEF v, s

\* The homes there are at first.
LEMMA FirstHomes ==
    ASSUME Init
    PROVE  /\ files \in Homes /\ files.root = None /\ files.revoked = {} /\ files.key = FirstKey
           /\ files.pin # None => files.badge # None /\ files.badge.root = files.pin /\ files.badge.key = FirstKey
                                  /\ files.list # None /\ files.list.root = files.pin
           /\ files.pin = None => files.badge = None
<1>1. PICK r \in Abroad :
         LET device == [Bare EXCEPT !.pin = r, !.badge = [root |-> r, key |-> FirstKey], !.list = FirstList(r)]
             copied(f) == [f EXCEPT !.copyKey = r, !.copyList = FirstList(r)]
         IN  files \in {Bare, device, copied(Bare), copied(device)}
  BY DEF Init
<1>2. r \in Root /\ FirstKey \in Key /\ r # None
  BY HomeAssumption, NoneApart
<1> DEFINE l == FirstList(r)
           b == [root |-> r, key |-> FirstKey]
           device == [Bare EXCEPT !.pin = r, !.badge = b, !.list = l]
           copied(f) == [f EXCEPT !.copyKey = r, !.copyList = l]
<1>3. l \in Lists /\ l.root = r /\ b \in Badge /\ b.root = r /\ b.key = FirstKey /\ l # None /\ b # None
  BY <1>2, FirstListIs, NoneApart DEF Badge
<1>4. files = Bare \/ files = device \/ files = copied(Bare) \/ files = copied(device)
  BY <1>1
<1> HIDE DEF l, b
<1>5. l \in List
  BY <1>3 DEF Lists
<1>6. CASE files = Bare
  BY <1>6, <1>2, <1>3, <1>5 DEF Bare, Homes, Files
<1>7. CASE files = device
  BY <1>7, <1>2, <1>3, <1>5 DEF Bare, Homes, Files
<1>8. CASE files = copied(Bare)
  BY <1>8, <1>2, <1>3, <1>5 DEF Bare, Homes, Files
<1>9. CASE files = copied(device)
  BY <1>9, <1>2, <1>3, <1>5 DEF Bare, Homes, Files
<1> QED BY <1>4, <1>6, <1>7, <1>8, <1>9

LEMMA InitKeeps == ASSUME Init PROVE IInv
<1>1. /\ files \in Homes /\ files.root = None /\ files.revoked = {} /\ files.key = FirstKey
      /\ files.pin # None => files.badge # None /\ files.badge.root = files.pin /\ files.badge.key = FirstKey
                             /\ files.list # None /\ files.list.root = files.pin
      /\ files.pin = None => files.badge = None
  BY FirstHomes
<1>2. /\ lock = None /\ resident = Free /\ stops = 0 /\ stopped = {} /\ begun \in {0, 1}
      /\ signed = {FirstList(r) : r \in Abroad} \cup {After(FirstList(r), FirstKey) : r \in Abroad}
      /\ \E r \in Abroad : TRUE
  BY DEF Init
<1>3. /\ acts \in [Proc -> Actions] /\ \A p \in Proc : acts[p] \in {Idle, Printed}
      /\ begun \in 0 .. MaxActs
  <2>1. acts = [p \in Proc |-> Idle] \/ \E w \in Proc : acts = [p \in Proc |-> IF p = w THEN Printed ELSE Idle]
    BY DEF Init
  <2>2. \A p \in Proc : acts[p] \in {Idle, Printed}
    BY <2>1
  <2>3. Idle \in Actions /\ Printed \in Actions
    BY IdleIs, PrintedIs
  <2>4. acts \in [Proc -> Actions]
    BY <2>1, <2>3
  <2>5. begun \in 0 .. MaxActs
    BY <1>2, HomeAssumption
  <2> QED BY <2>2, <2>4, <2>5
<1>4. ASSUME NEW p \in Proc
      PROVE  /\ acts[p].at \in {"idle", "printed"} /\ acts[p].verb \in {"none", "join"} /\ acts[p].root = None
             /\ acts[p].at = "printed" => acts[p].verb = "join"
             /\ acts[p].at = "idle" => acts[p].verb = "none"
  BY <1>3, IdleIs, PrintedIs
<1>5. LiveRoot(files) = None /\ LivePin(files) = files.pin
  BY <1>1 DEF LiveRoot, LivePin, Live
<1>6. Shape
  <2>1. signed \subseteq Lists /\ \E l \in signed : FirstKey \in l.rows
    BY <1>2, FirstListIs, HomeAssumption
  <2>2. resident \in Residents
    BY <1>2, FreeIs
  <2>3. \A p \in Proc : acts[p].at \in {"locked", "writing"} <=> lock = p
    BY <1>2, <1>4, NoneProc
  <2> QED BY <2>1, <2>2, <2>3, <1>1, <1>2, <1>3, HomeAssumption DEF Shape
<1>7. Good(files)
  BY <1>1, <1>5 DEF Good, OneRoot, DeviceList, HalfMade, Spent
<1>8. NamedVerb
  <2>1. StandingOf(files) = Unpinned \/ StandingOf(files) = Device(files.pin)
    BY <1>1, <1>5, ReadsUnpinned, ReadsDevice
  <2>2. IsWhole(StandingOf(files))
    BY <2>1 DEF IsWhole, Unpinned, Device
  <2> QED BY <2>2 DEF NamedVerb, Named
<1>9. \A p \in Proc : Read(acts[p], files)
  BY <1>4 DEF Read, Reading, FirstRead, Pasted, StillOwn, CopyTodo
<1>10. Unheard
  BY <1>4 DEF Unheard, Unborn
<1>11. Alongside
  <2>1. NeverBoth /\ KeyServed
    BY <1>2, FreeIs DEF NeverBoth, KeyServed, Admitting
  <2> QED BY <2>1, <1>4 DEF Alongside, Beside
<1>12. InFlight
  BY <1>2, NoneProc DEF InFlight
<1> QED BY <1>6, <1>7, <1>8, <1>9, <1>10, <1>11, <1>12 DEF IInv

LEMMA StutterKeeps == ASSUME IInv, UNCHANGED vars PROVE IInv'
BY DEF vars, IInv, Shape, NamedVerb, Unheard, Alone, Alongside, NeverBoth, KeyServed, Admitting, InFlight

LEMMA VerbKeeps == ASSUME IInv, NEW p \in Proc, Verb(p) PROVE IInv'
<1>0. Abroad \subseteq Root
  BY HomeAssumption
<1>1. ASSUME NEW r \in Root, AskJoin(p, r) \/ AskMint(p, r) \/ AskRevoke(p, r) PROVE IInv'
  BY <1>1, AskJoinKeeps, AskMintKeeps, AskRevokeKeeps
<1>2. CASE AskLeave(p) \/ AskNewKey(p) \/ AskFinish(p) \/ AskRestore(p) \/ AskBackup(p) \/ AskForget(p)
  BY <1>2, AskLeaveKeeps, AskNewKeyKeeps, AskFinishKeeps, AskRestoreKeeps, AskBackupKeeps, AskForgetKeeps
<1>3. CASE HoldServe(p) \/ PutKey(p)
  BY <1>3, HoldServeKeeps, PutKeyKeeps
<1>4. ASSUME NEW k \in Key, NewKey(p, k) \/ \E r \in Abroad : Paste(p, r, k) PROVE IInv'
  BY <1>0, <1>4, NewKeyKeeps, PasteKeeps
<1>5. CASE Join(p) \/ Leave(p) \/ Mint(p) \/ Finish(p) \/ Backup(p) \/ Revoke(p)
  BY <1>5, JoinKeeps, LeaveKeeps, MintKeeps, FinishKeeps, BackupKeeps, RevokeKeeps
<1>6. ASSUME NEW b \in BOOLEAN, Restore(p, b) \/ Forget(p, b) PROVE IInv'
  BY <1>6, RestoreKeeps, ForgetKeeps
<1>7. CASE Revoked(p) \/ Undo(p) \/ Newer(p) \/ Recut(p)
  BY <1>7, RevokedKeeps, UndoKeeps, NewerKeeps, RecutKeeps
<1>8. CASE Write(p) \/ Done(p) \/ Stop(p) \/ Refuse(p)
  BY <1>8, WriteKeeps, DoneKeeps, StopKeeps, RefuseKeeps
<1> QED BY <1>1, <1>2, <1>3, <1>4, <1>5, <1>6, <1>7, <1>8 DEF Verb

LEMMA StepKeeps == ASSUME IInv, [Step]_vars PROVE IInv'
<1>0. Abroad \subseteq Root
  BY HomeAssumption
<1>1. ASSUME NEW p \in Proc, Verb(p) PROVE IInv'
  BY <1>1, VerbKeeps
<1>2. CASE Serve
  BY <1>0, <1>2, StartServeKeeps, ServeKeyKeeps, AdmitKeeps, StopServeKeeps DEF Serve
<1>3. CASE Elsewhere
  BY <1>3, UseCopyKeeps, HearKeeps DEF Elsewhere
<1>4. CASE UNCHANGED vars
  BY <1>4, StutterKeeps
<1> QED BY <1>1, <1>2, <1>3, <1>4 DEF Step

\* What the files are, what each verb has read, and where each verb's files still to write lead, at every step of any
\* verbs at once: what the results below are read from.
THEOREM Inductive == Spec => []IInv
<1>1. Init => IInv
  BY InitKeeps
<1>2. IInv /\ [Step]_vars => IInv'
  BY StepKeeps
<1> QED BY <1>1, <1>2, PTL DEF Spec

-----------------------------------------------------------------------------
(* What it gives. *)

LEMMA ActionsActs == Actions \subseteq Acts
<1>1. Lists \subseteq List
  BY DEF Lists
<1>2. Writes \subseteq Writing
  BY <1>1 DEF Writes, Writing
<1>3. Seq(Writes) \subseteq Seq(Writing)
  BY <1>2
<1> QED BY <1>1, <1>3 DEF Actions, Acts, Ats

\* Every file holds what its kind allows, only the process with home.lock writes, no pin is beside a serve that
\* admits another root's devices, and the machine's key is the one its serve runs as: for any commands at once.
THEOREM ServeInStep == Spec => []InStep
<1>1. IInv => InStep
  <2> SUFFICES ASSUME IInv PROVE InStep
    OBVIOUS
  <2>1. files \in Files /\ signed \subseteq List
    BY DEF IInv, Shape, Homes, Lists
  <2>2. acts \in [Proc -> Acts]
    BY ActionsActs DEF IInv, Shape
  <2>3. TypeOK
    BY <2>1, <2>2 DEF IInv, Shape, TypeOK, Residents
  <2> QED BY <2>3 DEF IInv, Alongside, InStep
<1> QED BY <1>1, Inductive, PTL

\* Whatever verbs ran at once and stopped between two files, the home then reads as whole, or as what one of those
\* verbs is to finish: standing.rs names every other reading damage.
THEOREM NeverUnnamed == Spec => []NamedVerb
<1>1. IInv => NamedVerb
  BY DEF IInv
<1> QED BY <1>1, Inductive, PTL

\* Between any two files of any verbs, a machine with a standing has no list but its own root's.
THEOREM ListIsOwn == Spec => []OwnList
<1>1. IInv => OwnList
  <2> SUFFICES ASSUME IInv, StandingOf(files).is \in {"device", "holds"}, files.list # None
               PROVE  files.list.root = LivePin(files)
    BY DEF OwnList
  <2>1. files \in Homes /\ Good(files)
    BY DEF IInv, Shape
  <2>2. StandingOf(files) = Device(LivePin(files)) \/ StandingOf(files) = Holds(LiveRoot(files))
    BY <2>1, Readings
  <2> QED BY <2>1, <2>2, ReadsDevice, ReadsHolds DEF Good, OneRoot, DeviceList
<1> QED BY <1>1, Inductive, PTL

\* What a verb's promise rests on, but for a backup and a forget, is not the copy's list.
LEMMA PromiseHere ==
    ASSUME NEW a, NEW f \in Homes, a.verb \in Verbs \ {"backup", "forget"}
    PROVE  /\ Missed(a, Here(f)) => Missed(a, f)
           /\ Promise(a, Here(f)) => Promise(a, f)
<1> DEFINE h == Here(f)
<1>1. /\ StandingOf(h) = StandingOf(f) /\ h.list = f.list /\ h.key = f.key /\ h.root = f.root
      /\ h.revoked = f.revoked /\ h.copyKey = f.copyKey
  BY HereIs, HereReads DEF Alike
<1> HIDE DEF h
<1>2. Missed(a, h) => Missed(a, f)
  BY <1>1 DEF Missed
<1>3. OwnRevoked(h, a.root) = OwnRevoked(f, a.root)
  BY <1>1 DEF OwnRevoked
<1>4. Promise(a, h) => Promise(a, f)
  BY <1>1, <1>3 DEF Promise, Verbs
<1> QED BY <1>2, <1>4 DEF h

\* A verb that reports success leaves what it says it did, whatever ran beside it, unless what it asked before
\* home.lock and not again under it has changed.
THEOREM VerbsComplete == Spec => []Completes
<1>1. IInv => Completes
  <2> SUFFICES ASSUME IInv, NEW p \in Proc, acts[p].at \in {"locked", "writing"}, acts[p].todo = <<>>,
                      ~Missed(acts[p], files)
               PROVE  Promise(acts[p], files)
    BY DEF Completes
  <2> DEFINE a == acts[p]
             t == a.todo
  <2>1. lock = p /\ a \in Actions /\ Read(a, files) /\ files \in Homes /\ Good(files)
    BY ActIs DEF IInv, Shape
  <2>2. Ends(a, stopped, Here(files))
    BY <2>1, AllWritten
  <2>3. a.verb \in Verbs
    BY <2>1 DEF Read, Reading, Actions
  <2>4. CASE a.verb = "backup"
    <3>1. /\ files.list = None \/ files.copyList # None
          /\ a.held = files.root \/ files.copyKey = files.root
      BY <2>1, <2>4 DEF Read, CopyTodo
    <3>2. ASSUME StandingOf(files) = Holds(a.root) PROVE files.copyKey = a.root /\ files.copyList # None
      <4>1. LiveRoot(files) # None /\ LiveRoot(files) = a.root /\ LivePin(files) = LiveRoot(files)
        BY <3>2, ReadsHolds
      <4>2. files.root = a.root /\ a.root # None
        BY <4>1 DEF LiveRoot, Live
      <4>3. files.list # None
        BY <4>1, <2>1 DEF Good, OneRoot
      <4>4. a.held \in {None, files.copyKey}
        BY <2>4 DEF Missed
      <4> QED BY <3>1, <4>2, <4>3, <4>4
    <3> QED BY <3>2, <2>4 DEF Promise
  <2>5. CASE a.verb = "forget"
    <3>1. files.copyKey = a.root /\ files.copyList.number >= files.list.number
      BY <2>1, <2>5 DEF Read, CopyTodo
    <3> QED BY <3>1, <2>5 DEF Promise
  <2>6. CASE a.verb \notin {"backup", "forget"}
    <3>1. a.verb \in Verbs \ {"backup", "forget"}
      BY <2>3, <2>6
    <3> HIDE DEF a
    <3>2. ~Missed(a, Here(files))
      BY <3>1, <2>1, PromiseHere DEF a
    <3> QED BY <3>1, <3>2, <2>1, <2>2, <2>6, PromiseHere DEF Ends, a
  <2> QED BY <2>4, <2>5, <2>6
<1> QED BY <1>1, Inductive, PTL

\* Only a verb's write takes a root's key off this home, or a copy's out of its directory.
LEMMA OnlyWrites ==
    ASSUME IInv, [Step]_vars, \A p \in Proc : ~Write(p)
    PROVE  files'.root = files.root /\ files'.copyKey = files.copyKey
<1>0. files \in Files
  BY DEF IInv, Shape, Homes
<1>1. ASSUME NEW p \in Proc, Verb(p) PROVE files'.root = files.root /\ files'.copyKey = files.copyKey
  <2>1. ASSUME NEW r \in Root, AskJoin(p, r) \/ AskMint(p, r) \/ AskRevoke(p, r) PROVE files' = files
    BY <2>1 DEF AskJoin, AskMint, AskRevoke, Begin
  <2>2. CASE AskLeave(p) \/ AskNewKey(p) \/ AskFinish(p) \/ AskRestore(p) \/ AskBackup(p) \/ AskForget(p)
    BY <2>2 DEF AskLeave, AskNewKey, AskFinish, AskRestore, AskBackup, AskForget, Begin
  <2>3. CASE HoldServe(p)
    BY <2>3 DEF HoldServe
  <2>4. CASE PutKey(p)
    BY <2>4, <1>0 DEF PutKey, Files
  <2>5. ASSUME NEW k \in Key, NewKey(p, k) \/ \E r \in Abroad : Paste(p, r, k) PROVE files' = files
    BY <2>5 DEF NewKey, Paste, Go
  <2>6. CASE Join(p) \/ Leave(p) \/ Mint(p) \/ Finish(p) \/ Backup(p)
    BY <2>6 DEF Join, Leave, Mint, Finish, Backup, Go
  <2>7. CASE Revoke(p)
    BY <2>7 DEF Revoke, Go
  <2>8. ASSUME NEW b \in BOOLEAN, Restore(p, b) \/ Forget(p, b) PROVE files' = files
    BY <2>8 DEF Restore, Forget, Go
  <2>9. CASE Revoked(p) \/ Undo(p) \/ Newer(p) \/ Recut(p)
    BY <2>9 DEF Revoked, Undo, Newer, Recut, Go
  <2>10. CASE Done(p) \/ Stop(p) \/ Refuse(p)
    BY <2>10 DEF Done, Stop, Refuse
  <2> QED BY <1>1, <2>1, <2>2, <2>3, <2>4, <2>5, <2>6, <2>7, <2>8, <2>9, <2>10 DEF Verb
<1>2. CASE Serve
  BY <1>2 DEF Serve, StartServe, ServeKey, StopServe, Admit
<1>3. CASE Elsewhere
  <2>1. ASSUME NEW k \in Key \cup {None}, UseCopy(k) PROVE files'.root = files.root /\ files'.copyKey = files.copyKey
    BY <2>1, <1>0 DEF UseCopy, Files
  <2>2. ASSUME NEW l \in signed, Hear(l) PROVE files'.root = files.root /\ files'.copyKey = files.copyKey
    BY <2>2, <1>0 DEF Hear, Files
  <2> QED BY <1>3, <2>1, <2>2 DEF Elsewhere
<1>4. CASE UNCHANGED vars
  BY <1>4 DEF vars
<1> QED BY <1>1, <1>2, <1>3, <1>4 DEF Step

\* The only key of a root is never lost while that root counts here: no step of any verb takes its last copy, but
\* one of a root revoked here, of an undo, or of a backup whose reading is stale.
THEOREM LastKeyKept == Spec => Kept
<1> DEFINE Loss ==
      \A r \in Root \ Abroad :
         r \in {files.root, files.copyKey} /\ r \notin {files'.root, files'.copyKey}
         => \/ r \in files.revoked
            \/ \E p \in Proc : lock = p /\ (acts[p].verb = "undo" \/ Stale(acts[p], files))
<1>1. IInv /\ [Step]_vars => Loss
  <2> SUFFICES ASSUME IInv, [Step]_vars, NEW r \in Root \ Abroad, r \in {files.root, files.copyKey},
                      r \notin {files'.root, files'.copyKey}
               PROVE  \/ r \in files.revoked
                      \/ \E p \in Proc : lock = p /\ (acts[p].verb = "undo" \/ Stale(acts[p], files))
    OBVIOUS
  <2>1. PICK p \in Proc : Write(p)
    BY OnlyWrites
  <2> DEFINE a == acts[p]
  <2>2. lock = p /\ Loses(a.verb, files, files') /\ a.at \in {"locked", "writing"}
    BY <2>1, WriteIs DEF Fair
  <2>3. r \in files.revoked \/ a.verb = "undo"
        \/ (a.verb = "backup" /\ files'.root = files.root /\ files'.copyKey = files.root)
    BY <2>2 DEF Loses
  <2>4. ASSUME a.verb = "backup", files'.root = files.root PROVE Stale(a, files)
    <3>1. a.held \in {None, a.root}
      BY <2>2, <2>4, ActIs DEF Read, Reading
    <3>2. r = files.copyKey /\ r # files.root /\ r # None
      BY <2>4, NoneApart
    <3> QED BY <2>4, <3>1, <3>2 DEF Stale
  <2> QED BY <2>2, <2>3, <2>4
<1>2. IInv /\ [Step]_vars => [Loss]_files
  BY <1>1
<1> QED BY <1>2, Inductive, PTL DEF Spec, Kept
=============================================================================
