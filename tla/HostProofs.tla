----------------------------- MODULE HostProofs -----------------------------
(***************************************************************************)
(* Proofs about what one home keeps, for any links, keys, targets, books   *)
(* and bounds: the links this machine gives (Links), the lists its serve   *)
(* keeps of files it watches (Watched), what a dial presents (Dial), the   *)
(* key file and its locks (Keys), the address book (People), the list of   *)
(* services (Services), and a start's arguments (Start, Entries).          *)
(***************************************************************************)
EXTENDS MCHost, SequenceTheorems, TLAPS

-----------------------------------------------------------------------------
(* The links: the inductive invariant                                      *)

Steps == {"none", "asked", "signed", "locked", "pruning", "writing", "recorded", "printed", "over"}

LinkShape ==
    [at : Steps, key : Key \cup {None}, made : Target \cup {None}, basis : {"none", "live", "next", "gone"},
     kept : SUBSET Link]

ServeShape ==
    [on : BOOLEAN, key : Key \cup {None}, bound : Target \cup {None}, rows : SUBSET Link, used : SUBSET Once,
     due : BOOLEAN, changed : BOOLEAN, spending : Once \cup {None}]

\* Every variable has its shape.
Shaped ==
    /\ key \in Key \cup {None} /\ saved \in Target /\ lock \in Link \cup {None}
    /\ link \in [Link -> LinkShape]
    /\ expired \subseteq Link /\ spent \subseteq Once
    /\ ledger \in [rows : SUBSET Link, torn : BOOLEAN, readable : BOOLEAN]
    /\ serve \in ServeShape
    /\ admitted \in [Link -> 0 .. 2]
    /\ split \in BOOLEAN

\* A share has home.lock from the moment it takes it to the one it prints; under it the key stays the one it signed
\* with, and a prune drops nothing but expired rows.
UnderLock ==
    \A l \in Link :
        /\ At(l) \in {"locked", "pruning", "writing", "recorded"} <=> lock = l
        /\ At(l) \in {"pruning", "writing", "recorded"} => link[l].key = key
        /\ At(l) = "pruning" => link[l].kept \subseteq ledger.rows /\ ledger.rows \ link[l].kept \subseteq expired

\* A link has a key once it is signed; none has one before this machine has.
Signings ==
    /\ \A l \in Link : At(l) \in {"signed", "locked", "pruning", "writing", "recorded", "printed"} => link[l].key # None
    /\ key = None => \A l \in Link : link[l].key = None

\* A row is of a link that was signed and whose share came to its append: it is written once.
RowsOf ==
    /\ \A l \in ledger.rows : link[l].key # None /\ At(l) \in {"recorded", "printed", "over"}
    /\ \A l \in Link : At(l) = "recorded" => l \in ledger.rows

\* A use that was written is one the gate remembers, is about to, or needs not, for the row is gone for good.
Uses ==
    /\ \A l \in Once : admitted[l] <= 1 /\ (admitted[l] = 1 => l \in spent)
    /\ \A l \in spent : At(l) = "printed"
    /\ serve.spending # None => serve.on /\ At(serve.spending) = "printed" /\ admitted[serve.spending] = 0
    /\ serve.on => \A l \in spent :
          \/ l \in serve.used
          \/ serve.spending = l
          \/ l \notin ledger.rows /\ l \notin serve.rows

IInv == Shaped /\ UnderLock /\ Signings /\ RowsOf /\ RowsTrue /\ Uses /\ GateKnows

-----------------------------------------------------------------------------
(* What the steps leave of links, and of the serve *)

\* Link l has gone to step `to`; the others are as they were.
Went(l, to) ==
    /\ link' \in [Link -> LinkShape]
    /\ link'[l].at = to
    /\ link'[l].key = link[l].key /\ link'[l].made = link[l].made /\ link'[l].basis = link[l].basis
    /\ link'[l].kept = link[l].kept
    /\ \A m \in Link : m # l => link'[m] = link[m]

LEMMA GoesWent ==
    ASSUME Shaped, NEW l \in Link, NEW to \in Steps, Goes(l, to)
    PROVE  Went(l, to)
<1>1. link \in [Link -> LinkShape] /\ link[l] \in LinkShape
  BY DEF Shaped
<1>2. link' = [link EXCEPT ![l] = [link[l] EXCEPT !.at = to]]
  BY <1>1 DEF Goes
<1>3. [link[l] EXCEPT !.at = to] \in LinkShape
  BY <1>1 DEF LinkShape
<1>4. link'[l] = [link[l] EXCEPT !.at = to] /\ \A m \in Link : m # l => link'[m] = link[m]
  BY <1>1, <1>2
<1>5. link' \in [Link -> LinkShape]
  BY <1>1, <1>2, <1>3
<1> QED BY <1>1, <1>4, <1>5 DEF Went, LinkShape

\* The serve s after a look at the ledger, or without one.
Looked(s, r) ==
    /\ r \in ServeShape
    /\ r.on = s.on /\ r.key = s.key /\ r.bound = s.bound /\ r.spending = s.spending
    /\ \/ r.rows = s.rows /\ r.used = s.used /\ r.changed = s.changed
       \/ ledger.readable /\ r.rows = ledger.rows /\ r.used = s.used \cap ledger.rows /\ ~r.changed
       \/ ~ledger.readable /\ r.rows = {} /\ r.used = s.used /\ r.changed

LEMMA ReadLooked ==
    ASSUME Shaped, NEW s \in ServeShape
    PROVE  /\ Looked(s, Read(s))
           /\ \/ ledger.readable /\ Read(s).rows = ledger.rows /\ Read(s).used = s.used \cap ledger.rows
                 /\ ~Read(s).changed
              \/ ~ledger.readable /\ Read(s).rows = {} /\ Read(s).used = s.used /\ Read(s).changed
<1>0. ledger.rows \subseteq Link /\ ledger.readable \in BOOLEAN
  BY DEF Shaped
<1>1. CASE ledger.readable
  <2> DEFINE r == [s EXCEPT !.rows = ledger.rows, !.used = s.used \cap ledger.rows \cap Once,
                            !.due = FALSE, !.changed = FALSE]
  <2>1. Read(s) = r
    BY <1>1 DEF Read, ServeShape
  <2>2. /\ r \in ServeShape
        /\ r.on = s.on /\ r.key = s.key /\ r.bound = s.bound /\ r.spending = s.spending
        /\ r.rows = ledger.rows /\ r.used = s.used \cap ledger.rows /\ r.changed = FALSE
    BY <1>0 DEF ServeShape
  <2> HIDE DEF r
  <2> QED BY <1>1, <2>1, <2>2 DEF Looked
<1>2. CASE ~ledger.readable
  <2> DEFINE r == [s EXCEPT !.rows = {}, !.due = FALSE, !.changed = TRUE]
  <2>1. Read(s) = r
    BY <1>2 DEF Read
  <2>2. /\ r \in ServeShape
        /\ r.on = s.on /\ r.key = s.key /\ r.bound = s.bound /\ r.spending = s.spending
        /\ r.rows = {} /\ r.used = s.used /\ r.changed = TRUE
    BY DEF ServeShape
  <2> HIDE DEF r
  <2> QED BY <1>2, <2>1, <2>2 DEF Looked
<1> QED BY <1>1, <1>2

LEMMA RefreshLooked ==
    ASSUME Shaped
    PROVE  Looked(serve, Refresh(serve))
<1>0. serve \in ServeShape
  BY DEF Shaped
<1>1. CASE ~serve.due
  BY <1>0, <1>1 DEF Refresh, Looked
<1>2. CASE serve.due /\ serve.changed
  BY <1>0, <1>2, ReadLooked DEF Refresh
<1>3. CASE serve.due /\ ~serve.changed
  <2> DEFINE r == [serve EXCEPT !.due = FALSE]
  <2>1. Refresh(serve) = r
    BY <1>3 DEF Refresh
  <2>2. /\ r \in ServeShape
        /\ r.on = serve.on /\ r.key = serve.key /\ r.bound = serve.bound /\ r.spending = serve.spending
        /\ r.rows = serve.rows /\ r.used = serve.used /\ r.changed = serve.changed
    BY <1>0 DEF ServeShape
  <2> HIDE DEF r
  <2> QED BY <2>1, <2>2 DEF Looked
<1> QED BY <1>1, <1>2, <1>3

\* The ledger is written: another stamp, and nothing else of the serve.
Written(rows) ==
    /\ ledger' \in [rows : SUBSET Link, torn : BOOLEAN, readable : BOOLEAN]
    /\ ledger'.rows = rows
    /\ serve' \in ServeShape
    /\ serve'.on = serve.on /\ serve'.rows = serve.rows /\ serve'.used = serve.used
    /\ serve'.spending = serve.spending
    /\ serve.on => serve'.changed

LEMMA WritesWritten ==
    ASSUME Shaped, NEW rows \in SUBSET Link, NEW torn \in BOOLEAN, Writes(rows, torn)
    PROVE  Written(rows)
<1>1. /\ ledger \in [rows : SUBSET Link, torn : BOOLEAN, readable : BOOLEAN]
      /\ serve \in ServeShape
      /\ ledger' = [ledger EXCEPT !.rows = rows, !.torn = torn]
      /\ serve' = [serve EXCEPT !.changed = serve.on]
  BY DEF Shaped, Writes
<1>2. serve.on \in BOOLEAN
  BY <1>1 DEF ServeShape
<1>3. serve' \in ServeShape /\ serve'.changed = serve.on
  BY <1>1, <1>2 DEF ServeShape
<1>4. /\ serve'.on = serve.on /\ serve'.rows = serve.rows /\ serve'.used = serve.used
      /\ serve'.spending = serve.spending
  BY <1>1 DEF ServeShape
<1> QED BY <1>1, <1>3, <1>4 DEF Written

-----------------------------------------------------------------------------
(* The shares *)

Held == {"locked", "pruning", "writing", "recorded"}
Signed == {"signed", "locked", "pruning", "writing", "recorded", "printed"}

\* A step of the share of l that leaves the files, the serve and the key alone, and goes where it may.
ShareStep(l) ==
    /\ UNCHANGED <<key, saved, ledger, spent, split, expired, serve, admitted>>
    /\ link' \in [Link -> LinkShape] /\ \A m \in Link : m # l => link'[m] = link[m]
    /\ lock' \in Link \cup {None} /\ \A m \in Link : m # l => (lock' = m <=> lock = m)
    /\ lock' = l <=> link'[l].at \in Held
    /\ At(l) # "printed"
    /\ link'[l].key = link[l].key
    /\ link'[l].at \in {"pruning", "writing", "recorded"} => link[l].key = key
    /\ link'[l].at = "pruning" => link'[l].kept = ledger.rows \ expired
    /\ link'[l].at \in Signed => link[l].key # None
    /\ l \in ledger.rows => link'[l].at \in {"recorded", "printed", "over"}
    /\ link'[l].at \in {"recorded", "printed"} => l \in ledger.rows

LEMMA ShareStepInv ==
    ASSUME IInv, NEW l \in Link, ShareStep(l)
    PROVE  IInv'
<1>1. Shaped'
  BY DEF IInv, Shaped, ShareStep
<1>2. UnderLock'
  <2> SUFFICES ASSUME NEW m \in Link
               PROVE  /\ At(m)' \in Held <=> lock' = m
                      /\ At(m)' \in {"pruning", "writing", "recorded"} => link'[m].key = key
                      /\ At(m)' = "pruning" =>
                             link'[m].kept \subseteq ledger.rows /\ ledger.rows \ link'[m].kept \subseteq expired
    BY DEF UnderLock, ShareStep, At, Held
  <2>1. CASE m = l
    BY <2>1 DEF ShareStep, At
  <2>2. CASE m # l
    BY <2>2 DEF IInv, UnderLock, ShareStep, At, Held
  <2> QED BY <2>1, <2>2
<1>3. Signings'
  BY DEF IInv, Signings, ShareStep, At, Signed
<1>4. RowsOf' /\ GateKnows'
  BY DEF IInv, RowsOf, GateKnows, ShareStep, At, Shaped
<1>5. RowsTrue'
  <2> SUFFICES ASSUME NEW m \in Link
               PROVE  /\ link'[m].at = "printed" /\ m \notin expired /\ link'[m].key = key => m \in ledger.rows
                      /\ split \/ (m \in ledger.rows => link'[m].key = key)
    BY DEF RowsTrue, ShareStep, At, IInv, Shaped
  <2>1. CASE m = l
    BY <2>1 DEF IInv, RowsTrue, ShareStep
  <2>2. CASE m # l
    BY <2>2 DEF IInv, RowsTrue, ShareStep, At
  <2> QED BY <2>1, <2>2
<1>6. Uses'
  <2>1. l \notin spent /\ serve.spending # l
    BY LinksAssumption DEF IInv, Uses, ShareStep, Shaped
  <2>2. /\ spent \subseteq Link /\ serve.spending \in Link \cup {None} /\ UNCHANGED <<spent, serve, ledger, admitted>>
    BY LinksAssumption DEF IInv, Shaped, ServeShape, ShareStep
  <2>3. \A m \in Link : m # l => At(m)' = At(m)
    BY DEF ShareStep, At
  <2> QED BY <2>1, <2>2, <2>3, LinksAssumption DEF IInv, Uses
<1> QED BY <1>1, <1>2, <1>3, <1>4, <1>5, <1>6 DEF IInv

LEMMA AskInv == IInv /\ (\E l \in Link : Ask(l)) => IInv'
<1> SUFFICES ASSUME IInv, NEW l \in Link, Ask(l)
             PROVE  IInv'
  OBVIOUS
<1> DEFINE target == IF serve.on THEN serve.bound ELSE saved
           to     == IF Refuses(l, target) THEN "over" ELSE "asked"
           basis  == IF serve.on THEN "live" ELSE "next"
           asked  == [link[l] EXCEPT !.at = to, !.made = target, !.basis = basis]
<1>1. /\ At(l) = "none" /\ link' = [link EXCEPT ![l] = asked]
      /\ UNCHANGED <<key, saved, ledger, spent, split, lock, expired, serve, admitted>>
  BY DEF Ask, home
<1>2. /\ link \in [Link -> LinkShape] /\ link[l] \in LinkShape /\ target \in Target \cup {None}
      /\ to \in {"asked", "over"} /\ basis \in {"live", "next"}
  BY DEF IInv, Shaped, ServeShape
<1>3. asked \in LinkShape /\ asked.key = link[l].key /\ asked.at \in {"asked", "over"}
  <2> HIDE DEF target, to, basis
  <2> QED BY <1>2 DEF LinkShape, Steps
<1> HIDE DEF asked
<1>4. link' \in [Link -> LinkShape] /\ link'[l] = asked /\ \A m \in Link : m # l => link'[m] = link[m]
  BY <1>1, <1>2, <1>3
<1>5. ShareStep(l)
  BY <1>1, <1>3, <1>4 DEF ShareStep, IInv, Shaped, UnderLock, RowsOf, Held, Signed
<1> QED BY <1>5, ShareStepInv

LEMMA TakeInv == IInv /\ (\E l \in Link : Take(l)) => IInv'
<1> SUFFICES ASSUME IInv, NEW l \in Link, Take(l)
             PROVE  IInv'
  OBVIOUS
<1>1. /\ At(l) = "signed" /\ lock = None /\ lock' = l /\ Went(l, "locked")
      /\ UNCHANGED <<key, saved, ledger, spent, split, expired, serve, admitted>>
  BY GoesWent DEF Take, home, IInv, Steps
<1>2. ShareStep(l)
  BY <1>1, LinksAssumption DEF ShareStep, IInv, Shaped, UnderLock, RowsOf, Signings, Held, Signed, Went
<1> QED BY <1>2, ShareStepInv

LEMMA RecheckInv == IInv /\ (\E l \in Link : Recheck(l)) => IInv'
<1> SUFFICES ASSUME IInv, NEW l \in Link, Recheck(l)
             PROVE  IInv'
  OBVIOUS
<1>0. At(l) = "locked" /\ lock = l /\ UNCHANGED <<key, saved, ledger, spent, split, expired, serve, admitted>>
  BY DEF Recheck, home, IInv, UnderLock
<1>1. CASE Same(l) /\ ledger.readable
  <2> DEFINE to   == IF Cardinality(Expired(ledger.rows)) >= PruneAt THEN "pruning" ELSE "writing"
             next == [link[l] EXCEPT !.at = to, !.kept = ledger.rows \ expired]
  <2>1. link' = [link EXCEPT ![l].at = to, ![l].kept = ledger.rows \ expired] /\ lock' = lock
    BY <1>1 DEF Recheck
  <2>2. link \in [Link -> LinkShape] /\ link[l] \in LinkShape /\ ledger.rows \subseteq Link
    BY DEF IInv, Shaped
  <2>3. to \in {"pruning", "writing"}
    OBVIOUS
  <2> HIDE DEF to
  <2>4. link' = [link EXCEPT ![l] = next]
    BY <2>1, <2>2
  <2>5. next \in LinkShape /\ next.key = link[l].key /\ next.at = to /\ next.kept = ledger.rows \ expired
    BY <2>2, <2>3 DEF LinkShape, Steps
  <2> HIDE DEF next
  <2>6. link' \in [Link -> LinkShape] /\ link'[l] = next /\ \A m \in Link : m # l => link'[m] = link[m]
    BY <2>2, <2>4, <2>5
  <2>7. l \notin ledger.rows
    BY <1>0 DEF IInv, RowsOf
  <2>8. ShareStep(l)
    BY <1>0, <1>1, <2>1, <2>3, <2>5, <2>6, <2>7 DEF ShareStep, IInv, Shaped, Signings, Held, Signed, Same
  <2> QED BY <2>8, ShareStepInv
<1>2. CASE ~(Same(l) /\ ledger.readable)
  <2>1. Went(l, "over") /\ lock' = None
    BY <1>2, GoesWent DEF Recheck, IInv, Steps
  <2>2. ShareStep(l)
    BY <1>0, <2>1, LinksAssumption DEF ShareStep, IInv, Shaped, Held, Signed, Went
  <2> QED BY <2>2, ShareStepInv
<1> QED BY <1>1, <1>2

LEMMA PrintsInv == IInv /\ (\E l \in Link : Prints(l)) => IInv'
<1> SUFFICES ASSUME IInv, NEW l \in Link, Prints(l)
             PROVE  IInv'
  OBVIOUS
<1>1. /\ At(l) = "recorded" /\ lock = l /\ lock' = None /\ Went(l, "printed")
      /\ UNCHANGED <<key, saved, ledger, spent, split, expired, serve, admitted>>
  BY GoesWent DEF Prints, home, IInv, Steps, UnderLock
<1>2. ShareStep(l)
  BY <1>1, LinksAssumption DEF ShareStep, IInv, Shaped, RowsOf, Signings, Held, Signed, Went
<1> QED BY <1>2, ShareStepInv

LEMMA DieInv == IInv /\ (\E l \in Link : Die(l)) => IInv'
<1> SUFFICES ASSUME IInv, NEW l \in Link, Die(l)
             PROVE  IInv'
  OBVIOUS
<1>1. /\ At(l) # "printed" /\ lock' = (IF lock = l THEN None ELSE lock) /\ Went(l, "over")
      /\ UNCHANGED <<key, saved, ledger, spent, split, expired, serve, admitted>>
  BY GoesWent DEF Die, home, IInv, Steps
<1>2. ShareStep(l)
  BY <1>1, LinksAssumption DEF ShareStep, IInv, Shaped, Held, Signed, Went
<1> QED BY <1>2, ShareStepInv

\* The key is made on first use, by a share that signs or a serve that starts: nothing has a key before.
LEMMA FirstKey ==
    ASSUME IInv, NEW k \in Stored
    PROVE  /\ k \in Key
           /\ key # None => k = key
           /\ key # k => key = None /\ ledger.rows = {} /\ \A l \in Link :
                 /\ link[l].key = None
                 /\ At(l) \notin Signed
<1>1. key \in Key => k = key
  BY LinksAssumption DEF Stored, IInv, Shaped
<1>2. CASE key = None
  <2>1. k \in Key
    BY <1>2 DEF Stored
  <2>2. \A l \in Link : link[l].key = None /\ At(l) \notin Signed
    BY <1>2 DEF IInv, Signings, Signed
  <2>3. ledger.rows = {}
    BY <2>2 DEF IInv, RowsOf, Shaped
  <2> QED BY <1>2, <2>1, <2>2, <2>3
<1> QED BY <1>1, <1>2, LinksAssumption DEF IInv, Shaped

LEMMA SignInv == IInv /\ (\E l \in Link : Sign(l)) => IInv'
<1> SUFFICES ASSUME IInv, NEW l \in Link, Sign(l)
             PROVE  IInv'
  OBVIOUS
<1>0. At(l) = "asked" /\ UNCHANGED <<saved, ledger, spent, split, lock, expired, serve, admitted>>
  BY DEF Sign
<1>1. CASE link[l].basis = "gone"
  <2>1. Went(l, "over") /\ key' = key
    BY <1>1, GoesWent DEF Sign, IInv, Steps
  <2>2. ShareStep(l)
    BY <1>0, <2>1 DEF ShareStep, IInv, Shaped, UnderLock, Held, Signed, Went
  <2> QED BY <2>2, ShareStepInv
<1>2. CASE link[l].basis # "gone"
  <2>1. PICK k \in Stored : key' = k /\ link' = [link EXCEPT ![l].at = "signed", ![l].key = k]
    BY <1>2 DEF Sign
  <2>2. /\ link \in [Link -> LinkShape] /\ link[l] \in LinkShape /\ k \in Key /\ k # None
    BY FirstKey, LinksAssumption DEF IInv, Shaped
  <2> DEFINE next == [link[l] EXCEPT !.at = "signed", !.key = k]
  <2>3. link' = [link EXCEPT ![l] = next]
    BY <2>1, <2>2
  <2>4. next \in LinkShape /\ next.at = "signed" /\ next.key = k
    BY <2>2 DEF LinkShape, Steps
  <2> HIDE DEF next
  <2>5. /\ link' \in [Link -> LinkShape] /\ link'[l].at = "signed" /\ link'[l].key = k
        /\ \A m \in Link : m # l => link'[m] = link[m]
    BY <2>2, <2>3, <2>4
  <2>6. l \notin ledger.rows /\ lock # l /\ l \notin spent
    BY <1>0 DEF IInv, RowsOf, UnderLock, Uses
  <2>7. \A m \in Link : m # l => At(m)' = At(m)
    BY <2>5 DEF At
  <2>8. Shaped'
    BY <1>0, <2>1, <2>2, <2>5 DEF IInv, Shaped
  <2>9. UnderLock'
    <3> SUFFICES ASSUME NEW m \in Link
                 PROVE  /\ At(m)' \in Held <=> lock = m
                        /\ At(m)' \in {"pruning", "writing", "recorded"} => link'[m].key = key'
                        /\ At(m)' = "pruning" =>
                               link'[m].kept \subseteq ledger.rows /\ ledger.rows \ link'[m].kept \subseteq expired
      BY <1>0 DEF UnderLock, At, Held
    <3>1. CASE m = l
      BY <3>1, <2>5, <2>6 DEF At, Held
    <3>2. CASE m # l /\ key' = key
      BY <3>2, <2>5, <2>7 DEF IInv, UnderLock, At, Held
    <3>3. CASE m # l /\ key' # key
      BY <3>3, <2>1, <2>5, <2>7, FirstKey DEF IInv, UnderLock, At, Held, Signed
    <3> QED BY <3>1, <3>2, <3>3
  <2>10. Signings'
    BY <2>1, <2>2, <2>5, <2>7 DEF IInv, Signings
  <2>11. RowsOf' /\ GateKnows'
    BY <1>0, <2>5, <2>6, <2>7 DEF IInv, RowsOf, GateKnows, Shaped, At
  <2>12. RowsTrue'
    <3> SUFFICES ASSUME NEW m \in Link
                 PROVE  /\ At(m)' = "printed" /\ m \notin expired /\ link'[m].key = key' => m \in ledger.rows
                        /\ split \/ (m \in ledger.rows => link'[m].key = key')
      BY <1>0 DEF RowsTrue, At, IInv, Shaped
    <3>1. CASE m = l
      BY <3>1, <2>5, <2>6 DEF At
    <3>2. CASE m # l /\ key' = key
      BY <3>2, <2>5, <2>7 DEF IInv, RowsTrue
    <3>3. CASE m # l /\ key' # key
      BY <3>3, <2>1, <2>5, <2>7, FirstKey DEF Signed
    <3> QED BY <3>1, <3>2, <3>3
  <2>13. Uses'
    <3>1. /\ spent \subseteq Link /\ serve.spending \in Link \cup {None}
          /\ UNCHANGED <<spent, serve, ledger, admitted>> /\ serve.spending # l
      BY <1>0, LinksAssumption DEF IInv, Shaped, ServeShape, Uses
    <3> QED BY <3>1, <2>6, <2>7, LinksAssumption DEF IInv, Uses
  <2> QED BY <2>8, <2>9, <2>10, <2>11, <2>12, <2>13 DEF IInv
<1> QED BY <1>1, <1>2

\* A step of the share of l, under the lock, that writes the ledger: rows only grow by l, or lose expired ones.
WriteStep(l, to) ==
    /\ At(l) \in {"pruning", "writing"} /\ to \in {"writing", "recorded", "over"}
    /\ Went(l, to)
    /\ Written(ledger'.rows)
    /\ ledger.rows \ ledger'.rows \subseteq expired
    /\ ledger'.rows \subseteq ledger.rows \cup {l}
    /\ l \in ledger'.rows <=> to = "recorded"
    /\ lock' = IF to = "over" THEN None ELSE lock
    /\ UNCHANGED <<key, saved, spent, split, expired, admitted>>

LEMMA WriteStepInv ==
    ASSUME IInv, NEW l \in Link, NEW to, WriteStep(l, to)
    PROVE  IInv'
<1>1. lock = l /\ link[l].key = key /\ link[l].key # None /\ l \notin ledger.rows
  BY DEF WriteStep, IInv, UnderLock, Signings, RowsOf
<1>2. /\ \A m \in Link : m # l => link'[m] = link[m] /\ At(m)' = At(m) /\ At(m) \notin Held
      /\ At(l)' = to /\ link'[l].key = key
  BY <1>1 DEF WriteStep, Went, At, IInv, UnderLock, Held
<1>3. Shaped'
  BY LinksAssumption DEF IInv, Shaped, WriteStep, Went, Written
<1>4. UnderLock'
  BY <1>1, <1>2, LinksAssumption DEF UnderLock, WriteStep, Held, IInv, Shaped
<1>5. Signings'
  BY <1>1, <1>2 DEF IInv, Signings, WriteStep
<1>6. RowsOf'
  BY <1>1, <1>2 DEF IInv, RowsOf, WriteStep, Shaped, Held
<1>7. RowsTrue'
  <2>1. ASSUME NEW m \in Link, At(m)' = "printed", m \notin expired, link'[m].key = key
        PROVE  m \in ledger'.rows
    BY <1>2, <2>1 DEF WriteStep, IInv, RowsTrue, At
  <2>2. ASSUME ~split, NEW m \in ledger'.rows
        PROVE  link'[m].key = key
    BY <1>2, <2>2 DEF WriteStep, IInv, RowsTrue, Shaped
  <2> QED BY <2>1, <2>2 DEF WriteStep, RowsTrue, At
<1>8. Uses'
  <2>1. /\ l \notin spent /\ serve.spending # l /\ spent \subseteq Link /\ serve.spending \in Link \cup {None}
        /\ spent' = spent /\ admitted' = admitted
        /\ serve'.on = serve.on /\ serve'.rows = serve.rows /\ serve'.used = serve.used
        /\ serve'.spending = serve.spending
    BY LinksAssumption DEF IInv, Uses, Shaped, ServeShape, WriteStep, Written
  <2>2. \A m \in spent : m \notin ledger.rows => m \notin ledger'.rows
    BY <2>1 DEF WriteStep
  <2> QED BY <1>2, <2>1, <2>2, LinksAssumption DEF IInv, Uses
<1>9. GateKnows'
  BY DEF GateKnows, WriteStep, Written
<1> QED BY <1>3, <1>4, <1>5, <1>6, <1>7, <1>8, <1>9 DEF IInv

LEMMA PruneInv == IInv /\ (\E l \in Link : Prune(l)) => IInv'
<1> SUFFICES ASSUME IInv, NEW l \in Link, Prune(l)
             PROVE  IInv'
  OBVIOUS
<1>1. /\ link[l].kept \subseteq ledger.rows /\ ledger.rows \ link[l].kept \subseteq expired
      /\ l \notin ledger.rows /\ ledger.rows \subseteq Link
  BY DEF Prune, IInv, UnderLock, RowsOf, Shaped
<1>2. Written(link[l].kept) /\ Went(l, "writing")
  BY <1>1, WritesWritten, GoesWent DEF Prune, IInv, Steps
<1>3. WriteStep(l, "writing")
  BY <1>1, <1>2 DEF Prune, WriteStep, Written
<1> QED BY <1>3, WriteStepInv

LEMMA AppendInv == IInv /\ (\E l \in Link : AppendRow(l) \/ AppendStops(l)) => IInv'
<1> SUFFICES ASSUME IInv, NEW l \in Link, AppendRow(l) \/ AppendStops(l)
             PROVE  IInv'
  OBVIOUS
<1>1. At(l) = "writing" /\ ledger.rows \subseteq Link /\ l \notin ledger.rows
  BY DEF AppendRow, AppendStops, IInv, RowsOf, Shaped
<1>2. CASE AppendRow(l)
  <2>1. Written(ledger.rows \cup {l}) /\ Went(l, "recorded")
    BY <1>1, <1>2, WritesWritten, GoesWent DEF AppendRow, IInv, Steps
  <2>2. WriteStep(l, "recorded")
    BY <1>1, <1>2, <2>1 DEF AppendRow, WriteStep, Written
  <2> QED BY <2>2, WriteStepInv
<1>3. CASE AppendStops(l)
  <2>1. Written(ledger.rows) /\ Went(l, "over")
    BY <1>1, <1>3, WritesWritten, GoesWent DEF AppendStops, IInv, Steps
  <2>2. WriteStep(l, "over")
    BY <1>1, <1>3, <2>1 DEF AppendStops, WriteStep, Written
  <2> QED BY <2>2, WriteStepInv
<1> QED BY <1>2, <1>3

-----------------------------------------------------------------------------
(* The gate *)

\* A step of the gate, or of its serve: the files stay, but for a use; the uses it remembers are what they must be.
GateStep ==
    /\ UNCHANGED <<key, saved, lock, link, expired, ledger, split>>
    /\ serve' \in ServeShape /\ spent' \subseteq Once /\ admitted' \in [Link -> 0 .. 2]
    /\ Uses' /\ GateKnows'

LEMMA GateStepInv ==
    ASSUME IInv, GateStep
    PROVE  IInv'
<1>1. Shaped'
  BY DEF IInv, Shaped, GateStep
<1>2. UnderLock' /\ Signings' /\ RowsOf' /\ RowsTrue'
  BY DEF IInv, UnderLock, Signings, RowsOf, RowsTrue, At, GateStep
<1> QED BY <1>1, <1>2 DEF IInv, GateStep

\* A gate that looked at the ledger, or did not, knows what it must; and of the uses, as much as before.
LEMMA LookedKnows ==
    ASSUME IInv, serve.on, NEW r, Looked(serve, r)
    PROVE  /\ ~r.changed => r.rows = ledger.rows /\ ledger.readable
           /\ \A l \in spent : l \in r.used \/ serve.spending = l \/ (l \notin ledger.rows /\ l \notin r.rows)
BY DEF IInv, GateKnows, Uses, Looked

LEMMA PresentInv == IInv /\ (\E l \in Link : Present(l)) => IInv'
<1> SUFFICES ASSUME IInv, NEW l \in Link, Present(l)
             PROVE  IInv'
  OBVIOUS
<1> DEFINE r == Refresh(serve)
<1>1. Looked(serve, r)
  BY RefreshLooked DEF IInv
<1>2. /\ serve.on /\ serve.spending = None /\ l \notin Once /\ serve' = r
      /\ admitted' = admitted \/ admitted' = Counted(l)
      /\ UNCHANGED <<key, saved, ledger, spent, split, lock, link, expired>>
  BY DEF Present, home
<1> HIDE DEF r
<1>3. admitted' \in [Link -> 0 .. 2] /\ \A m \in Link : m # l => admitted'[m] = admitted[m]
  BY <1>2 DEF IInv, Shaped, Counted
<1>4. Uses'
  <2>1. \A m \in Once : admitted'[m] = admitted[m]
    BY <1>2, <1>3, LinksAssumption
  <2>2. /\ serve'.on /\ serve'.spending = None
        /\ \A m \in spent : m \in serve'.used \/ (m \notin ledger.rows /\ m \notin serve'.rows)
    BY <1>1, <1>2, LookedKnows, LinksAssumption DEF Looked, IInv, Shaped
  <2> QED BY <1>2, <2>1, <2>2 DEF IInv, Uses, At
<1>5. GateKnows'
  BY <1>1, <1>2, LookedKnows DEF GateKnows
<1>6. GateStep
  BY <1>1, <1>2, <1>3, <1>4, <1>5 DEF GateStep, Looked, IInv, Shaped
<1> QED BY <1>6, GateStepInv

LEMMA PresentOnceInv == IInv /\ (\E l \in Link : PresentOnce(l)) => IInv'
<1> SUFFICES ASSUME IInv, NEW l \in Link, PresentOnce(l)
             PROVE  IInv'
  OBVIOUS
<1> DEFINE r == Refresh(serve)
<1>1. Looked(serve, r)
  BY RefreshLooked DEF IInv
<1>2. /\ serve.on /\ serve.spending = None /\ l \in Once /\ At(l) = "printed"
      /\ serve' = (IF Issued(r, l) /\ l \notin r.used THEN [r EXCEPT !.spending = l] ELSE r)
      /\ UNCHANGED <<key, saved, ledger, spent, split, lock, link, expired, admitted>>
  BY DEF PresentOnce, home, Passes
<1> HIDE DEF r
<1>3. /\ r \in ServeShape /\ r.on /\ r.spending = None
      /\ \A m \in spent : m \in r.used \/ (m \notin ledger.rows /\ m \notin r.rows)
  BY <1>1, <1>2, LookedKnows, LinksAssumption DEF Looked, IInv, Shaped
<1>4. CASE Issued(r, l) /\ l \notin r.used
  <2> DEFINE q == [r EXCEPT !.spending = l]
  <2>1. /\ q \in ServeShape /\ q.on = r.on /\ q.rows = r.rows /\ q.used = r.used /\ q.changed = r.changed
        /\ q.spending = l
    BY <1>2, <1>3 DEF ServeShape
  <2>2. serve' = q
    BY <1>2, <1>4
  <2> HIDE DEF q
  <2>3. l \in r.rows
    BY <1>4 DEF Issued
  <2>4. l \notin spent /\ admitted[l] = 0
    <3>1. l \notin spent
      BY <1>3, <1>4, <2>3
    <3>2. admitted[l] \in 0 .. 2 /\ admitted[l] <= 1 /\ admitted[l] # 1
      BY <1>2, <3>1 DEF IInv, Shaped, Uses
    <3> QED BY <3>1, <3>2
  <2>5. Uses'
    BY <1>2, <1>3, <2>1, <2>2, <2>4 DEF IInv, Uses, At
  <2>6. GateKnows'
    BY <1>1, <1>2, <2>1, <2>2, LookedKnows DEF GateKnows
  <2>7. GateStep
    BY <1>2, <2>1, <2>2, <2>5, <2>6 DEF GateStep, IInv, Shaped
  <2> QED BY <2>7, GateStepInv
<1>5. CASE ~(Issued(r, l) /\ l \notin r.used)
  <2>1. serve' = r
    BY <1>2, <1>5
  <2>2. Uses'
    BY <1>2, <1>3, <2>1 DEF IInv, Uses, At
  <2>3. GateKnows'
    BY <1>1, <1>2, <2>1, LookedKnows DEF GateKnows
  <2>4. GateStep
    BY <1>2, <1>3, <2>1, <2>2, <2>3 DEF GateStep, IInv, Shaped
  <2> QED BY <2>4, GateStepInv
<1> QED BY <1>4, <1>5

LEMMA SpendInv == IInv /\ (\E l \in Link : Spend(l) \/ SpendFails(l) \/ AdmitOnce(l)) => IInv'
<1> SUFFICES ASSUME IInv, NEW l \in Link, Spend(l) \/ SpendFails(l) \/ AdmitOnce(l)
             PROVE  IInv'
  OBVIOUS
<1>1. /\ serve.spending = l /\ l # None /\ l \in Once /\ serve.on /\ At(l) = "printed" /\ admitted[l] = 0
      /\ serve \in ServeShape
      /\ UNCHANGED <<key, saved, ledger, split, lock, link, expired>>
  <2>1. serve.spending = l /\ UNCHANGED <<key, saved, ledger, split, lock, link, expired>>
    BY DEF Spend, SpendFails, AdmitOnce, home
  <2>2. l # None /\ serve \in ServeShape
    BY LinksAssumption DEF IInv, Shaped
  <2>3. l \in Once
    BY <2>1, <2>2 DEF ServeShape
  <2> QED BY <2>1, <2>2, <2>3 DEF IInv, Uses
<1>2. CASE Spend(l)
  <2>1. spent' = spent \cup {l} /\ serve' = serve /\ admitted' = admitted
    BY <1>2 DEF Spend
  <2>2. Uses'
    BY <1>1, <2>1 DEF IInv, Uses, At
  <2>3. GateKnows'
    BY <1>1, <2>1 DEF IInv, GateKnows
  <2>4. GateStep
    BY <1>1, <2>1, <2>2, <2>3 DEF GateStep, IInv, Shaped
  <2> QED BY <2>4, GateStepInv
<1>3. CASE SpendFails(l)
  <2> DEFINE q == [serve EXCEPT !.spending = None]
  <2>1. l \notin spent /\ serve' = q /\ spent' = spent /\ admitted' = admitted
    BY <1>3 DEF SpendFails
  <2>2. /\ q \in ServeShape /\ q.on = serve.on /\ q.rows = serve.rows /\ q.used = serve.used
        /\ q.changed = serve.changed /\ q.spending = None
    BY <1>1 DEF ServeShape
  <2> HIDE DEF q
  <2>3. Uses'
    BY <1>1, <2>1, <2>2 DEF IInv, Uses, At
  <2>4. GateKnows'
    BY <1>1, <2>1, <2>2 DEF IInv, GateKnows
  <2>5. GateStep
    BY <1>1, <2>1, <2>2, <2>3, <2>4 DEF GateStep, IInv, Shaped
  <2> QED BY <2>5, GateStepInv
<1>4. CASE AdmitOnce(l)
  <2> DEFINE q == [serve EXCEPT !.spending = None, !.used = serve.used \cup {l}]
  <2>1. l \in spent /\ serve' = q /\ spent' = spent /\ admitted' = Counted(l)
    BY <1>4 DEF AdmitOnce, home
  <2>2. /\ q \in ServeShape /\ q.on = serve.on /\ q.rows = serve.rows /\ q.used = serve.used \cup {l}
        /\ q.changed = serve.changed /\ q.spending = None
    BY <1>1 DEF ServeShape
  <2> HIDE DEF q
  <2>3. /\ admitted' \in [Link -> 0 .. 2] /\ admitted'[l] = 1
        /\ \A m \in Link : m # l => admitted'[m] = admitted[m]
    BY <1>1, <2>1 DEF IInv, Shaped, Counted
  <2>4. Uses'
    <3>1. \A m \in Once : admitted'[m] <= 1 /\ (admitted'[m] = 1 => m \in spent)
      BY <2>1, <2>3, LinksAssumption DEF IInv, Uses
    <3>2. \A m \in spent : m \in serve'.used \/ (m \notin ledger.rows /\ m \notin serve'.rows)
      BY <1>1, <2>1, <2>2 DEF IInv, Uses
    <3> QED BY <1>1, <2>1, <2>2, <3>1, <3>2 DEF IInv, Uses, At
  <2>5. GateKnows'
    BY <1>1, <2>1, <2>2 DEF IInv, GateKnows
  <2>6. GateStep
    BY <1>1, <2>1, <2>2, <2>3, <2>4, <2>5 DEF GateStep, IInv, Shaped
  <2> QED BY <2>6, GateStepInv
<1> QED BY <1>2, <1>3, <1>4

LEMMA DebouncedInv == IInv /\ Debounced => IInv'
<1> SUFFICES ASSUME IInv, Debounced
             PROVE  IInv'
  OBVIOUS
<1> DEFINE q == [serve EXCEPT !.due = TRUE]
<1>1. /\ serve' = q /\ serve \in ServeShape
      /\ UNCHANGED <<key, saved, ledger, spent, split, lock, link, expired, admitted>>
  BY DEF Debounced, home, IInv, Shaped
<1>2. /\ q \in ServeShape /\ q.on = serve.on /\ q.rows = serve.rows /\ q.used = serve.used
      /\ q.changed = serve.changed /\ q.spending = serve.spending
  BY <1>1 DEF ServeShape
<1> HIDE DEF q
<1>3. Uses' /\ GateKnows'
  BY <1>1, <1>2 DEF IInv, Uses, GateKnows, At
<1>4. GateStep
  BY <1>1, <1>2, <1>3 DEF GateStep, IInv, Shaped
<1> QED BY <1>4, GateStepInv

LEMMA StartInv == IInv /\ Start => IInv'
<1> SUFFICES ASSUME IInv, Start
             PROVE  IInv'
  OBVIOUS
<1>1. PICK k \in Stored :
         /\ key' = k
         /\ serve' = Read([Off EXCEPT !.on = TRUE, !.key = k, !.bound = saved, !.used = spent])
  BY DEF Start
<1> DEFINE s == [Off EXCEPT !.on = TRUE, !.key = k, !.bound = saved, !.used = spent]
<1>2. UNCHANGED <<saved, lock, link, expired, ledger, spent, split, admitted>>
  BY DEF Start
<1>3. k \in Key
  BY FirstKey
<1>4. s \in ServeShape /\ s.on = TRUE /\ s.used = spent /\ s.spending = None
  BY <1>3 DEF Off, ServeShape, IInv, Shaped
<1>5. serve' = Read(s)
  BY <1>1
<1> HIDE DEF s
<1>6. /\ serve' \in ServeShape /\ serve'.on /\ serve'.spending = None
      /\ \/ ledger.readable /\ serve'.rows = ledger.rows /\ serve'.used = spent \cap ledger.rows /\ ~serve'.changed
         \/ ~ledger.readable /\ serve'.rows = {} /\ serve'.used = spent /\ serve'.changed
  BY <1>4, <1>5, ReadLooked DEF Looked, IInv
<1>7. Shaped'
  BY <1>1, <1>2, <1>3, <1>6 DEF IInv, Shaped
<1>8. Uses' /\ GateKnows'
  BY <1>2, <1>6 DEF IInv, Uses, GateKnows, At
<1>9. UnderLock' /\ Signings' /\ RowsOf' /\ RowsTrue'
  <2>1. CASE key' = key
    BY <1>2, <2>1 DEF IInv, UnderLock, Signings, RowsOf, RowsTrue, At
  <2>2. CASE key' # key
    <3>1. key' # None /\ ledger.rows = {} /\ \A l \in Link : link[l].key = None /\ At(l) \notin Signed
      BY <1>1, <1>3, <2>2, FirstKey, LinksAssumption
    <3> QED BY <1>2, <3>1 DEF IInv, UnderLock, Signings, RowsOf, RowsTrue, At, Signed
  <2> QED BY <2>1, <2>2
<1> QED BY <1>7, <1>8, <1>9 DEF IInv

LEMMA StopInv == IInv /\ Stop => IInv'
<1> SUFFICES ASSUME IInv, Stop
             PROVE  IInv'
  OBVIOUS
<1>1. /\ serve' = Off /\ UNCHANGED <<key, saved, ledger, spent, split, lock, expired, admitted>>
      /\ link' = [l \in Link |-> IF link[l].basis = "live" THEN [link[l] EXCEPT !.basis = "gone"] ELSE link[l]]
  BY DEF Stop, home
<1>2. ASSUME NEW l \in Link
      PROVE  /\ link'[l] \in LinkShape /\ link'[l].at = link[l].at /\ link'[l].key = link[l].key
             /\ link'[l].kept = link[l].kept
  <2>1. link[l] \in LinkShape
    BY DEF IInv, Shaped
  <2>2. link'[l] = (IF link[l].basis = "live" THEN [link[l] EXCEPT !.basis = "gone"] ELSE link[l])
    BY <1>1
  <2> QED BY <2>1, <2>2 DEF LinkShape
<1>3. link' \in [Link -> LinkShape] /\ \A l \in Link : At(l)' = At(l)
  BY <1>1, <1>2 DEF At
<1>4. Off \in ServeShape /\ ~Off.on /\ Off.spending = None
  BY DEF Off, ServeShape
<1>5. Shaped'
  BY <1>1, <1>3, <1>4 DEF IInv, Shaped
<1>6. UnderLock' /\ Signings' /\ RowsOf' /\ RowsTrue'
  BY <1>1, <1>2, <1>3 DEF IInv, UnderLock, Signings, RowsOf, RowsTrue, Shaped
<1>7. Uses' /\ GateKnows'
  BY <1>1, <1>3, <1>4, LinksAssumption DEF IInv, Uses, GateKnows, Shaped
<1> QED BY <1>5, <1>6, <1>7 DEF IInv

-----------------------------------------------------------------------------
(* What else the home lives through *)

LEMMA NewKeyInv == IInv /\ (\E k \in Key : NewKey(k)) => IInv'
<1> SUFFICES ASSUME IInv, NEW k \in Key, NewKey(k)
             PROVE  IInv'
  OBVIOUS
<1>1. /\ lock = None /\ ~serve.on /\ key # None /\ k \notin Spoken /\ key' = k
      /\ UNCHANGED <<saved, lock, spent, link, expired, serve, admitted>>
  BY DEF NewKey
<1>2. PICK stops \in BOOLEAN :
         /\ split' = (stops /\ ledger.rows # {})
         /\ ledger' = IF stops THEN ledger ELSE [rows |-> {}, torn |-> FALSE, readable |-> TRUE]
  BY DEF NewKey
<1>3. /\ ledger' \in [rows : SUBSET Link, torn : BOOLEAN, readable : BOOLEAN]
      /\ ledger'.rows \subseteq ledger.rows
      /\ split' \in BOOLEAN /\ (split' \/ ledger'.rows = {})
  BY <1>2 DEF IInv, Shaped
<1>4. \A l \in Link : link[l].key # k /\ At(l) \notin Held
  BY <1>1, LinksAssumption DEF Spoken, IInv, UnderLock, Held
<1>5. Shaped'
  BY <1>1, <1>3 DEF IInv, Shaped
<1>6. UnderLock' /\ Signings' /\ RowsOf'
  BY <1>1, <1>3, <1>4, LinksAssumption DEF IInv, UnderLock, Signings, RowsOf, At, Held
<1>7. RowsTrue'
  BY <1>1, <1>3, <1>4 DEF RowsTrue, At
<1>8. Uses' /\ GateKnows'
  BY <1>1 DEF IInv, Uses, GateKnows, At
<1> QED BY <1>5, <1>6, <1>7, <1>8 DEF IInv

LEMMA ChmodInv == IInv /\ Chmod => IInv'
<1> SUFFICES ASSUME IInv, Chmod
             PROVE  IInv'
  OBVIOUS
<1> DEFINE q == [serve EXCEPT !.changed = serve.on]
<1>1. /\ ledger' = [ledger EXCEPT !.readable = ~ledger.readable] /\ serve' = q
      /\ UNCHANGED <<key, saved, spent, split, lock, link, expired, admitted>>
      /\ serve \in ServeShape /\ ledger \in [rows : SUBSET Link, torn : BOOLEAN, readable : BOOLEAN]
  BY DEF Chmod, IInv, Shaped
<1>2. ledger' \in [rows : SUBSET Link, torn : BOOLEAN, readable : BOOLEAN] /\ ledger'.rows = ledger.rows
  BY <1>1
<1>3. serve.on \in BOOLEAN
  BY <1>1 DEF ServeShape
<1>4. /\ q \in ServeShape /\ q.on = serve.on /\ q.rows = serve.rows /\ q.used = serve.used
      /\ q.spending = serve.spending
  BY <1>1, <1>3 DEF ServeShape
<1>5. serve.on => q.changed
  BY <1>1 DEF ServeShape
<1> HIDE DEF q
<1>6. Shaped'
  BY <1>1, <1>2, <1>4 DEF IInv, Shaped
<1>7. UnderLock' /\ Signings' /\ RowsOf' /\ RowsTrue'
  BY <1>1, <1>2 DEF IInv, UnderLock, Signings, RowsOf, RowsTrue, At
<1>8. Uses' /\ GateKnows'
  BY <1>1, <1>2, <1>4, <1>5 DEF IInv, Uses, GateKnows, At
<1> QED BY <1>6, <1>7, <1>8 DEF IInv

LEMMA ElseInv == IInv /\ (Retarget \/ (\E l \in Link : Expire(l)) \/ UNCHANGED vars) => IInv'
<1> SUFFICES ASSUME IInv, Retarget \/ (\E l \in Link : Expire(l)) \/ UNCHANGED vars
             PROVE  IInv'
  OBVIOUS
<1>1. /\ saved' \in Target /\ expired' \subseteq Link /\ expired \subseteq expired'
      /\ UNCHANGED <<key, ledger, spent, split, lock, link, serve, admitted>>
  BY DEF Retarget, Expire, vars, home, IInv, Shaped
<1>2. Shaped' /\ Uses' /\ GateKnows'
  BY <1>1 DEF IInv, Shaped, Uses, GateKnows, At
<1>3. UnderLock' /\ Signings' /\ RowsOf' /\ RowsTrue'
  BY <1>1 DEF IInv, UnderLock, Signings, RowsOf, RowsTrue, At
<1> QED BY <1>2, <1>3 DEF IInv

LEMMA InitInv == Init => IInv
<1> SUFFICES ASSUME Init
             PROVE  IInv
  OBVIOUS
<1>1. Unmade \in LinkShape /\ Off \in ServeShape /\ ~Off.on /\ Off.spending = None
  BY DEF Unmade, LinkShape, Steps, Off, ServeShape
<1>2. Shaped
  <2>1. link \in [Link -> LinkShape] /\ serve \in ServeShape
    BY <1>1 DEF Init
  <2>2. admitted \in [Link -> 0 .. 2]
    BY DEF Init
  <2>3. ledger \in [rows : SUBSET Link, torn : BOOLEAN, readable : BOOLEAN]
    <3>1. {} \in SUBSET Link /\ FALSE \in BOOLEAN /\ TRUE \in BOOLEAN
      OBVIOUS
    <3> QED BY <3>1 DEF Init
  <2>4. key = None /\ lock = None /\ saved \in Target /\ expired = {} /\ spent = {} /\ split \in BOOLEAN
    BY DEF Init
  <2> QED BY <2>1, <2>2, <2>3, <2>4 DEF Shaped
<1>3. \A l \in Link : At(l) = "none" /\ link[l].key = None
  BY DEF Init, At, Unmade
<1>4. UnderLock /\ Signings /\ RowsOf /\ RowsTrue
  BY <1>3, LinksAssumption DEF Init, UnderLock, Signings, RowsOf, RowsTrue
<1>5. Uses /\ GateKnows
  BY <1>1, LinksAssumption DEF Init, Uses, GateKnows
<1> QED BY <1>2, <1>4, <1>5 DEF IInv

LEMMA NextInv == IInv /\ [Next]_vars => IInv'
<1> SUFFICES ASSUME IInv, [Next]_vars
             PROVE  IInv'
  OBVIOUS
<1>1. CASE \E l \in Link : Shares(l)
  BY <1>1, AskInv, SignInv, TakeInv, RecheckInv, PruneInv, AppendInv, PrintsInv, DieInv DEF Shares
<1>2. CASE \E l \in Link : PresentOnce(l) \/ Spend(l) \/ SpendFails(l) \/ AdmitOnce(l) \/ Expire(l) \/ Present(l)
  BY <1>2, PresentOnceInv, SpendInv, PresentInv, ElseInv
<1>3. CASE (\E k \in Key : NewKey(k)) \/ Start \/ Stop \/ Debounced \/ Retarget \/ Chmod \/ UNCHANGED vars
  BY <1>3, NewKeyInv, StartInv, StopInv, DebouncedInv, ElseInv, ChmodInv
<1> QED BY <1>1, <1>2, <1>3 DEF Next

\* Whatever is restarted, killed, unreadable or failed between, for any links, keys and targets: a one-use link
\* is admitted once; a link somebody holds keeps its row for as long as it lives and the key it is rooted at is
\* this machine's; and the gate goes by what the file says (grants.rs 72-80, 419-434).
THEOREM LinksAreTrue == Spec => []LinksTrue
<1>1. IInv => LinksTrue
  <2> SUFFICES ASSUME IInv
               PROVE  LinksTrue
    OBVIOUS
  <2>1. TypeOK
    <3>1. serve.used \subseteq Once /\ serve.spending \in Once \cup {None}
      BY DEF IInv, Shaped, ServeShape
    <3>2. \A l \in Link : link[l].key \in Key \cup {None} /\ link[l].made \in Target \cup {None}
      BY DEF IInv, Shaped, LinkShape
    <3>3. ledger.rows \subseteq Link
      BY DEF IInv, Shaped
    <3> QED BY <3>1, <3>2, <3>3 DEF IInv, Shaped, TypeOK
  <2>2. OnlyOnce
    BY DEF IInv, Uses, OnlyOnce
  <2> QED BY <2>1, <2>2 DEF IInv, LinksTrue
<1> QED BY <1>1, InitInv, NextInv, PTL DEF Spec

-----------------------------------------------------------------------------
(* The kept lists: the inductive invariant                                 *)

\* The files the list is read from.
Files == W!Used(which)

\* Every variable of it has its shape.
WShape ==
    /\ which \in {"known", "saved"}
    /\ stamp \in [Files -> Nat \ {0}]
    /\ DOMAIN file = Files /\ DOMAIN got = Files
    /\ at.step \in {"idle", "looking", "reading"} /\ at.next \in Nat \ {0}
    /\ looked \in Seq(Nat) /\ seen \in Seq(Nat)
    /\ short \in [read : BOOLEAN, kept : BOOLEAN]

Count == Len(W!Stamped[which])
Nth(i) == W!Stamped[which][i]

\* The stamps of s are of the first files, and none is later than its file's.
Taken(s) == Len(s) <= Count /\ \A i \in 1 .. Len(s) : s[i] <= stamp[Nth(i)]

\* A file that still has stamp s holds v, or is gone; a revocation is never gone.
Fresh(s, f, v) == W!Look(f) = s => file[f] = v \/ (file[f] = None /\ f # "revoked")

\* What g holds was read from the files no later than under the stamps of s.
AllFresh(s, g) == Len(s) = Count /\ \A i \in 1 .. Count : Fresh(s[i], Nth(i), g[Nth(i)])

ReadSoFar == {W!Reads[which][j] : j \in 1 .. (at.next - 1)}

\* A refresh that reads has taken all stamps first.
Reading ==
    at.step = "reading" =>
        /\ Len(looked) = Count
        /\ short.read \/ \A i \in 1 .. Count : Nth(i) \in ReadSoFar => Fresh(looked[i], Nth(i), got[Nth(i)])

\* A revocation that was read is held for good, its stamp taken or not.
Revoked(g) == g["revoked"] # None => file["revoked"] # None

\* The list kept is of what was read after its stamps were taken, unless a part of it went unread.
KeptList ==
    seen = << >> \/ short.kept \/ \E g : live = W!Listed(which, g) /\ AllFresh(seen, g) /\ Revoked(g)

WInv ==
    /\ WShape
    /\ \A f \in Files : file[f] # None => stamp[f] > 1
    /\ Taken(looked) /\ Taken(seen)
    /\ at.step = "looking" => Len(looked) = at.next - 1
    /\ Reading /\ KeptList /\ Revoked(got)

\* The files that are stamped are among those that are read.
LEMMA Tables ==
    ASSUME which \in {"known", "saved"}
    PROVE  /\ Count \in Nat /\ Count > 0
           /\ \A i \in 1 .. Count : Nth(i) \in Files
           /\ Files = {W!Reads[which][i] : i \in 1 .. Len(W!Reads[which])}
           /\ Len(W!Reads[which]) \in Nat
           /\ DOMAIN W!Stamped[which] = 1 .. Count
           /\ "pin" \in Files /\ "devices" \in Files /\ "revoked" \in Files
           /\ which = "known" => {Nth(i) : i \in 1 .. Count} = {"pin", "badge", "devices", "revoked"}
           /\ which = "saved" => {Nth(i) : i \in 1 .. Count} = {"contacts", "pin", "devices"}
<1>1. CASE which = "known"
  BY <1>1 DEF Count, Files, Nth, W!Used, W!Stamped, W!Reads
<1>2. CASE which = "saved"
  BY <1>2 DEF Count, Files, Nth, W!Used, W!Stamped, W!Reads
<1> QED BY <1>1, <1>2

LEMMA WriteFresh ==
    ASSUME WInv, NEW f \in Files, NEW v, f = "revoked" => v # None,
           file' = [file EXCEPT ![f] = v], stamp' = [stamp EXCEPT ![f] = @ + 1], UNCHANGED which,
           NEW s \in Seq(Nat), Taken(s), NEW i \in 1 .. Len(s), NEW w, Fresh(s[i], Nth(i), w)
    PROVE  s[i] <= stamp'[Nth(i)] /\ Fresh(s[i], Nth(i), w)'
<1>0. Count \in Nat /\ Len(s) \in Nat /\ Len(s) <= Count /\ s[i] \in Nat /\ s[i] <= stamp[Nth(i)]
  <2>1. Count \in Nat
    BY Tables DEF WInv, WShape
  <2>2. Len(s) <= Count /\ s[i] <= stamp[Nth(i)]
    BY DEF Taken
  <2> QED BY <2>1, <2>2
<1>1. i <= Count /\ Nth(i) \in Files /\ s[i] \in Nat /\ s[i] <= stamp[Nth(i)] /\ stamp[Nth(i)] \in Nat \ {0}
  <2>1. i \in 1 .. Count
    BY <1>0
  <2>2. Nth(i) \in Files
    BY <2>1, Tables DEF WInv, WShape
  <2> QED BY <1>0, <2>1, <2>2 DEF WInv, WShape
<1>2. CASE Nth(i) # f
  <2>1. file'[Nth(i)] = file[Nth(i)] /\ stamp'[Nth(i)] = stamp[Nth(i)]
    BY <1>1, <1>2 DEF WInv, WShape
  <2> QED BY <1>1, <2>1 DEF Fresh, W!Look, Nth
<1>3. CASE Nth(i) = f
  <2>1. file'[f] = v /\ stamp'[f] = stamp[f] + 1
    BY DEF WInv, WShape
  <2> QED BY <1>1, <1>3, <2>1 DEF Fresh, W!Look, Nth, W!Absent
<1> QED BY <1>2, <1>3

LEMMA WriteInv == WInv /\ W!Write => WInv'
<1> SUFFICES ASSUME WInv, W!Write
             PROVE  WInv'
  OBVIOUS
<1>1. PICK f \in Files : \E v : /\ f = "revoked" => v # None
                               /\ file' = [file EXCEPT ![f] = v] /\ stamp' = [stamp EXCEPT ![f] = @ + 1]
  BY DEF W!Write, Files
<1>2. PICK v : /\ f = "revoked" => v # None
               /\ file' = [file EXCEPT ![f] = v] /\ stamp' = [stamp EXCEPT ![f] = @ + 1]
  BY <1>1
<1>3. UNCHANGED <<which, at, looked, got, seen, live, short>>
  BY DEF W!Write
<1>4. UNCHANGED <<Files, Count, ReadSoFar>> /\ \A i : UNCHANGED Nth(i)
  BY <1>3 DEF Files, Count, ReadSoFar, Nth
<1>5. WShape' /\ \A g \in Files : file'[g] # None => stamp'[g] > 1
  BY <1>2, <1>3, <1>4 DEF WInv, WShape
<1>10. \A g : Revoked(g) => Revoked(g)'
  BY <1>2, Tables DEF WInv, WShape, Revoked
<1>6. ASSUME NEW s \in Seq(Nat), Taken(s)
      PROVE  Taken(s)'
  <2>1. \A i \in 1 .. Len(s) : s[i] \in Nat /\ s[i] <= stamp'[Nth(i)]
    <3> TAKE i \in 1 .. Len(s)
    <3>1. Count \in Nat
      BY Tables DEF WInv, WShape
    <3>2. Len(s) \in Nat /\ Len(s) <= Count /\ s[i] \in Nat /\ s[i] <= stamp[Nth(i)]
      BY <1>6 DEF Taken
    <3>3. i \in 1 .. Count
      BY <3>1, <3>2
    <3>4. Nth(i) \in Files
      BY <3>3, Tables DEF WInv, WShape
    <3>5. stamp[Nth(i)] \in Nat /\ stamp'[Nth(i)] \in {stamp[Nth(i)], stamp[Nth(i)] + 1}
      BY <1>2, <3>4 DEF WInv, WShape
    <3> QED BY <3>2, <3>5
  <2> QED BY <1>4, <1>6, <2>1 DEF Taken
<1>7. Taken(looked)' /\ Taken(seen)'
  BY <1>3, <1>6 DEF WInv, WShape
<1>8. Reading'
  <2> SUFFICES ASSUME at.step = "reading", ~short.read, NEW i \in 1 .. Count, Nth(i) \in ReadSoFar
               PROVE  Fresh(looked[i], Nth(i), got[Nth(i)])'
    BY <1>3, <1>4 DEF WInv, Reading
  <2>1. i \in 1 .. Len(looked) /\ Fresh(looked[i], Nth(i), got[Nth(i)])
    BY DEF WInv, Reading
  <2>2. Fresh(looked[i], Nth(i), got[Nth(i)])'
    <3> DEFINE w == got[Nth(i)]
    <3>1. Fresh(looked[i], Nth(i), w)
      BY <2>1
    <3> HIDE DEF w
    <3>2. w' = w
      BY <1>3, <1>4 DEF w
    <3>4. looked \in Seq(Nat) /\ Taken(looked) /\ which' = which
      BY <1>3 DEF WInv, WShape
    <3>3. W!Look(Nth(i))' = looked[i] => file'[Nth(i)] = w \/ (file'[Nth(i)] = None /\ Nth(i) # "revoked")
      BY <1>2, <1>3, <1>4, <2>1, <3>1, <3>4, WriteFresh DEF Fresh
    <3> QED BY <1>3, <1>4, <3>3 DEF Fresh, w
  <2> QED BY <2>2
<1>9. KeptList'
  <2>1. CASE seen = << >> \/ short.kept
    BY <1>3, <2>1 DEF KeptList
  <2>2. CASE ~(seen = << >> \/ short.kept)
    <3>1. PICK g : live = W!Listed(which, g) /\ AllFresh(seen, g) /\ Revoked(g)
      BY <2>2 DEF WInv, KeptList
    <3>2. \A i \in 1 .. Count : W!Look(Nth(i))' = seen[i] =>
             file'[Nth(i)] = g[Nth(i)] \/ (file'[Nth(i)] = None /\ Nth(i) # "revoked")
      <4> TAKE i \in 1 .. Count
      <4>1. i \in 1 .. Len(seen) /\ Fresh(seen[i], Nth(i), g[Nth(i)]) /\ Taken(seen) /\ seen \in Seq(Nat)
        BY <3>1 DEF AllFresh, WInv, WShape
      <4> QED BY <1>2, <1>3, <1>4, <4>1, WriteFresh DEF Fresh
    <3>3. AllFresh(seen, g)'
      BY <1>3, <1>4, <3>1, <3>2 DEF AllFresh, Fresh
    <3> QED BY <1>3, <1>10, <3>1, <3>3 DEF KeptList, W!Listed
  <2> QED BY <2>1, <2>2
<1>11. Revoked(got)'
  BY <1>3, <1>10 DEF WInv, Revoked
<1> QED BY <1>3, <1>4, <1>5, <1>7, <1>8, <1>9, <1>11 DEF WInv

\* The files, their stamps and the list kept stay as they are.
LEMMA Stays ==
    ASSUME WInv, UNCHANGED <<which, file, stamp, seen, live>>, short'.kept = short.kept
    PROVE  /\ UNCHANGED <<Files, Count>> /\ \A i : UNCHANGED Nth(i)
           /\ \A f \in Files : file'[f] # None => stamp'[f] > 1
           /\ Taken(seen)' /\ KeptList'
           /\ \A s : Taken(s) => Taken(s)'
<1>1. UNCHANGED <<Files, Count>> /\ \A i : UNCHANGED Nth(i)
  BY DEF Files, Count, Nth
<1>2. \A s : Taken(s) => Taken(s)'
  BY <1>1 DEF Taken
<1>3. Taken(seen)'
  BY <1>1 DEF Taken, WInv
<1>4. KeptList'
  <2>1. CASE seen = << >> \/ short.kept
    BY <2>1 DEF KeptList
  <2>2. CASE ~(seen = << >> \/ short.kept)
    <3>1. PICK g : live = W!Listed(which, g) /\ AllFresh(seen, g) /\ Revoked(g)
      BY <2>2 DEF WInv, KeptList
    <3>2. AllFresh(seen, g)' /\ Revoked(g)'
      BY <1>1, <3>1 DEF AllFresh, Fresh, W!Look, Revoked
    <3> QED BY <3>1, <3>2 DEF KeptList, W!Listed
  <2> QED BY <2>1, <2>2
<1> QED BY <1>1, <1>2, <1>3, <1>4 DEF WInv

LEMMA RefreshInv == WInv /\ W!Refresh => WInv'
<1> SUFFICES ASSUME WInv, W!Refresh
             PROVE  WInv'
  OBVIOUS
<1>1. /\ UNCHANGED <<which, file, stamp, got, seen, live, short>> /\ looked' = << >>
      /\ at' = [step |-> "looking", next |-> 1]
  BY DEF W!Refresh
<1>2. WShape' /\ Taken(looked)' /\ Reading' /\ (at'.step = "looking" => Len(looked') = at'.next - 1)
  BY <1>1, Tables DEF WInv, WShape, Taken, Reading, Files, Count
<1> QED BY <1>1, <1>2, Stays DEF WInv, Revoked

LEMMA StampInv == WInv /\ W!Stamp => WInv'
<1> SUFFICES ASSUME WInv, W!Stamp
             PROVE  WInv'
  OBVIOUS
<1>1. /\ UNCHANGED <<which, file, stamp, got, seen, live, short>> /\ at.step = "looking" /\ at.next <= Count
      /\ at' = [at EXCEPT !.next = @ + 1]
  BY DEF W!Stamp, Count
<1>2. PICK s \in {0, 1, stamp[Nth(at.next)]} : looked' = Append(looked, s)
  BY DEF W!Stamp, Nth, W!Look, W!Absent, W!Unknown
<1>3. Nth(at.next) \in Files /\ s \in Nat /\ s <= stamp[Nth(at.next)]
  <2>1. at.next \in 1 .. Count
    BY <1>1, Tables DEF WInv, WShape
  <2>2. Nth(at.next) \in Files
    BY <2>1, Tables DEF WInv, WShape
  <2>3. stamp[Nth(at.next)] \in Nat \ {0}
    BY <2>2 DEF WInv, WShape
  <2> QED BY <2>2, <2>3
<1>4. at'.step = "looking" /\ at'.next = at.next + 1 /\ Len(looked) = at.next - 1
  BY <1>1 DEF WInv
<1>5. looked' \in Seq(Nat) /\ Len(looked') = at.next /\ \A i \in 1 .. Len(looked') :
         looked'[i] = IF i = at.next THEN s ELSE looked[i]
  BY <1>2, <1>3, <1>4 DEF WInv, WShape
<1>6. WShape'
  <2>1. WShape /\ UNCHANGED Files
    BY <1>1, Stays DEF WInv
  <2>2. at'.step = "looking" /\ at'.next \in Nat \ {0}
    BY <2>1, <1>4 DEF WShape
  <2> QED BY <1>1, <1>5, <2>1, <2>2 DEF WShape
<1>7. Taken(looked)'
  <2>1. \A i \in 1 .. Len(looked') : looked'[i] <= stamp[Nth(i)]
    <3> TAKE i \in 1 .. Len(looked')
    <3>1. CASE i = at.next
      BY <1>3, <1>5, <3>1
    <3>2. CASE i # at.next
      <4>1. i \in 1 .. Len(looked) /\ looked'[i] = looked[i]
        BY <1>4, <1>5, <3>2 DEF WInv, WShape
      <4> QED BY <4>1 DEF WInv, Taken
    <3> QED BY <3>1, <3>2
  <2> QED BY <1>1, <1>5, <2>1, Stays DEF Taken
<1> QED BY <1>1, <1>4, <1>5, <1>6, <1>7, Stays DEF WInv, Reading, Revoked

LEMMA CompareInv == WInv /\ W!Compare => WInv'
<1> SUFFICES ASSUME WInv, W!Compare
             PROVE  WInv'
  OBVIOUS
<1>1. /\ UNCHANGED <<which, file, stamp, looked, got, seen, live>> /\ at.step = "looking" /\ at.next > Count
      /\ at'.step \in {"idle", "reading"} /\ at'.next = 1 /\ short' = [short EXCEPT !.read = FALSE]
  BY DEF W!Compare, Count
<1>2. Len(looked) = Count
  BY <1>1, Tables DEF WInv, WShape, Taken
<1>3. ReadSoFar' = {}
  BY <1>1, Tables DEF ReadSoFar
<1>6. short'.kept = short.kept /\ short' \in [read : BOOLEAN, kept : BOOLEAN]
  BY <1>1 DEF WInv, WShape
<1>4. Reading'
  BY <1>1, <1>2, <1>3, <1>6, Stays DEF Reading
<1>5. WShape' /\ Taken(looked)'
  BY <1>1, <1>6, Stays DEF WInv, WShape
<1> QED BY <1>1, <1>4, <1>5, <1>6, Stays DEF WInv, Revoked

LEMMA ReadInv == WInv /\ W!Read => WInv'
<1> SUFFICES ASSUME WInv, W!Read
             PROVE  WInv'
  OBVIOUS
<1> DEFINE f == W!Reads[which][at.next]
<1>1. /\ UNCHANGED <<which, file, stamp, looked, seen, live, short>> /\ at.step = "reading"
      /\ at.next <= Len(W!Reads[which])
      /\ got' = [got EXCEPT ![f] = file[f]]
      /\ at' = [at EXCEPT !.next = @ + 1]
  BY DEF W!Read
<1>2. at'.next = at.next + 1 /\ at'.step \in {"idle", "looking", "reading"} /\ at'.step # "looking"
  BY <1>1 DEF WInv, WShape
<1>3. WShape' /\ Taken(looked)'
  BY <1>1, <1>2, Stays DEF WInv, WShape
<1>4. ReadSoFar' = ReadSoFar \cup {f}
  BY <1>1, <1>2 DEF ReadSoFar, WInv, WShape
<1>5. Reading'
  <2> SUFFICES ASSUME ~short.read, NEW i \in 1 .. Count, Nth(i) \in ReadSoFar \cup {f}
               PROVE  W!Look(Nth(i)) = looked[i] =>
                          file[Nth(i)] = got'[Nth(i)] \/ (file[Nth(i)] = None /\ Nth(i) # "revoked")
    BY <1>1, <1>4, Stays DEF WInv, Reading, Fresh, W!Look
  <2>1. Nth(i) \in DOMAIN got
    BY Tables DEF WInv, WShape
  <2>2. CASE Nth(i) = f
    BY <1>1, <2>1, <2>2
  <2>3. CASE Nth(i) # f
    BY <1>1, <2>1, <2>3 DEF WInv, Reading, Fresh
  <2> QED BY <2>2, <2>3
<1>6. Revoked(got)'
  BY <1>1, Tables DEF WInv, WShape, Revoked
<1> QED BY <1>1, <1>2, <1>3, <1>5, <1>6, Stays DEF WInv

LEMMA KeepInv == WInv /\ W!Keep => WInv'
<1> SUFFICES ASSUME WInv, W!Keep
             PROVE  WInv'
  OBVIOUS
<1>1. /\ UNCHANGED <<which, file, stamp, looked, got>> /\ at.step = "reading" /\ at.next > Len(W!Reads[which])
      /\ live' = W!Listed(which, got) /\ seen' = looked /\ at' = [step |-> "idle", next |-> 1]
      /\ short' = [short EXCEPT !.kept = short.read]
  BY DEF W!Keep
<1>2. UNCHANGED <<Files, Count>> /\ \A i : UNCHANGED Nth(i)
  BY <1>1 DEF Files, Count, Nth
<1>3. Files \subseteq ReadSoFar
  BY <1>1, Tables DEF ReadSoFar, WInv, WShape
<1>0. short'.kept = short.read /\ short' \in [read : BOOLEAN, kept : BOOLEAN] /\ Revoked(got)'
  BY <1>1 DEF WInv, WShape, Revoked
<1>4. ~short.read => AllFresh(looked, got)
  <2> HAVE ~short.read
  <2>1. Len(looked) = Count /\ \A i \in 1 .. Count : Nth(i) \in ReadSoFar => Fresh(looked[i], Nth(i), got[Nth(i)])
    BY <1>1 DEF WInv, Reading
  <2>2. \A i \in 1 .. Count : Nth(i) \in ReadSoFar
    BY <1>3, Tables DEF WInv, WShape
  <2> QED BY <2>1, <2>2 DEF AllFresh
<1>5. ~short.read => AllFresh(looked, got)'
  BY <1>1, <1>2, <1>4 DEF AllFresh, Fresh, W!Look
<1>6. KeptList'
  BY <1>0, <1>1, <1>5 DEF KeptList, W!Listed
<1>7. at'.step = "idle" /\ at'.next = 1 /\ seen' \in Seq(Nat) /\ looked' \in Seq(Nat)
  BY <1>1 DEF WInv, WShape
<1>8. WShape'
  BY <1>0, <1>1, <1>2, <1>7 DEF WInv, WShape
<1>9. Taken(looked)' /\ Taken(seen)'
  BY <1>1, <1>2 DEF WInv, Taken
<1> QED BY <1>0, <1>1, <1>2, <1>6, <1>7, <1>8, <1>9 DEF WInv, Reading

LEMMA UnreadableInv == WInv /\ W!Unreadable => WInv'
<1> SUFFICES ASSUME WInv, W!Unreadable
             PROVE  WInv'
  OBVIOUS
<1>1. UNCHANGED <<which, file, stamp, looked, got, seen, live, short>> /\ at' = [step |-> "idle", next |-> 1]
  BY DEF W!Unreadable
<1>2. WShape' /\ Taken(looked)' /\ Reading'
  BY <1>1, Stays DEF WInv, WShape, Reading
<1> QED BY <1>1, <1>2, Stays DEF WInv, Revoked

\* What went unread in silence is remembered until the next read.
LEMMA SwallowInv == WInv /\ W!Swallow => WInv'
<1> SUFFICES ASSUME WInv, W!Swallow
             PROVE  WInv'
  OBVIOUS
<1>1. /\ UNCHANGED <<which, file, stamp, looked, seen, live>> /\ at.step = "reading" /\ which = "saved"
      /\ at.next \in 2 .. Len(W!Reads[which])
      /\ short' = [short EXCEPT !.read = TRUE] /\ at' = [at EXCEPT !.next = @ + 1]
  BY DEF W!Swallow
<1>2. \E f \in {"pin", "devices"} : got' = [got EXCEPT ![f] = None]
  <2> DEFINE g == W!Reads[which][at.next]
  <2>1. W!Reads["saved"] = <<"contacts", "pin", "revoked", "devices">>
    BY DEF W!Reads
  <2>2. at.next \in 2 .. 4
    BY <1>1, <2>1
  <2>3. g \in {"pin", "revoked", "devices"}
    BY <1>1, <2>1, <2>2
  <2>4. got' = [got EXCEPT ![IF g = "revoked" THEN "pin" ELSE g] = None]
    BY DEF W!Swallow
  <2> HIDE DEF g
  <2> QED BY <2>3, <2>4
<1>3. short'.kept = short.kept /\ short'.read /\ short' \in [read : BOOLEAN, kept : BOOLEAN]
  BY <1>1 DEF WInv, WShape
<1>4. at'.step = "reading" /\ at'.next = at.next + 1
  BY <1>1 DEF WInv, WShape
<1>5. WShape' /\ Taken(looked)'
  BY <1>1, <1>2, <1>3, <1>4, Stays DEF WInv, WShape
<1>6. Reading'
  BY <1>1, <1>3, Stays DEF WInv, Reading
<1>7. Revoked(got)'
  BY <1>1, <1>2 DEF WInv, WShape, Revoked
<1> QED BY <1>1, <1>3, <1>4, <1>5, <1>6, <1>7, Stays DEF WInv

LEMMA WatchedStays == WInv /\ UNCHANGED watched => WInv'
<1> SUFFICES ASSUME WInv, UNCHANGED watched
             PROVE  WInv'
  OBVIOUS
<1>1. UNCHANGED <<which, file, stamp, at, looked, got, seen, live, short>>
  BY DEF watched
<1>2. WShape' /\ Taken(looked)'
  BY <1>1, Stays DEF WInv, WShape
<1>3. Reading'
  <2>1. UNCHANGED <<Count, ReadSoFar>> /\ \A i : UNCHANGED Nth(i)
    BY <1>1, Stays DEF ReadSoFar
  <2>2. \A n, f, v : Fresh(n, f, v) => Fresh(n, f, v)'
    BY <1>1 DEF Fresh, W!Look
  <2> QED BY <1>1, <2>1, <2>2 DEF WInv, Reading
<1> QED BY <1>1, <1>2, <1>3, Stays DEF WInv, Revoked

LEMMA WatchedInit == MCInit => WInv
<1> SUFFICES ASSUME MCInit
             PROVE  WInv
  OBVIOUS
<1>1. W!Init
  BY DEF MCInit
<1>2. WShape
  BY <1>1 DEF W!Init, WShape, Files, W!Unknown
<1>3. \A f \in Files : file[f] = None
  BY <1>1 DEF W!Init, Files
<1>4. Taken(looked) /\ Taken(seen)
  BY <1>1, <1>2, Tables DEF W!Init, Taken, WShape
<1> QED BY <1>1, <1>2, <1>3, <1>4 DEF WInv, W!Init, Reading, KeptList, Revoked

LEMMA WatchedNext == WInv /\ [MCNext]_all => WInv'
<1> SUFFICES ASSUME WInv, [MCNext]_all
             PROVE  WInv'
  OBVIOUS
<1>1. CASE W!Next
  BY <1>1, WriteInv, RefreshInv, StampInv, CompareInv, ReadInv, KeepInv, UnreadableInv, SwallowInv DEF W!Next
<1>2. CASE UNCHANGED watched
  BY <1>2, WatchedStays
<1> QED BY <1>1, <1>2 DEF MCNext, all

\* However writes, refreshes and faults fall between each other, for any keys: a list that would not be read again, and
\* that no fault left a part out of unsaid, has every key the files list, so that a machine they stand for is not turned
\* away by a stale list (serve/renewal.rs 93-115, serve/lookup.rs 151-190).
THEOREM ListsMissNone == MCSpec => []NoneMissing
<1>1. WInv => NoneMissing
  <2> SUFFICES ASSUME WInv, seen = W!Now, ~short.kept
               PROVE  W!Listed(which, file) \subseteq live
    BY DEF NoneMissing, W!NoneMissing
  <2>1. Len(seen) = Count /\ \A i \in 1 .. Count : seen[i] = W!Look(Nth(i))
    BY Tables DEF WInv, WShape, W!Now, Nth
  <2>2. PICK g : live = W!Listed(which, g) /\ AllFresh(seen, g) /\ Revoked(g)
    BY <2>1, Tables DEF WInv, WShape, KeptList
  <2>3. \A i \in 1 .. Count : file[Nth(i)] = g[Nth(i)] \/ (file[Nth(i)] = None /\ Nth(i) # "revoked")
    BY <2>1, <2>2, Tables DEF WInv, WShape, AllFresh, Fresh
  <2>4. CASE which = "known"
    <3>1. {Nth(i) : i \in 1 .. Count} = {"pin", "badge", "devices", "revoked"}
      BY <2>4, Tables
    <3>2. \A f \in {"pin", "badge", "devices"} : file[f] = g[f] \/ file[f] = None
      BY <2>3, <3>1
    <3> QED BY <2>2, <2>4, <3>2, HostAssumption DEF W!Listed, W!KnownList, W!Keys, W!Signet, Revoked
  <2>5. CASE which = "saved"
    <3>1. {Nth(i) : i \in 1 .. Count} = {"contacts", "pin", "devices"}
      BY <2>5, Tables
    <3>2. \A f \in {"contacts", "pin", "devices"} : file[f] = g[f] \/ file[f] = None
      BY <2>3, <3>1
    <3> QED BY <2>2, <2>5, <3>2, HostAssumption DEF W!Listed, W!SavedList, W!Keys, W!Signet, Revoked
  <2> QED BY <2>4, <2>5 DEF WInv, WShape
<1> QED BY <1>1, WatchedInit, WatchedNext, PTL DEF MCSpec

-----------------------------------------------------------------------------
(* A dial: the inductive invariant                                         *)

\* The parts of a run.
Fields == {"at", "link", "to", "asked", "key", "due", "pin", "slot1", "slot2", "dead", "took", "met", "ex", "ask"}

DialShape ==
    /\ now \in Nat
    /\ DOMAIN dial = Fields
    /\ DOMAIN dialHome = {"key", "pin", "badge", "stale"}
    /\ dialHome.badge # None => dialHome.badge.end \in 1 .. D!Last
    /\ dial.took # None => dial.took.end \in 1 .. D!Last

Early == {"idle", "machine"}

\* Before the key is read, nothing is presented or asked.
Unasked ==
    dial.at \in Early =>
        /\ dial.asked = None /\ dial.slot2 = None
        /\ dial.met = {} /\ dial.ask = "none"

\* A link is dialed without a pick-up; one that admits anyone, under the throwaway key and without a standing.
Alone ==
    /\ dial.at # "idle" /\ dial.link # None => dial.to.kind = "link" /\ dial.at # "bound"
    /\ dial.at \notin Early /\ D!Anyone(dial) =>
          /\ dial.at \notin {"badge", "refused"}
          /\ dial.key = Throw /\ dial.slot1 \in {None, dial.link} /\ dial.slot2 = None
          /\ dial.met = {} /\ dial.ask = "none"

\* What was picked up stays what the home holds, but for a later one or none.
Renewed ==
    /\ dial.at \in {"idle", "machine", "keyed", "bound"} => dial.took = None
    /\ dial.at \in {"idle", "machine", "keyed", "bound", "resolve", "badge"} => dial.slot1 = None
    /\ dial.took # None =>
          /\ dialHome.badge # None => dialHome.badge.end >= dial.took.end
          /\ dial.link = None /\ dial.slot1 # None => dial.slot1.end >= dial.took.end
    /\ dial.at = "refused" =>
          /\ D!Travels(dial)
          /\ dial.took # None => dial.dead.end >= dial.took.end

DInv == DialShape /\ Unasked /\ Alone /\ Renewed

\* A step of the run that changes the parts of some, and not the home.
Moves(some) ==
    /\ UNCHANGED <<now, dialHome, dialBook>>
    /\ DOMAIN dial' = Fields /\ \A f \in Fields \ some : dial'[f] = dial[f]

LEMMA BeginInv == DInv /\ D!Begin => DInv'
<1> SUFFICES ASSUME DInv, D!Begin
             PROVE  DInv'
  OBVIOUS
<1>0. PICK t \in Dialed : \E m \in D!Machine(t) :
         dial' = [D!Idle EXCEPT !.at = "machine", !.link = IF t.form = "link" THEN t.link ELSE None, !.to = m]
  BY DEF D!Begin
<1>1. PICK m \in D!Machine(t) :
         dial' = [D!Idle EXCEPT !.at = "machine", !.link = IF t.form = "link" THEN t.link ELSE None, !.to = m]
  BY <1>0
<1>2. UNCHANGED <<now, dialHome, dialBook>>
  BY DEF D!Begin
<1>3. t.form = "link" => m.kind = "link"
  <2> HAVE t.form = "link"
  <2>1. D!Machine(t) = {[key |-> t.link.node, kind |-> "link"]}
    BY DEF D!Machine
  <2> QED BY <2>1
<1> DEFINE typed == IF t.form = "link" THEN t.link ELSE None
<1>4. typed # None => m.kind = "link"
  BY <1>3
<1> HIDE DEF typed
<1>5. /\ DOMAIN dial' = Fields /\ dial'.at = "machine" /\ dial'.link = typed /\ dial'.to = m
      /\ dial'.asked = None /\ dial'.slot1 = None /\ dial'.slot2 = None /\ dial'.met = {} /\ dial'.ask = "none"
      /\ dial'.took = None
  BY <1>1 DEF D!Idle, Fields, typed
<1> QED BY <1>2, <1>4, <1>5 DEF DInv, DialShape, Unasked, Alone, Renewed, Early, D!Anyone, D!Last

LEMMA KeysInv == DInv /\ D!Keys => DInv'
<1> SUFFICES ASSUME DInv, D!Keys
             PROVE  DInv'
  OBVIOUS
<1> DEFINE r == [dial EXCEPT !.asked = now]
           k == IF D!Anyone(r) \/ dialHome.key = None THEN Throw ELSE dialHome.key
<1>1. dial.at = "machine" /\ dial' = [r EXCEPT !.at = "keyed", !.key = k]
  BY DEF D!Keys
<1>2. D!Anyone(r) => k = Throw
  OBVIOUS
<1>3. DOMAIN r = Fields /\ r.asked = now /\ \A f \in Fields \ {"asked"} : r[f] = dial[f]
  BY DEF DInv, DialShape, Fields
<1> HIDE DEF k
<1>4. Moves({"asked", "at", "key"}) /\ dial'.asked = now /\ dial'.key = k /\ dial'.at = "keyed"
  BY <1>1, <1>3 DEF D!Keys, Moves, Fields
<1>5. D!Anyone(dial)' => D!Anyone(r)
  BY <1>3, <1>4 DEF D!Anyone, Moves, Fields
<1> HIDE DEF r
<1> QED BY <1>1, <1>2, <1>4, <1>5 DEF Moves, Fields, DInv, DialShape, Unasked, Alone, Renewed, Early, D!Last

LEMMA RoleInv == DInv /\ D!Role => DInv'
<1> SUFFICES ASSUME DInv, D!Role
             PROVE  DInv'
  OBVIOUS
<1>1. PICK to : dial' = [dial EXCEPT !.at = to] /\ to \in {"bound", "resolve"} /\ (to = "bound" => dial.link = None)
  BY DEF D!Role
<1>2. dial.at = "keyed" /\ Moves({"at"}) /\ dial'.at \in {"bound", "resolve"} /\ (dial'.at = "bound" => dial.link = None)
  BY <1>1 DEF D!Role, Moves, DInv, DialShape, Fields
<1> QED BY <1>2 DEF Moves, Fields, DInv, DialShape, Unasked, Alone, Renewed, Early, D!Anyone, D!Last

LEMMA PickUpInv == DInv /\ D!PickUp => DInv'
<1> SUFFICES ASSUME DInv, D!PickUp
             PROVE  DInv'
  OBVIOUS
<1>0. dial.at = "bound" /\ UNCHANGED <<now, dialBook>> /\ dial.link = None
  BY DEF D!PickUp, DInv, Alone
<1>1. CASE UNCHANGED dialHome /\ \E met : dial' = [dial EXCEPT !.at = "resolve", !.met = met]
  <2>1. Moves({"at", "met"}) /\ dial'.at = "resolve"
    BY <1>0, <1>1 DEF Moves, DInv, DialShape, Fields
  <2> QED BY <1>0, <2>1 DEF Moves, Fields, DInv, DialShape, Unasked, Alone, Renewed, Early, D!Anyone, D!Last
<1>2. CASE \E b \in D!Fetched : /\ dialHome' = [dialHome EXCEPT !.badge = b]
                               /\ dial' = [dial EXCEPT !.at = "resolve", !.took = b, !.met = @ \cup D!Mine]
  <2>1. PICK b \in D!Fetched : /\ dialHome' = [dialHome EXCEPT !.badge = b]
                               /\ dial' = [dial EXCEPT !.at = "resolve", !.took = b, !.met = @ \cup D!Mine]
    BY <1>2
  <2>2. b.end \in 1 .. D!Last
    BY DEF D!Fetched, D!Badge
  <2>3. /\ DOMAIN dial' = Fields /\ dial'.at = "resolve" /\ dial'.took = b /\ dial'.link = None
        /\ dial'.slot1 = None
    BY <1>0, <2>1 DEF DInv, DialShape, Fields, Renewed
  <2>4. DOMAIN dialHome' = {"key", "pin", "badge", "stale"} /\ dialHome'.badge = b
    BY <2>1 DEF DInv, DialShape
  <2> QED BY <1>0, <2>2, <2>3, <2>4, HostAssumption
          DEF DInv, DialShape, Unasked, Alone, Renewed, Early, D!Anyone, D!Last
<1> QED BY <1>1, <1>2 DEF D!PickUp

LEMMA ResolveInv == DInv /\ D!Resolve => DInv'
<1> SUFFICES ASSUME DInv, D!Resolve
             PROVE  DInv'
  OBVIOUS
<1>0. dial.at = "resolve" /\ UNCHANGED <<now, dialHome, dialBook>>
  BY DEF D!Resolve
<1>1. CASE D!Anyone(dial)
  <2>1. Moves({"at", "slot1"}) /\ dial'.at = "dial" /\ dial'.slot1 = dial.link
    BY <1>0, <1>1 DEF D!Resolve, Moves, DInv, DialShape, Fields
  <2>2. dial.link # None
    BY <1>1 DEF D!Anyone
  <2> QED BY <1>0, <1>1, <2>1, <2>2 DEF Moves, Fields, DInv, DialShape, Unasked, Alone, Renewed, Early, D!Anyone, D!Last
<1>2. CASE ~D!Anyone(dial)
  <2>1. PICK pin : dial' = [dial EXCEPT !.at = "badge", !.pin = pin]
    BY <1>2 DEF D!Resolve
  <2>2. Moves({"at", "pin"}) /\ dial'.at = "badge"
    BY <1>0, <2>1 DEF Moves, DInv, DialShape, Fields
  <2> QED BY <1>0, <1>2, <2>2 DEF Moves, Fields, DInv, DialShape, Unasked, Alone, Renewed, Early, D!Anyone, D!Last
<1> QED BY <1>1, <1>2

LEMMA SlotsInv == DInv /\ D!Slots => DInv'
<1> SUFFICES ASSUME DInv, D!Slots
             PROVE  DInv'
  OBVIOUS
<1> DEFINE badge == IF dial.pin = None THEN None ELSE dialHome.badge
<1>0. dial.at = "badge" /\ UNCHANGED <<now, dialHome, dialBook>> /\ ~D!Anyone(dial) /\ dial.slot1 = None
  BY DEF D!Slots, DInv, Alone, Renewed, Early
<1>1. badge # None => badge = dialHome.badge
  OBVIOUS
<1>2. \/ /\ badge # None /\ D!Travels(dial) /\ dial' = [dial EXCEPT !.at = "refused", !.dead = badge]
      \/ /\ dial.link = None /\ dial' = [dial EXCEPT !.at = "dial", !.slot1 = badge]
      \/ /\ dial.link # None
         /\ \E two : dial' = [dial EXCEPT !.at = "dial", !.slot1 = dial.link, !.slot2 = two]
  BY DEF D!Slots
<1> HIDE DEF badge
<1>3. CASE badge # None /\ D!Travels(dial) /\ dial' = [dial EXCEPT !.at = "refused", !.dead = badge]
  <2>1. Moves({"at", "dead"}) /\ dial'.at = "refused" /\ dial'.dead = badge
    BY <1>0, <1>3 DEF Moves, DInv, DialShape, Fields
  <2>2. D!Travels(dial)' /\ ~D!Anyone(dial)'
    BY <1>0, <1>3, <2>1 DEF D!Travels, D!Anyone, Moves, Fields
  <2> QED BY <1>0, <1>1, <1>3, <2>1, <2>2 DEF Moves, Fields, DInv, DialShape, Unasked, Alone, Renewed, Early, D!Last
<1>4. CASE dial.link = None /\ dial' = [dial EXCEPT !.at = "dial", !.slot1 = badge]
  <2>1. Moves({"at", "slot1"}) /\ dial'.at = "dial" /\ dial'.slot1 = badge
    BY <1>0, <1>4 DEF Moves, DInv, DialShape, Fields
  <2> QED BY <1>0, <1>1, <1>4, <2>1 DEF Moves, Fields, DInv, DialShape, Unasked, Alone, Renewed, Early, D!Anyone, D!Last
<1>5. CASE /\ dial.link # None
           /\ \E two : dial' = [dial EXCEPT !.at = "dial", !.slot1 = dial.link, !.slot2 = two]
  <2>1. Moves({"at", "slot1", "slot2"}) /\ dial'.at = "dial"
    BY <1>0, <1>5 DEF Moves, DInv, DialShape, Fields
  <2> QED BY <1>0, <1>5, <2>1 DEF Moves, Fields, DInv, DialShape, Unasked, Alone, Renewed, Early, D!Anyone, D!Last
<1> QED BY <1>2, <1>3, <1>4, <1>5

LEMMA DialStartInv == DInv /\ D!Start => DInv'
<1> SUFFICES ASSUME DInv, D!Start
             PROVE  DInv'
  OBVIOUS
<1>0. dial.at = "dial" /\ UNCHANGED <<now, dialHome, dialBook>>
  BY DEF D!Start
<1>1. PICK dev, arms \in BOOLEAN :
         /\ dial' = [dial EXCEPT !.at = "verb", !.ex = IF dev THEN "open" ELSE "none",
                                 !.met = IF dev THEN @ \cup {dial.to.key} ELSE @,
                                 !.ask = IF arms THEN "armed" ELSE "none"]
         /\ D!Anyone(dial) => ~dev
         /\ dial.to.kind # "contact" => ~arms
  BY DEF D!Start
<1> DEFINE ex == IF dev THEN "open" ELSE "none"
           met == IF dev THEN dial.met \cup {dial.to.key} ELSE dial.met
           ask == IF arms THEN "armed" ELSE "none"
<1>5. dial' = [dial EXCEPT !.at = "verb", !.ex = ex, !.met = met, !.ask = ask]
  BY <1>1
<1>6. (D!Anyone(dial) => met = dial.met) /\ (dial.to.kind # "contact" => ask = "none")
  BY <1>1
<1> HIDE DEF ex, met, ask
<1>2. Moves({"at", "ex", "met", "ask"}) /\ dial'.at = "verb" /\ dial'.met = met /\ dial'.ask = ask
  BY <1>0, <1>5 DEF Moves, DInv, DialShape, Fields
<1>3. D!Anyone(dial)' => D!Anyone(dial) /\ dial.link # None
  BY <1>2 DEF Moves, Fields, D!Anyone
<1> QED BY <1>0, <1>2, <1>3, <1>6 DEF Moves, Fields, DInv, DialShape, Unasked, Alone, Renewed, Early, D!Last

\* The question moves, once one was armed, or is dropped; the exchange moves.
LEMMA AskedInv ==
    ASSUME DInv, dial.at \notin Early, dial'.at = dial.at \/ dial'.at \in {"verb", "ended", "closed"},
           Moves({"at", "ex", "ask"}), dial.ask # "none" \/ dial'.ask = "none"
    PROVE  DInv'
<1>1. (D!Anyone(dial)' => D!Anyone(dial)) /\ (D!Travels(dial) => D!Travels(dial)')
  BY DEF Moves, Fields, D!Anyone, D!Travels
<1> QED BY <1>1 DEF Moves, Fields, DInv, DialShape, Unasked, Alone, Renewed, Early, D!Last

LEMMA HomeInv ==
    ASSUME DInv, UNCHANGED <<dial, dialBook>>, now' \in Nat,
           DOMAIN dialHome' = DOMAIN dialHome,
           dialHome'.badge \in {None, dialHome.badge} \/ dialHome'.badge.end = D!Last
    PROVE  DInv'
BY HostAssumption DEF DInv, DialShape, Unasked, Alone, Renewed, Early, D!Anyone, D!Travels, D!Last

LEMMA AsksInv == DInv /\ (D!Stream \/ D!Answered \/ D!Deadline) => DInv'
<1> SUFFICES ASSUME DInv, D!Stream \/ D!Answered \/ D!Deadline
             PROVE  DInv'
  OBVIOUS
<1>1. PICK ask : dial' = [dial EXCEPT !.ask = ask]
  BY DEF D!Stream, D!Answered, D!Deadline
<1>2. dial.ask # "none" /\ UNCHANGED <<now, dialHome, dialBook>>
  BY DEF D!Stream, D!Answered, D!Deadline
<1>3. Moves({"at", "ex", "ask"}) /\ dial'.at = dial.at /\ dial.at \notin Early
  BY <1>1, <1>2 DEF Moves, DInv, DialShape, Unasked, Fields
<1> QED BY <1>2, <1>3, AskedInv

LEMMA ReturnsInv == DInv /\ (D!Returns \/ D!Close) => DInv'
<1> SUFFICES ASSUME DInv, D!Returns \/ D!Close
             PROVE  DInv'
  OBVIOUS
<1>1. PICK to \in {"ended", "closed"} : \E ex, ask :
          dial' = [dial EXCEPT !.at = to, !.ex = ex, !.ask = ask] /\ (ask # dial.ask => ask = "none")
  <2>1. CASE D!Returns
    <3> DEFINE ask == IF dial.ask = "armed" THEN "none" ELSE dial.ask
    <3>1. dial' = [dial EXCEPT !.at = "ended", !.ex = dial.ex, !.ask = ask]
      BY <2>1 DEF D!Returns, DInv, DialShape, Fields
    <3>2. ask # dial.ask => ask = "none"
      OBVIOUS
    <3> HIDE DEF ask
    <3> QED BY <3>1, <3>2
  <2>2. CASE D!Close
    <3>1. dial' = [dial EXCEPT !.at = "closed", !.ex = "none", !.ask = dial.ask]
      BY <2>2 DEF D!Close, DInv, DialShape, Fields
    <3> QED BY <3>1
  <2> QED BY <2>1, <2>2
<1>2. dial.at \in {"verb", "ended"} /\ UNCHANGED <<now, dialHome, dialBook>>
  BY DEF D!Returns, D!Close
<1>3. Moves({"at", "ex", "ask"}) /\ dial'.at = to /\ (dial'.ask = dial.ask \/ dial'.ask = "none")
  BY <1>1, <1>2 DEF Moves, DInv, DialShape, Fields
<1> QED BY <1>2, <1>3, AskedInv DEF Early

LEMMA ExchangedInv == DInv /\ D!Exchanged => DInv'
<1> SUFFICES ASSUME DInv, D!Exchanged
             PROVE  DInv'
  OBVIOUS
<1>1. PICK fresh \in BOOLEAN : dialHome' = [dialHome EXCEPT !.stale = @ /\ ~fresh]
  BY DEF D!Exchanged
<1>2. DOMAIN dialHome' = DOMAIN dialHome /\ dialHome'.badge = dialHome.badge
  BY <1>1 DEF DInv, DialShape
<1>3. DOMAIN dial' = Fields /\ (\A f \in Fields \ {"ex"} : dial'[f] = dial[f]) /\ now' = now /\ dialBook' = dialBook
  BY DEF D!Exchanged, DInv, DialShape, Fields
<1> QED BY <1>2, <1>3 DEF Fields, DInv, DialShape, Unasked, Alone, Renewed, Early, D!Anyone, D!Travels, D!Last

LEMMA IdleInv ==
    ASSUME now \in Nat, DOMAIN dialHome = {"key", "pin", "badge", "stale"},
           dialHome.badge # None => dialHome.badge.end \in 1 .. D!Last, dial = D!Idle
    PROVE  DInv
BY DEF DInv, DialShape, Unasked, Alone, Renewed, Early, Fields, D!Idle

LEMMA DoneInv == DInv /\ D!Done => DInv'
<1> SUFFICES ASSUME DInv, D!Done
             PROVE  DInv'
  OBVIOUS
<1>1. dial' = D!Idle /\ UNCHANGED <<now, dialHome, dialBook>>
  BY DEF D!Done
<1>2. DOMAIN dial' = Fields /\ dial'.at = "idle" /\ dial'.asked = None /\ dial'.slot1 = None /\ dial'.slot2 = None
      /\ dial'.met = {} /\ dial'.ask = "none" /\ dial'.took = None
  BY <1>1 DEF D!Idle, Fields
<1> QED BY <1>1, <1>2 DEF DInv, DialShape, Unasked, Alone, Renewed, Early, D!Last

LEMMA BesideInv == DInv /\ (D!Join \/ D!Pin \/ D!Leave \/ D!Replace \/ D!Tick) => DInv'
<1> SUFFICES ASSUME DInv, D!Join \/ D!Pin \/ D!Leave \/ D!Replace \/ D!Tick
             PROVE  DInv'
  OBVIOUS
<1>1. CASE D!Join
  <2>1. PICK r \in Roots : dialHome' = [dialHome EXCEPT !.badge = D!Badge(r, dialHome.key, D!Last)]
    BY <1>1 DEF D!Join
  <2>2. dialHome'.badge.end = D!Last /\ DOMAIN dialHome' = DOMAIN dialHome
    BY <2>1 DEF DInv, DialShape, D!Badge
  <2> QED BY <1>1, <2>2, HomeInv DEF D!Join, DInv, DialShape
<1>2. CASE D!Pin \/ D!Leave \/ D!Replace
  <2>1. \/ \E pin : dialHome' = [dialHome EXCEPT !.pin = pin]
        \/ \E k : dialHome' = [dialHome EXCEPT !.key = k]
        \/ dialHome' = [dialHome EXCEPT !.badge = None]
    BY <1>2 DEF D!Pin, D!Leave, D!Replace
  <2>2. DOMAIN dialHome' = DOMAIN dialHome /\ dialHome'.badge \in {None, dialHome.badge}
    BY <2>1 DEF DInv, DialShape
  <2> QED BY <1>2, <2>2, HomeInv DEF D!Pin, D!Leave, D!Replace, DInv, DialShape
<1>3. CASE D!Tick
  <2>1. now' \in Nat /\ UNCHANGED <<dialHome, dialBook, dial>>
    BY <1>3 DEF D!Tick, DInv, DialShape
  <2> QED BY <2>1, HomeInv
<1> QED BY <1>1, <1>2, <1>3

LEMMA DialInit == MCInit => DInv
<1> SUFFICES ASSUME MCInit
             PROVE  DInv
  OBVIOUS
<1>1. D!Init
  BY DEF MCInit
<1>2. DOMAIN dialHome = {"key", "pin", "badge", "stale"} /\ (dialHome.badge # None => dialHome.badge.end \in 1 .. D!Last)
  BY <1>1 DEF D!Init, D!Badge
<1> QED BY <1>1, <1>2, IdleInv DEF D!Init

LEMMA DialNext == DInv /\ [MCNext]_all => DInv'
<1> SUFFICES ASSUME DInv, [MCNext]_all
             PROVE  DInv'
  OBVIOUS
<1>1. CASE D!Next
  BY <1>1, BeginInv, KeysInv, RoleInv, PickUpInv, ResolveInv, SlotsInv, DialStartInv, AsksInv, ReturnsInv, ExchangedInv,
     DoneInv, BesideInv DEF D!Next, D!Dials
<1>2. CASE UNCHANGED dialing
  BY <1>2, HomeInv DEF dialing, DInv, DialShape
<1> QED BY <1>1, <1>2 DEF MCNext, all

\* Whatever other commands write beside the run, for any roots, keys, books and times: an anyone link's throwaway key is
\* tied to nothing of this home, and a dial presents the standing its own pick-up took, or a later one, and is refused
\* over no earlier one (main.rs 989-995, reaching.rs 303-308).
THEOREM DialPresents == MCSpec => []PresentsRight
<1>1. DInv => PresentsRight
  <2> SUFFICES ASSUME DInv
               PROVE  D!ThrowawayAlone /\ D!RenewedTravels
    BY DEF PresentsRight, D!PresentsRight
  <2>1. D!ThrowawayAlone
    BY DEF DInv, Unasked, Alone, Early, D!ThrowawayAlone, D!Anyone
  <2>2. D!RenewedTravels
    BY DEF DInv, Renewed, D!RenewedTravels, D!Travels
  <2> QED BY <2>1, <2>2
<1> QED BY <1>1, DialInit, DialNext, PTL DEF MCSpec

-----------------------------------------------------------------------------
(* The key file: the inductive invariant                                   *)

KeyFiles  == [key : Owned \cup {None}, pass : Phrases \cup {None}, touch : BOOLEAN]
RootFiles == [kept : BOOLEAN, pass : Phrases \cup {None}, touch : BOOLEAN]

WriteShape ==
    [op : {"make", "put", "take"}, with : Phrases \cup {None, "plain", "touch"}, lock : {"pass", "touch"},
     phrase : Phrases \cup {None}]

\* A file is made by a write nothing opens, and a passphrase that goes on is one.
WriteOk(w) ==
    /\ w \in WriteShape
    /\ w.op = "make" <=> w.with = None
    /\ w.op # "take" /\ w.lock = "pass" => w.phrase \in Phrases

\* The writes of a verb: a root's touch nothing but its own passphrase and touch-id; one that sets a lock takes off
\* another only once its own is on.
ActsOk(verb, acts) ==
    /\ acts \in Seq(WriteShape) /\ Len(acts) \in 1 .. 2
    /\ \A i \in 1 .. Len(acts) :
          /\ WriteOk(acts[i])
          /\ verb \in K!RootVerbs =>
                acts[i].with \in Phrases /\ ~(acts[i].op = "take" /\ acts[i].lock = "pass")
          /\ verb = "passphrase" /\ acts[i].op = "take" => acts[i].lock = "touch" /\ acts[i].with \in Phrases
          /\ verb = "touch-id" /\ acts[i].op = "take" => acts[i].lock = "pass"
          /\ verb = "touch-id" /\ acts[i].op = "take" /\ i > 1 =>
                acts[i - 1].op = "put" /\ acts[i - 1].lock = "touch"

CmdShape ==
    [verb : K!LockVerbs \cup K!RootVerbs \cup K!Intents \cup {"join", None},
     at : {"idle", "asking", "waiting", "writing", "opening", "minting", "acting", "pasting"},
     read : KeyFiles \cup RootFiles, keeps : BOOLEAN, acts : Seq(WriteShape), key : Owned \cup {None, "throwaway"}]

\* What a command is about, by how far it is.
CmdOk(r) ==
    /\ r \in CmdShape
    /\ r.at \in {"asking", "waiting", "writing"} => r.verb \in K!LockVerbs \cup K!RootVerbs
    /\ r.at = "asking" /\ r.verb \in K!LockVerbs => r.read \in KeyFiles /\ (r.read.key = None => r.read = K!NoFile)
    /\ r.at = "asking" /\ r.verb \in K!RootVerbs => r.read \in RootFiles /\ r.read.pass \in Phrases
    /\ r.at \in {"waiting", "writing"} => ActsOk(r.verb, r.acts)
    /\ r.at = "waiting" /\ r.verb = "touch-id" => r.acts[1].op # "take"
    /\ r.at = "opening" => r.read \in KeyFiles
    /\ r.at = "minting" => r.read = K!NoFile
    /\ r.at = "acting" => IF r.key = "throwaway" THEN r.read = K!NoFile /\ r.verb = "if present"
                          ELSE r.read = K!NoFile \/ r.key = r.read.key

\* A command that writes has home.lock; and what it takes off last, it has put the other lock on before.
KInv ==
    /\ keyFile \in KeyFiles /\ (keyFile.key = None => keyFile = K!NoFile)
    /\ kept \in RootFiles /\ (kept.kept <=> kept.pass # None)
    /\ DOMAIN asking = Locking /\ \A p \in Locking : CmdOk(asking[p])
    /\ \A p, q \in Locking : K!At(p, "writing") /\ K!At(q, "writing") => p = q
    /\ \A p \in Locking :
          K!At(p, "writing") /\ asking[p].verb = "touch-id" /\ asking[p].acts[1].op = "take" => keyFile.touch

\* One write, or two.
LEMMA One ==
    ASSUME NEW v \in WriteShape
    PROVE  <<v>> \in Seq(WriteShape) /\ Len(<<v>>) = 1 /\ <<v>>[1] = v
OBVIOUS

\* One write after another.
OneAfter(u, s, t) == Len(u) = 2 /\ u[1] = s[1] /\ u[2] = t[1]

LEMMA OnesJoin ==
    ASSUME NEW All, NEW s \in Seq(All), NEW t \in Seq(All), Len(s) = 1, Len(t) = 1
    PROVE  s \o t \in Seq(All) /\ OneAfter(s \o t, s, t)
<1>1. s \o t \in Seq(All)
  BY ConcatProperties
<1>2. Len(s \o t) = 2
  BY ConcatProperties
<1>3. (s \o t)[1] = s[1]
  BY ConcatProperties
<1>4. (s \o t)[2] = t[1]
  BY ConcatProperties
<1> QED BY <1>1, <1>2, <1>3, <1>4 DEF OneAfter

LEMMA Both ==
    ASSUME NEW v \in WriteShape, NEW w \in WriteShape
    PROVE  /\ <<v, w>> \in Seq(WriteShape) /\ Len(<<v, w>>) = 2
           /\ <<v, w>>[1] = v /\ <<v, w>>[2] = w
           /\ <<v>> \o <<w>> = <<v, w>> /\ <<v>> \o << >> = <<v>>
<1>1. <<v, w>> \in Seq(WriteShape) /\ Len(<<v, w>>) = 2 /\ <<v, w>>[1] = v /\ <<v, w>>[2] = w
  OBVIOUS
<1>2. <<v>> \o <<w>> = <<v, w>>
  <2> DEFINE s == <<v>>  t == <<w>>  u == <<v, w>>
  <2>1. s \in Seq(WriteShape) /\ t \in Seq(WriteShape) /\ Len(s) = 1 /\ Len(t) = 1 /\ s[1] = v /\ t[1] = w
    OBVIOUS
  <2>2. u \in Seq(WriteShape) /\ Len(u) = 2 /\ u[1] = v /\ u[2] = w
    OBVIOUS
  <2> HIDE DEF s, t, u
  <2>3. s \o t \in Seq(WriteShape) /\ OneAfter(s \o t, s, t)
    BY <2>1, OnesJoin
  <2>4. Len(s \o t) = 2 /\ \A i \in 1 .. 2 : (s \o t)[i] = u[i]
    BY <2>1, <2>2, <2>3 DEF OneAfter
  <2>5. s \o t = u
    BY <2>2, <2>3, <2>4, SeqEqual
  <2> QED BY <2>5 DEF s, t, u
<1>3. <<v>> \o << >> = <<v>>
  OBVIOUS
<1> QED BY <1>1, <1>2, <1>3

LEMMA MakeOk ==
    ASSUME NEW l \in {"pass", "touch"}, NEW new \in Phrases \cup {None}, l = "pass" => new \in Phrases
    PROVE  WriteOk(K!Make(l, new)) /\ K!Make(l, new) \in WriteShape
BY KeysAssumption DEF K!Make, WriteShape, WriteOk

LEMMA PutOk ==
    ASSUME NEW l \in {"pass", "touch"}, NEW with \in Phrases \cup {"plain", "touch"},
           NEW new \in Phrases \cup {None}, l = "pass" => new \in Phrases
    PROVE  WriteOk(K!Put(l, with, new)) /\ K!Put(l, with, new) \in WriteShape
<1>1. with # None
  BY KeysAssumption
<1> QED BY <1>1 DEF K!Put, WriteShape, WriteOk

LEMMA TakeOffOk ==
    ASSUME NEW l \in {"pass", "touch"}, NEW with \in Phrases \cup {"plain", "touch"}
    PROVE  WriteOk(K!TakeOff(l, with)) /\ K!TakeOff(l, with) \in WriteShape
<1>1. with # None
  BY KeysAssumption
<1> QED BY <1>1 DEF K!TakeOff, WriteShape, WriteOk

\* What one write, or two, have to be for a verb.
WriteFor(verb, w) ==
    /\ WriteOk(w)
    /\ verb \in K!RootVerbs => w.with \in Phrases /\ ~(w.op = "take" /\ w.lock = "pass")
    /\ verb = "passphrase" /\ w.op = "take" => w.lock = "touch" /\ w.with \in Phrases
    /\ verb = "touch-id" /\ w.op = "take" => w.lock = "pass"

LEMMA OneFor ==
    ASSUME NEW verb, NEW v, WriteFor(verb, v)
    PROVE  ActsOk(verb, <<v>>) /\ <<v>>[1] = v
<1>1. v \in WriteShape
  BY DEF WriteFor, WriteOk
<1> DEFINE s == <<v>>
<1>2. s \in Seq(WriteShape) /\ Len(s) = 1 /\ s[1] = v
  BY <1>1, One
<1> HIDE DEF s
<1>3. ActsOk(verb, s)
  BY <1>2 DEF WriteFor, ActsOk
<1> QED BY <1>2, <1>3 DEF s

LEMMA BothFor ==
    ASSUME NEW verb, NEW v, NEW w, WriteFor(verb, v), WriteFor(verb, w),
           verb = "touch-id" /\ w.op = "take" => v.op = "put" /\ v.lock = "touch"
    PROVE  ActsOk(verb, <<v, w>>) /\ <<v, w>>[1] = v /\ <<v>> \o <<w>> = <<v, w>> /\ <<v>> \o << >> = <<v>>
<1>1. v \in WriteShape /\ w \in WriteShape
  BY DEF WriteFor, WriteOk
<1> DEFINE s == <<v, w>>
<1>2. s \in Seq(WriteShape) /\ Len(s) = 2 /\ s[1] = v /\ s[2] = w
  BY <1>1, Both
<1> HIDE DEF s
<1>3. ActsOk(verb, s)
  <2>1. \A i \in 1 .. 2 : i = 1 \/ i = 2
    OBVIOUS
  <2> QED BY <1>2, <2>1 DEF WriteFor, ActsOk
<1> QED BY <1>1, <1>2, <1>3, Both DEF s

LEMMA SetsPassphrase ==
    ASSUME NEW f \in KeyFiles, f.key = None => f = K!NoFile, NEW keeps \in BOOLEAN, NEW new \in Phrases,
           NEW acts, acts = K!SetPassphrase(f, keeps, new)
    PROVE  acts = << >> \/ ActsOk("passphrase", acts)
<1>1. f.pass \in Phrases \cup {None}
  BY DEF KeyFiles
<1> DEFINE verb == "passphrase"
           made == K!Make("pass", new)  plain == K!Put("pass", "plain", new)  over == K!Put("pass", f.pass, new)
           beside == K!Put("pass", "touch", new)  gone == K!TakeOff("touch", new)
<1>2. verb \notin K!RootVerbs /\ verb # "touch-id"
  BY DEF K!RootVerbs
<1>3. WriteFor(verb, made) /\ WriteFor(verb, plain) /\ WriteFor(verb, beside) /\ (f.pass # None => WriteFor(verb, over))
  <2>1. made.op = "make" /\ plain.op = "put" /\ beside.op = "put" /\ over.op = "put"
    BY DEF K!Make, K!Put
  <2>2. WriteOk(made) /\ WriteOk(plain) /\ WriteOk(beside) /\ (f.pass # None => WriteOk(over))
    BY <1>1, MakeOk, PutOk
  <2> QED BY <1>2, <2>1, <2>2 DEF WriteFor
<1>4. WriteFor(verb, gone)
  <2>1. WriteOk(gone)
    BY TakeOffOk
  <2>2. gone.lock = "touch" /\ gone.with = new
    BY DEF K!TakeOff
  <2> QED BY <1>2, <2>1, <2>2 DEF WriteFor
<1>5. \/ acts = <<made>> \/ acts = <<plain>> \/ (f.pass # None /\ acts = <<over>>)
      \/ acts = <<beside>> \o << >> \/ acts = <<beside>> \o <<gone>>
  BY DEF K!SetPassphrase
<1> HIDE DEF verb, made, plain, over, beside, gone
<1>6. ActsOk(verb, acts)
  BY <1>2, <1>3, <1>4, <1>5, OneFor, BothFor
<1> QED BY <1>6 DEF verb

LEMMA SetsTouchId ==
    ASSUME NEW f \in KeyFiles, f.key = None => f = K!NoFile, NEW keeps \in BOOLEAN, NEW new \in Phrases,
           NEW acts, acts = K!SetTouchId(f, keeps, new)
    PROVE  acts = << >> \/ (ActsOk("touch-id", acts) /\ acts[1].op # "take")
<1>1. f.pass \in Phrases \cup {None} /\ None \in Phrases \cup {None}
  BY DEF KeyFiles
<1> DEFINE verb == "touch-id"
           made == K!Make("pass", new)  alone == K!Make("touch", None)  touch == K!Put("touch", new, None)
           plain == K!Put("pass", "plain", new)  bare == K!Put("touch", "plain", None)
           over == K!Put("touch", f.pass, None)  gone == K!TakeOff("pass", f.pass)  beside == K!Put("pass", "touch", new)
<1>2. verb \notin K!RootVerbs /\ verb # "passphrase"
  BY DEF K!RootVerbs
<1>3. /\ WriteFor(verb, made) /\ WriteFor(verb, alone) /\ WriteFor(verb, touch) /\ WriteFor(verb, plain)
      /\ WriteFor(verb, bare) /\ WriteFor(verb, beside)
      /\ f.pass # None => WriteFor(verb, over) /\ WriteFor(verb, gone)
  <2>1. WriteOk(made) /\ WriteOk(alone) /\ WriteOk(touch) /\ WriteOk(plain) /\ WriteOk(bare) /\ WriteOk(beside)
    BY <1>1, MakeOk, PutOk
  <2>2. f.pass # None => WriteOk(over) /\ WriteOk(gone)
    BY <1>1, PutOk, TakeOffOk
  <2>3. /\ made.op = "make" /\ alone.op = "make" /\ touch.op = "put" /\ plain.op = "put" /\ bare.op = "put"
        /\ beside.op = "put" /\ over.op = "put" /\ gone.lock = "pass"
    BY DEF K!Make, K!Put, K!TakeOff
  <2> QED BY <1>2, <2>1, <2>2, <2>3 DEF WriteFor
<1>4. /\ made.op # "take" /\ alone.op # "take" /\ touch.op # "take" /\ plain.op # "take" /\ bare.op # "take"
      /\ beside.op # "take" /\ over.op = "put" /\ over.op # "take" /\ over.lock = "touch"
  BY DEF K!Make, K!Put
<1>5. \/ acts = <<made, touch>> \/ acts = <<alone>> \/ acts = <<plain, touch>> \/ acts = <<bare>>
      \/ (f.pass # None /\ acts = <<over>> \o << >>) \/ (f.pass # None /\ acts = <<over>> \o <<gone>>)
      \/ acts = <<beside>> \/ acts = << >>
  BY DEF K!SetTouchId
<1> HIDE DEF verb, made, alone, touch, plain, bare, over, gone, beside
<1>6. acts = << >> \/ (ActsOk(verb, acts) /\ acts[1].op # "take")
  <2>1. CASE acts = <<made, touch>>
    <3>1. verb = "touch-id" /\ touch.op = "take" => made.op = "put" /\ made.lock = "touch"
      BY <1>4
    <3>2. ActsOk(verb, <<made, touch>>) /\ <<made, touch>>[1] = made
      BY <1>3, <3>1, BothFor
    <3> QED BY <1>4, <2>1, <3>2
  <2>2. CASE acts = <<plain, touch>>
    <3>1. verb = "touch-id" /\ touch.op = "take" => plain.op = "put" /\ plain.lock = "touch"
      BY <1>4
    <3>2. ActsOk(verb, <<plain, touch>>) /\ <<plain, touch>>[1] = plain
      BY <1>3, <3>1, BothFor
    <3> QED BY <1>4, <2>2, <3>2
  <2>3. CASE acts = <<alone>> \/ acts = <<bare>> \/ acts = <<beside>>
    BY <1>3, <1>4, <2>3, OneFor
  <2>4. CASE f.pass # None /\ (acts = <<over>> \o << >> \/ acts = <<over>> \o <<gone>>)
    <3>1. WriteFor(verb, over) /\ WriteFor(verb, gone)
      BY <1>3, <2>4
    <3>2. verb = "touch-id" /\ gone.op = "take" => over.op = "put" /\ over.lock = "touch"
      BY <1>4
    <3>3. /\ ActsOk(verb, <<over, gone>>) /\ <<over, gone>>[1] = over
          /\ <<over>> \o <<gone>> = <<over, gone>> /\ <<over>> \o << >> = <<over>>
      BY <3>1, <3>2, BothFor
    <3>4. ActsOk(verb, <<over>>) /\ <<over>>[1] = over
      BY <3>1, OneFor
    <3> QED BY <1>4, <2>4, <3>3, <3>4
  <2> QED BY <1>5, <2>1, <2>2, <2>3, <2>4
<1> QED BY <1>6 DEF verb

LEMMA TakesOff ==
    ASSUME NEW f \in KeyFiles, NEW verb \in {"passphrase --remove", "touch-id --remove"}, NEW keeps \in BOOLEAN,
           NEW acts, acts = K!RemovePassphrase(f, keeps) \/ acts = K!RemoveTouchId(f)
    PROVE  acts = << >> \/ ActsOk(verb, acts)
<1>1. f.pass \in Phrases \cup {None}
  BY DEF KeyFiles
<1> DEFINE pass == K!TakeOff("pass", f.pass)  touch == K!TakeOff("touch", f.pass)  alone == K!TakeOff("touch", "touch")
<1>2. verb \notin K!RootVerbs /\ verb # "touch-id" /\ verb # "passphrase"
  BY DEF K!RootVerbs
<1>3. WriteFor(verb, alone) /\ (f.pass # None => WriteFor(verb, pass) /\ WriteFor(verb, touch))
  BY <1>1, <1>2, TakeOffOk DEF WriteFor
<1>4. acts = << >> \/ acts = <<alone>> \/ (f.pass # None /\ (acts = <<pass>> \/ acts = <<touch>>))
  BY DEF K!RemovePassphrase, K!RemoveTouchId
<1> HIDE DEF pass, touch, alone
<1> QED BY <1>3, <1>4, OneFor

LEMMA LocksRoot ==
    ASSUME NEW f \in RootFiles, f.pass \in Phrases, NEW verb \in K!RootVerbs, NEW new \in Phrases,
           NEW acts, acts = K!RootLock(verb, f, new)
    PROVE  acts = << >> \/ ActsOk(verb, acts)
<1> DEFINE pass == K!Put("pass", f.pass, new)  touch == K!Put("touch", f.pass, None)  gone == K!TakeOff("touch", f.pass)
<1>1. verb # "touch-id" /\ verb # "passphrase"
  BY DEF K!RootVerbs
<1>2. WriteOk(pass) /\ WriteOk(touch) /\ WriteOk(gone)
  BY PutOk, TakeOffOk
<1>3. /\ pass.with = f.pass /\ touch.with = f.pass /\ gone.with = f.pass
      /\ pass.op = "put" /\ touch.op = "put" /\ gone.lock = "touch"
  BY DEF K!Put, K!TakeOff
<1>4. acts = << >> \/ acts = <<pass>> \/ acts = <<touch>> \/ acts = <<gone>>
  BY DEF K!RootLock
<1> HIDE DEF pass, touch, gone
<1>5. WriteFor(verb, pass) /\ WriteFor(verb, touch) /\ WriteFor(verb, gone)
  BY <1>1, <1>2, <1>3 DEF WriteFor
<1> QED BY <1>4, <1>5, OneFor

-----------------------------------------------------------------------------
(* The key file: every step                                                *)

LEMMA Resting == CmdOk(K!Rest) /\ K!Rest.at = "idle"
<1>1. K!Rest \in CmdShape
  <2>1. K!NoFile \in KeyFiles
    BY DEF K!NoFile, KeyFiles
  <2>2. << >> \in Seq(WriteShape)
    OBVIOUS
  <2> QED BY <2>1, <2>2 DEF K!Rest, CmdShape
<1>2. K!Rest.at = "idle"
  BY DEF K!Rest
<1> QED BY <1>1, <1>2 DEF CmdOk

\* A step of one command that does not write: the other commands are as they were.
LEMMA AsideKeeps ==
    ASSUME KInv, NEW p \in Locking, NEW r, CmdOk(r), r.at # "writing", asking' = [asking EXCEPT ![p] = r],
           UNCHANGED kept, keyFile' \in KeyFiles, keyFile'.key = None => keyFile' = K!NoFile,
           keyFile.touch => keyFile'.touch
    PROVE  KInv'
<1>1. DOMAIN asking' = Locking /\ asking'[p] = r /\ \A q \in Locking \ {p} : asking'[q] = asking[q]
  BY DEF KInv
<1>2. \A q \in Locking : CmdOk(asking'[q])
  BY <1>1 DEF KInv
<1>3. \A q \in Locking : asking'[q].at = "writing" => q # p /\ asking'[q] = asking[q]
  BY <1>1
<1>4. \A q, o \in Locking : asking'[q].at = "writing" /\ asking'[o].at = "writing" => q = o
  BY <1>3 DEF KInv, K!At
<1>5. \A q \in Locking : asking'[q].at = "writing" /\ asking'[q].verb = "touch-id" /\ asking'[q].acts[1].op = "take"
        => keyFile'.touch
  BY <1>3 DEF KInv, K!At
<1>6. kept' \in RootFiles /\ (kept'.kept <=> kept'.pass # None)
  BY DEF KInv
<1> HIDE DEF CmdOk
<1> QED BY <1>1, <1>2, <1>4, <1>5, <1>6 DEF KInv, K!At

\* A step that changes a file and no command is taken while none writes.
LEMMA OutsideKeeps ==
    ASSUME KInv, UNCHANGED asking, ~K!HomeLocked, keyFile' \in KeyFiles, keyFile'.key = None => keyFile' = K!NoFile,
           kept' \in RootFiles, kept'.kept <=> kept'.pass # None
    PROVE  KInv'
BY DEF KInv, K!HomeLocked, K!At

LEMMA BeginKeeps ==
    ASSUME KInv, NEW p \in Locking, NEW verb \in K!LockVerbs \cup K!RootVerbs, K!Begin(p, verb)
    PROVE  KInv'
<1> DEFINE r == [K!Rest EXCEPT !.verb = verb, !.at = "asking", !.read = K!Aimed(verb), !.keeps = kept.kept]
<1>1. K!Rest \in CmdShape
  BY Resting DEF CmdOk
<1>2. K!Aimed(verb) \in KeyFiles \cup RootFiles /\ kept.kept \in BOOLEAN
  BY DEF KInv, K!Aimed, RootFiles
<1>3. /\ r \in CmdShape
      /\ r.verb = verb /\ r.at = "asking" /\ r.read = K!Aimed(verb)
  BY <1>1, <1>2 DEF CmdShape
<1>4. verb \in K!LockVerbs => verb \notin K!RootVerbs
  BY DEF K!LockVerbs, K!RootVerbs
<1>5. verb \in K!LockVerbs => r.read \in KeyFiles /\ (r.read.key = None => r.read = K!NoFile)
  BY <1>3, <1>4 DEF KInv, K!Aimed
<1>6. verb \in K!RootVerbs => r.read \in RootFiles /\ r.read.pass \in Phrases
  BY <1>3 DEF KInv, K!Aimed, K!Begin, RootFiles
<1>7. asking' = [asking EXCEPT ![p] = r] /\ UNCHANGED <<keyFile, kept>>
  BY DEF K!Begin
<1> HIDE DEF r
<1>8. CmdOk(r) /\ r.at # "writing"
  BY <1>3, <1>5, <1>6 DEF CmdOk
<1> QED BY <1>7, <1>8, AsideKeeps DEF KInv

\* What an answer does is what its verb may do.
LEMMA AnswerActs ==
    ASSUME NEW r, CmdOk(r), r.at = "asking", NEW keeps \in BOOLEAN, NEW new \in Phrases,
           NEW acts, acts = K!Acts(r.verb, r.read, keeps, new), acts # << >>
    PROVE  ActsOk(r.verb, acts) /\ (r.verb = "touch-id" => acts[1].op # "take")
<1>1. r.verb \in K!LockVerbs \cup K!RootVerbs
  BY DEF CmdOk
<1>2. r.verb \in K!LockVerbs => r.read \in KeyFiles /\ (r.read.key = None => r.read = K!NoFile)
  BY DEF CmdOk
<1>3. r.verb \in K!RootVerbs => r.read \in RootFiles /\ r.read.pass \in Phrases
  BY DEF CmdOk
<1>4. CASE r.verb = "passphrase"
  <2>1. acts = K!SetPassphrase(r.read, keeps, new)
    BY <1>4 DEF K!Acts, K!RootVerbs
  <2> QED BY <1>2, <1>4, <2>1, SetsPassphrase DEF K!LockVerbs
<1>5. CASE r.verb = "touch-id"
  <2>1. acts = K!SetTouchId(r.read, keeps, new)
    BY <1>5 DEF K!Acts, K!RootVerbs
  <2> QED BY <1>2, <1>5, <2>1, SetsTouchId DEF K!LockVerbs
<1>6. CASE r.verb \in {"passphrase --remove", "touch-id --remove"}
  <2>1. acts = K!RemovePassphrase(r.read, keeps) \/ acts = K!RemoveTouchId(r.read)
    BY <1>6 DEF K!Acts, K!RootVerbs
  <2> QED BY <1>2, <1>6, <2>1, TakesOff DEF K!LockVerbs
<1>7. CASE r.verb \in K!RootVerbs
  <2>1. acts = K!RootLock(r.verb, r.read, new)
    BY <1>7 DEF K!Acts, K!RootVerbs
  <2>2. r.verb # "touch-id"
    BY <1>7 DEF K!RootVerbs
  <2> QED BY <1>3, <1>7, <2>1, <2>2, LocksRoot
<1> QED BY <1>1, <1>4, <1>5, <1>6, <1>7 DEF K!LockVerbs

LEMMA AnswerKeeps ==
    ASSUME KInv, NEW p \in Locking, NEW new \in Phrases, K!Answer(p, new)
    PROVE  KInv'
<1> DEFINE keeps == IF asking[p].verb = "passphrase" THEN kept.kept ELSE asking[p].keeps
           acts == K!Acts(asking[p].verb, asking[p].read, keeps, new)
           r == [asking[p] EXCEPT !.at = "waiting", !.keeps = keeps, !.acts = acts]
<1>1. CmdOk(asking[p]) /\ asking[p] \in CmdShape /\ asking[p].at = "asking"
  BY DEF KInv, CmdOk, K!Answer, K!At
<1>2. keeps \in BOOLEAN
  BY <1>1 DEF CmdShape, KInv, RootFiles
<1>3. asking' = [asking EXCEPT ![p] = IF acts = << >> THEN K!Rest ELSE r] /\ UNCHANGED <<keyFile, kept>>
  BY DEF K!Answer, KInv
<1>4. CASE acts = << >>
  <2>1. asking' = [asking EXCEPT ![p] = K!Rest]
    BY <1>3, <1>4
  <2>2. CmdOk(K!Rest) /\ K!Rest.at # "writing"
    BY Resting
  <2> HIDE DEF keeps, acts, r
  <2> QED BY <1>3, <2>1, <2>2, AsideKeeps DEF KInv
<1>5. CASE acts # << >>
  <2>1. ActsOk(asking[p].verb, acts) /\ (asking[p].verb = "touch-id" => acts[1].op # "take")
    <3> HIDE DEF keeps
    <3>1. acts = K!Acts(asking[p].verb, asking[p].read, keeps, new)
      OBVIOUS
    <3> HIDE DEF acts
    <3> QED BY <1>1, <1>2, <1>5, <3>1, AnswerActs
  <2>2. acts \in Seq(WriteShape)
    BY <2>1 DEF ActsOk
  <2>3. asking[p].verb \in K!LockVerbs \cup K!RootVerbs
    BY <1>1 DEF CmdOk
  <2>4. asking' = [asking EXCEPT ![p] = r]
    BY <1>3, <1>5
  <2> HIDE DEF keeps, acts
  <2>5. r \in CmdShape /\ r.verb = asking[p].verb /\ r.at = "waiting" /\ r.acts = acts
    BY <1>1, <1>2, <2>2 DEF CmdShape
  <2> HIDE DEF r
  <2>6. CmdOk(r) /\ r.at # "writing"
    BY <2>1, <2>3, <2>5 DEF CmdOk
  <2> QED BY <1>3, <2>4, <2>6, AsideKeeps DEF KInv
<1> QED BY <1>4, <1>5

LEMMA TakeKeeps ==
    ASSUME KInv, NEW p \in Locking, K!Take(p)
    PROVE  KInv'
<1> DEFINE r == [asking[p] EXCEPT !.at = "writing"]
<1>1. CmdOk(asking[p]) /\ asking[p] \in CmdShape /\ asking[p].at = "waiting"
  BY DEF KInv, CmdOk, K!Take, K!At
<1>2. asking' = [asking EXCEPT ![p] = r] /\ UNCHANGED <<keyFile, kept>>
  BY DEF K!Take
<1>3. /\ r \in CmdShape /\ r.at = "writing"
      /\ r.verb = asking[p].verb /\ r.acts = asking[p].acts
  BY <1>1 DEF CmdShape
<1> HIDE DEF r
<1>4. CmdOk(r)
  BY <1>1, <1>3 DEF CmdOk
<1>5. r.verb = "touch-id" => r.acts[1].op # "take"
  BY <1>1, <1>3 DEF CmdOk
<1>6. DOMAIN asking' = Locking /\ asking'[p] = r /\ \A q \in Locking \ {p} : asking'[q] = asking[q] /\ asking'[q].at # "writing"
  BY <1>2 DEF KInv, K!Take, K!HomeLocked, K!At
<1>7. \A q \in Locking : CmdOk(asking'[q])
  BY <1>4, <1>6 DEF KInv
<1> HIDE DEF CmdOk
<1> QED BY <1>2, <1>5, <1>6, <1>7 DEF KInv, K!At

LEMMA QuitKeeps ==
    ASSUME KInv, NEW p \in Locking, K!Quit(p)
    PROVE  KInv'
<1>1. CmdOk(K!Rest) /\ K!Rest.at # "writing"
  BY Resting
<1> QED BY <1>1, AsideKeeps DEF KInv, K!Quit

LEMMA UseKeeps ==
    ASSUME KInv, NEW p \in Locking, NEW intent \in K!Intents, K!Use(p, intent)
    PROVE  KInv'
<1> DEFINE where == IF keyFile # K!NoFile THEN "opening" ELSE IF intent = "persisted" THEN "minting" ELSE "acting"
           whose == IF keyFile = K!NoFile /\ intent = "if present" THEN "throwaway" ELSE None
           r == [K!Rest EXCEPT !.verb = intent, !.read = keyFile, !.at = where, !.key = whose]
<1>1. K!Rest \in CmdShape
  BY Resting DEF CmdOk
<1>2. where \in {"opening", "minting", "acting"} /\ whose \in {None, "throwaway"} /\ keyFile \in KeyFiles
  BY DEF KInv
<1>3. /\ where = "opening" <=> keyFile # K!NoFile
      /\ where = "acting" => keyFile = K!NoFile /\ whose = "throwaway" /\ intent = "if present"
  BY DEF K!Intents
<1>4. asking' = [asking EXCEPT ![p] = r] /\ UNCHANGED <<keyFile, kept>>
  BY DEF K!Use
<1> HIDE DEF where, whose
<1>5. r \in CmdShape /\ r.verb = intent /\ r.at = where /\ r.read = keyFile /\ r.key = whose
  BY <1>1, <1>2 DEF CmdShape
<1> HIDE DEF r
<1>6. CmdOk(r) /\ r.at # "writing"
  BY <1>2, <1>3, <1>5 DEF CmdOk
<1> QED BY <1>4, <1>6, AsideKeeps DEF KInv

\* A run that comes to act, under the key of the file it read.
LEMMA ActsAsRead ==
    ASSUME KInv, NEW p \in Locking, asking[p].at = "opening", NEW k, k = asking[p].read.key,
           asking' = [asking EXCEPT ![p].at = "acting", ![p].key = k], UNCHANGED <<keyFile, kept>>
    PROVE  KInv'
<1> DEFINE r == [asking[p] EXCEPT !.at = "acting", !.key = k]
<1>1. CmdOk(asking[p]) /\ asking[p] \in CmdShape /\ asking[p].read \in KeyFiles
  BY DEF KInv, CmdOk
<1>2. k \in Owned \cup {None}
  BY <1>1 DEF KeyFiles
<1>3. k # "throwaway"
  BY <1>2, KeysAssumption
<1>4. asking' = [asking EXCEPT ![p] = r]
  BY <1>1 DEF CmdShape, KInv
<1>5. /\ r \in CmdShape /\ r.at = "acting"
      /\ r.read = asking[p].read /\ r.key = k
  BY <1>1, <1>2 DEF CmdShape
<1> HIDE DEF r
<1>6. CmdOk(r) /\ r.at # "writing"
  BY <1>3, <1>5 DEF CmdOk
<1> QED BY <1>4, <1>6, AsideKeeps DEF KInv

LEMMA OpenedKeeps ==
    ASSUME KInv, NEW p \in Locking, K!Opened(p) \/ K!Touched(p)
    PROVE  KInv'
<1>1. asking[p].at = "opening" /\ UNCHANGED <<keyFile, kept>>
  BY DEF K!Opened, K!Touched, K!At
<1> DEFINE k == asking[p].read.key
<1>2. asking' = [asking EXCEPT ![p].at = "acting", ![p].key = k]
  BY DEF K!Opened, K!Touched
<1> HIDE DEF k
<1>3. k = asking[p].read.key
  BY DEF k
<1> QED BY <1>1, <1>2, <1>3, ActsAsRead

LEMMA MintKeeps ==
    ASSUME KInv, NEW p \in Locking, K!Mint(p)
    PROVE  KInv'
<1>1. PICK k \in Owned :
        /\ keyFile' = [K!NoFile EXCEPT !.key = k]
        /\ asking' = [asking EXCEPT ![p].at = IF @ = "minting" /\ asking[p].verb = "join" THEN "pasting" ELSE "acting",
                                    ![p].key = k]
  BY DEF K!Mint
<1> DEFINE where == IF asking[p].at = "minting" /\ asking[p].verb = "join" THEN "pasting" ELSE "acting"
           r == [asking[p] EXCEPT !.at = where, !.key = k]
<1>2. CmdOk(asking[p]) /\ asking[p] \in CmdShape /\ asking[p].read = K!NoFile
  BY DEF KInv, CmdOk, K!Mint, K!At
<1>3. k # "throwaway" /\ k # None
  BY KeysAssumption
<1>4. asking' = [asking EXCEPT ![p] = r]
  BY <1>1, <1>2 DEF CmdShape, KInv
<1>5. where \in {"acting", "pasting"}
  OBVIOUS
<1> HIDE DEF where
<1>6. /\ r \in CmdShape /\ r.at = where
      /\ r.read = asking[p].read /\ r.key = k
  BY <1>2, <1>5 DEF CmdShape
<1> HIDE DEF r
<1>7. CmdOk(r) /\ r.at # "writing"
  BY <1>2, <1>3, <1>5, <1>6 DEF CmdOk
<1>8. keyFile' \in KeyFiles /\ keyFile'.key # None /\ UNCHANGED kept /\ ~keyFile.touch
  BY <1>1, <1>3 DEF K!NoFile, KeyFiles, K!Mint
<1> QED BY <1>4, <1>7, <1>8, AsideKeeps

LEMMA JoinKeeps ==
    ASSUME KInv, NEW p \in Locking, K!Join(p)
    PROVE  KInv'
<1> DEFINE r == [K!Rest EXCEPT !.verb = "join", !.at = "minting"]
<1>1. K!Rest \in CmdShape /\ K!Rest.read = K!NoFile
  BY Resting DEF CmdOk, K!Rest
<1>2. r \in CmdShape /\ r.verb = "join" /\ r.at = "minting" /\ r.read = K!NoFile
  BY <1>1 DEF CmdShape
<1>3. asking' = [asking EXCEPT ![p] = r] /\ UNCHANGED <<keyFile, kept>>
  BY DEF K!Join
<1> HIDE DEF r
<1>4. CmdOk(r) /\ r.at # "writing"
  BY <1>2 DEF CmdOk
<1> QED BY <1>3, <1>4, AsideKeeps DEF KInv

LEMMA PasteKeeps ==
    ASSUME KInv, NEW p \in Locking, K!Paste(p)
    PROVE  KInv'
<1>1. PICK k \in Owned \ {keyFile.key} : keyFile' = [K!NoFile EXCEPT !.key = k]
  BY DEF K!Paste
<1>2. keyFile' \in KeyFiles /\ keyFile'.key # None /\ UNCHANGED kept /\ ~keyFile.touch
  BY <1>1, KeysAssumption DEF K!NoFile, KeyFiles, K!Paste, K!Sealed
<1>3. asking' = [asking EXCEPT ![p] = K!Rest] /\ CmdOk(K!Rest) /\ K!Rest.at # "writing"
  BY Resting DEF K!Paste
<1> QED BY <1>2, <1>3, AsideKeeps

LEMMA OutsideSteps ==
    ASSUME KInv, K!Replace \/ K!RootComes \/ K!RootGoes
    PROVE  KInv'
<1>1. CASE K!Replace
  <2>1. PICK k \in Owned \ {keyFile.key}, phrase \in {None} \cup Phrases :
          keyFile' = [key |-> k, pass |-> phrase, touch |-> FALSE]
    BY <1>1 DEF K!Replace
  <2>2. keyFile' \in KeyFiles /\ keyFile'.key # None
    BY <2>1, KeysAssumption DEF KeyFiles
  <2> QED BY <1>1, <2>2, OutsideKeeps DEF KInv, K!Replace
<1>2. CASE K!RootComes
  <2>1. PICK phrase \in Phrases : kept' = [kept |-> TRUE, pass |-> phrase, touch |-> FALSE]
    BY <1>2 DEF K!RootComes
  <2>2. kept' \in RootFiles /\ kept'.kept /\ kept'.pass # None
    BY <2>1, KeysAssumption DEF RootFiles
  <2> QED BY <1>2, <2>2, OutsideKeeps DEF KInv, K!RootComes
<1>3. CASE K!RootGoes
  <2>1. kept' \in RootFiles /\ ~kept'.kept /\ kept'.pass = None
    BY <1>3 DEF RootFiles, K!RootGoes, K!NoRoot
  <2> QED BY <1>3, <2>1, OutsideKeeps DEF KInv, K!RootGoes
<1> QED BY <1>1, <1>2, <1>3

-----------------------------------------------------------------------------
(* The key file: the writes, and the theorem                               *)

\* What a write of a command leaves in the file it is for.
LEMMA WriteMakes ==
    ASSUME NEW f, f \in KeyFiles \/ f \in RootFiles, NEW w, WriteOk(w)
    PROVE  LET g == K!Locked(f, w) IN
           /\ f \in KeyFiles => g \in KeyFiles /\ g.key = f.key
           /\ f \in RootFiles => g \in RootFiles /\ g.kept = f.kept
           /\ w.lock = "pass" /\ w.op # "take" => g.pass \in Phrases
           /\ w.lock = "pass" => g.touch = f.touch
           /\ w.lock = "touch" => g.pass = f.pass /\ (g.touch <=> w.op # "take")
<1>1. /\ w.op \in {"make", "put", "take"} /\ w.lock \in {"pass", "touch"} /\ w.phrase \in Phrases \cup {None}
      /\ w.lock = "pass" /\ w.op # "take" => w.phrase \in Phrases
  BY DEF WriteOk, WriteShape
<1> DEFINE phrase == IF w.op = "take" THEN None ELSE w.phrase
           on == w.op # "take"
<1>2. phrase \in Phrases \cup {None} /\ on \in BOOLEAN /\ (on => phrase = w.phrase) /\ (on <=> w.op # "take")
  BY <1>1
<1>3. K!Locked(f, w) = IF w.lock = "pass" THEN [f EXCEPT !.pass = phrase] ELSE [f EXCEPT !.touch = on]
  BY DEF K!Locked
<1> HIDE DEF phrase, on
<1>4. CASE f \in KeyFiles
  <2>1. f \notin RootFiles
    BY <1>4 DEF KeyFiles, RootFiles
  <2> QED BY <1>1, <1>2, <1>3, <1>4, <2>1 DEF KeyFiles
<1>5. CASE f \in RootFiles
  <2>1. f \notin KeyFiles
    BY <1>5 DEF KeyFiles, RootFiles
  <2> QED BY <1>1, <1>2, <1>3, <1>5, <2>1 DEF RootFiles
<1> QED BY <1>4, <1>5

\* The write a command is at.
LEMMA AtAWrite ==
    ASSUME KInv, NEW p \in Locking, K!Write(p)
    PROVE  LET r == asking[p]  w == Head(asking[p].acts) IN
           /\ CmdOk(r) /\ r \in CmdShape /\ r.at = "writing" /\ ActsOk(r.verb, r.acts)
           /\ w = r.acts[1] /\ WriteOk(w) /\ K!Opens(K!Aimed(r.verb), w)
           /\ r.verb \in K!LockVerbs \cup K!RootVerbs
           /\ r.verb \in K!RootVerbs => w.with \in Phrases /\ ~(w.op = "take" /\ w.lock = "pass")
           /\ r.verb = "passphrase" /\ w.op = "take" => w.lock = "touch" /\ w.with \in Phrases
           /\ r.verb = "touch-id" /\ w.op = "take" => w.lock = "pass" /\ keyFile.touch
<1>1. CmdOk(asking[p]) /\ asking[p] \in CmdShape /\ asking[p].at = "writing"
  BY DEF KInv, CmdOk, K!Write, K!At
<1>2. ActsOk(asking[p].verb, asking[p].acts) /\ asking[p].verb \in K!LockVerbs \cup K!RootVerbs
  BY <1>1 DEF CmdOk
<1>3. asking[p].acts \in Seq(WriteShape) /\ Len(asking[p].acts) \in 1 .. 2 /\ 1 \in 1 .. Len(asking[p].acts)
  <2>1. asking[p].acts \in Seq(WriteShape) /\ Len(asking[p].acts) \in 1 .. 2
    BY <1>2 DEF ActsOk
  <2>2. \A n \in 1 .. 2 : 1 \in 1 .. n
    OBVIOUS
  <2>3. 1 \in 1 .. Len(asking[p].acts)
    BY <2>1, <2>2
  <2> QED BY <2>1, <2>3
<1>4. Head(asking[p].acts) = asking[p].acts[1]
  BY <1>3
<1>5. K!Opens(K!Aimed(asking[p].verb), Head(asking[p].acts))
  BY DEF K!Write
<1>6. asking[p].verb = "touch-id" /\ asking[p].acts[1].op = "take" => keyFile.touch
  BY <1>1 DEF KInv, K!At
<1> QED BY <1>1, <1>2, <1>3, <1>4, <1>5, <1>6 DEF ActsOk

\* What a write leaves of the key file: the key, unless it made it; and it is sealed, unless a lock was to go.
LEMMA WriteOfKey ==
    ASSUME KInv, NEW p \in Locking, K!Write(p), asking[p].verb \notin K!RootVerbs
    PROVE  LET w == Head(asking[p].acts) IN
           /\ keyFile' \in KeyFiles /\ keyFile'.key # None /\ UNCHANGED kept
           /\ keyFile.key # None => keyFile'.key = keyFile.key
           /\ keyFile.key # None /\ asking[p].verb \notin {"passphrase --remove", "touch-id --remove"}
                => K!Sealed(keyFile')
           /\ w.lock = "touch" /\ w.op # "take" => keyFile'.touch
<1> DEFINE w == Head(asking[p].acts)
<1>1. /\ WriteOk(w) /\ K!Opens(keyFile, w) /\ asking[p].verb \in K!LockVerbs
      /\ asking[p].verb = "passphrase" /\ w.op = "take" => w.lock = "touch" /\ w.with \in Phrases
      /\ asking[p].verb = "touch-id" /\ w.op = "take" => w.lock = "pass" /\ keyFile.touch
  BY AtAWrite DEF K!Aimed
<1>2. /\ \E k \in IF w.op = "make" THEN Owned ELSE {keyFile.key} : keyFile' = [K!Locked(keyFile, w) EXCEPT !.key = k]
      /\ UNCHANGED kept
  BY DEF K!Write
<1> HIDE DEF w
<1>3. PICK k \in IF w.op = "make" THEN Owned ELSE {keyFile.key} : keyFile' = [K!Locked(keyFile, w) EXCEPT !.key = k]
  BY <1>2
<1>4. keyFile \in KeyFiles /\ (keyFile.key = None => keyFile = K!NoFile)
  BY DEF KInv
<1> DEFINE g == K!Locked(keyFile, w)
<1>5. /\ g \in KeyFiles /\ g.key = keyFile.key
      /\ w.lock = "pass" /\ w.op # "take" => g.pass \in Phrases
      /\ w.lock = "pass" => g.touch = keyFile.touch
      /\ w.lock = "touch" => g.pass = keyFile.pass /\ (g.touch <=> w.op # "take")
  BY <1>1, <1>4, WriteMakes
<1> HIDE DEF g
<1>6. k \in Owned \cup {None}
  BY <1>3, <1>4 DEF KeyFiles
<1>7. keyFile' \in KeyFiles /\ keyFile'.key = k /\ keyFile'.pass = g.pass /\ keyFile'.touch = g.touch
  BY <1>3, <1>5, <1>6 DEF g, KeyFiles
<1>8. w.op = "make" <=> w.with = None
  BY <1>1 DEF WriteOk
<1>9. w.with \in Phrases \cup {None, "plain", "touch"} /\ w.op \in {"make", "put", "take"} /\ w.lock \in {"pass", "touch"}
  BY <1>1 DEF WriteOk, WriteShape
<1>10. keyFile.key = None => w.op = "make"
  <2> SUFFICES ASSUME keyFile = K!NoFile, w.with # None PROVE FALSE
    BY <1>4, <1>8
  <2>1. keyFile.pass = None /\ ~keyFile.touch
    BY DEF K!NoFile
  <2>2. w.with \notin Phrases
    BY <1>1, <1>9, <2>1, KeysAssumption DEF K!Opens
  <2> QED BY <1>1, <1>9, <2>1, <2>2, KeysAssumption DEF K!Opens
<1>11. keyFile.key # None => w.op # "make" /\ k = keyFile.key
  <2> SUFFICES ASSUME keyFile.key # None, w.op = "make" PROVE FALSE
    BY <1>3
  <2>1. keyFile = K!NoFile
    BY <1>1, <1>8, KeysAssumption DEF K!Opens
  <2> QED BY <2>1 DEF K!NoFile
<1>12. keyFile'.key # None
  BY <1>3, <1>7, <1>10, <1>11, KeysAssumption
<1>13. ASSUME keyFile.key # None, asking[p].verb \notin {"passphrase --remove", "touch-id --remove"}
       PROVE  K!Sealed(keyFile')
  <2>1. asking[p].verb = "passphrase" \/ asking[p].verb = "touch-id"
    BY <1>1, <1>13 DEF K!LockVerbs
  <2>2. CASE w.op # "take"
    <3>1. g.pass \in Phrases \/ g.touch
      BY <1>5, <1>9, <2>2
    <3> QED BY <1>7, <3>1, KeysAssumption DEF K!Sealed
  <2>3. CASE w.op = "take" /\ asking[p].verb = "passphrase"
    <3>1. w.lock = "touch" /\ w.with \in Phrases
      BY <1>1, <2>3
    <3>2. keyFile.pass = w.with
      BY <1>1, <3>1, KeysAssumption DEF K!Opens
    <3> QED BY <1>5, <1>7, <3>1, <3>2, KeysAssumption DEF K!Sealed
  <2>4. CASE w.op = "take" /\ asking[p].verb = "touch-id"
    BY <1>1, <1>5, <1>7, <2>4 DEF K!Sealed
  <2> QED BY <2>1, <2>2, <2>3, <2>4
<1> QED BY <1>2, <1>5, <1>7, <1>11, <1>12, <1>13 DEF w

\* A write of a root's locks: the root keeps a passphrase.
LEMMA WriteOfRoot ==
    ASSUME KInv, NEW p \in Locking, K!Write(p), asking[p].verb \in K!RootVerbs
    PROVE  UNCHANGED keyFile /\ kept' \in RootFiles /\ (kept'.kept <=> kept'.pass # None)
<1> DEFINE w == Head(asking[p].acts)
<1>1. WriteOk(w) /\ K!Opens(kept, w) /\ w.with \in Phrases /\ ~(w.op = "take" /\ w.lock = "pass")
  BY AtAWrite DEF K!Aimed
<1>2. kept' = K!Locked(kept, w) /\ UNCHANGED keyFile
  BY DEF K!Write
<1> HIDE DEF w
<1>3. kept \in RootFiles /\ (kept.kept <=> kept.pass # None)
  BY DEF KInv
<1>4. kept.pass = w.with
  BY <1>1, KeysAssumption DEF K!Opens
<1>5. /\ kept' \in RootFiles /\ kept'.kept = kept.kept
      /\ w.lock = "pass" /\ w.op # "take" => kept'.pass \in Phrases
      /\ w.lock = "touch" => kept'.pass = kept.pass
  BY <1>1, <1>2, <1>3, WriteMakes
<1>6. w.lock \in {"pass", "touch"}
  BY <1>1 DEF WriteOk, WriteShape
<1> QED BY <1>1, <1>2, <1>3, <1>4, <1>5, <1>6, KeysAssumption

LEMMA WriteKeeps ==
    ASSUME KInv, NEW p \in Locking, K!Write(p)
    PROVE  KInv'
<1> DEFINE r == asking[p]  w == Head(asking[p].acts)
           s == [asking[p] EXCEPT !.acts = Tail(asking[p].acts)]
<1>1. /\ CmdOk(r) /\ r \in CmdShape /\ r.at = "writing" /\ ActsOk(r.verb, r.acts) /\ w = r.acts[1]
      /\ r.verb \in K!LockVerbs \cup K!RootVerbs
  BY AtAWrite
<1>2. r.acts \in Seq(WriteShape) /\ Len(r.acts) \in 1 .. 2
  BY <1>1 DEF ActsOk
<1>3. asking' = [asking EXCEPT ![p] = IF Len(r.acts) = 1 THEN K!Rest ELSE s]
  BY DEF K!Write, KInv
<1>4. /\ keyFile' \in KeyFiles /\ (keyFile'.key = None => keyFile' = K!NoFile)
      /\ kept' \in RootFiles /\ (kept'.kept <=> kept'.pass # None)
      /\ r.verb = "touch-id" /\ w.lock = "touch" /\ w.op # "take" => keyFile'.touch
  <2>1. CASE r.verb \in K!RootVerbs
    <3>1. r.verb # "touch-id"
      BY <2>1 DEF K!RootVerbs
    <3> QED BY <2>1, <3>1, WriteOfRoot DEF KInv
  <2>2. CASE r.verb \notin K!RootVerbs
    <3>1. kept \in RootFiles /\ (kept.kept <=> kept.pass # None)
      BY DEF KInv
    <3>2. /\ keyFile' \in KeyFiles /\ keyFile'.key # None /\ UNCHANGED kept
          /\ w.lock = "touch" /\ w.op # "take" => keyFile'.touch
      BY <2>2, WriteOfKey
    <3> HIDE DEF r, w
    <3> QED BY <3>1, <3>2
  <2> QED BY <2>1, <2>2
<1>5. \A q \in Locking \ {p} : asking[q].at # "writing"
  BY <1>1 DEF KInv, K!At
<1>6. CASE Len(r.acts) = 1
  <2>1. DOMAIN asking' = Locking /\ asking'[p] = K!Rest /\ \A q \in Locking \ {p} : asking'[q] = asking[q]
    BY <1>3, <1>6 DEF KInv
  <2>2. \A q \in Locking : CmdOk(asking'[q]) /\ asking'[q].at # "writing"
    BY <1>5, <2>1, Resting DEF KInv
  <2> HIDE DEF r, w, s, CmdOk
  <2> QED BY <1>4, <2>1, <2>2 DEF KInv, K!At
<1>7. CASE Len(r.acts) # 1
  <2>1. Len(r.acts) = 2
    BY <1>2, <1>7
  <2> DEFINE rest == Tail(r.acts)
  <2>2. rest \in Seq(WriteShape) /\ Len(rest) = 1 /\ rest[1] = r.acts[2]
    BY <1>2, <2>1
  <2>3. /\ s \in CmdShape /\ s.at = "writing" /\ s.verb = r.verb /\ s.acts = rest
    <3> HIDE DEF rest
    <3>1. s = [r EXCEPT !.acts = rest]
      BY DEF rest
    <3> HIDE DEF r, s
    <3> QED BY <1>1, <2>2, <3>1 DEF CmdShape
  <2>4. asking' = [asking EXCEPT ![p] = s]
    BY <1>3, <1>7
  <2> HIDE DEF rest, s
  <2>5. ActsOk(r.verb, rest)
    <3>1. 2 \in 1 .. Len(r.acts)
      BY <2>1
    <3> HIDE DEF r
    <3> QED BY <1>1, <2>2, <3>1 DEF ActsOk
  <2>6. CmdOk(s)
    <3> HIDE DEF r
    <3> QED BY <1>1, <2>3, <2>5 DEF CmdOk
  <2>7. s.verb = "touch-id" /\ s.acts[1].op = "take" => keyFile'.touch
    <3>1. 2 \in 1 .. Len(r.acts)
      BY <2>1
    <3>2. r.verb = "touch-id" /\ r.acts[2].op = "take" => w.op = "put" /\ w.lock = "touch"
      <4> HIDE DEF r, w
      <4> QED BY <1>1, <3>1 DEF ActsOk
    <3> QED BY <1>4, <2>2, <2>3, <3>2
  <2>8. DOMAIN asking' = Locking /\ asking'[p] = s /\ \A q \in Locking \ {p} : asking'[q] = asking[q]
    BY <2>4 DEF KInv
  <2>9. \A q \in Locking : CmdOk(asking'[q])
    BY <2>6, <2>8 DEF KInv
  <2> HIDE DEF r, w, CmdOk
  <2>10. \A q \in Locking : asking'[q].at = "writing" => q = p
    BY <1>5, <2>8
  <2> QED BY <1>4, <2>7, <2>8, <2>9, <2>10 DEF KInv, K!At
<1> QED BY <1>6, <1>7

LEMMA KeysStep ==
    ASSUME KInv, K!Next
    PROVE  KInv'
<1>1. CASE K!Replace \/ K!RootComes \/ K!RootGoes
  BY <1>1, OutsideSteps
<1>2. CASE \E p \in Locking, verb \in K!LockVerbs \cup K!RootVerbs : K!Begin(p, verb)
  BY <1>2, BeginKeeps
<1>3. CASE \E p \in Locking, new \in Phrases : K!Answer(p, new)
  BY <1>3, AnswerKeeps
<1>4. CASE \E p \in Locking, intent \in K!Intents : K!Use(p, intent)
  BY <1>4, UseKeeps
<1>5. CASE \E p \in Locking : K!Take(p) \/ K!Write(p) \/ K!Quit(p)
  BY <1>5, TakeKeeps, WriteKeeps, QuitKeeps
<1>6. CASE \E p \in Locking : K!Opened(p) \/ K!Touched(p) \/ K!Mint(p) \/ K!Join(p) \/ K!Paste(p)
  BY <1>6, OpenedKeeps, MintKeeps, JoinKeeps, PasteKeeps
<1> QED BY <1>1, <1>2, <1>3, <1>4, <1>5, <1>6 DEF K!Next

\* What the steps of a command may do to a key that is there.
LEMMA KeysOneStep ==
    ASSUME KInv, K!Next
    PROVE  /\ keyFile.key # None /\ keyFile'.key = keyFile.key /\ K!Sealed(keyFile) /\ ~K!Sealed(keyFile')
                => \E p \in Locking : K!At(p, "writing") /\ asking[p].verb \in {"passphrase --remove", "touch-id --remove"}
           /\ keyFile.key # None /\ keyFile'.key # keyFile.key
                => K!Replace \/ (~K!Sealed(keyFile) /\ \E p \in Locking : K!At(p, "pasting") /\ asking[p].key = keyFile.key)
<1>1. CASE UNCHANGED keyFile
  BY <1>1
<1>2. CASE K!Replace
  <2>1. keyFile'.key # keyFile.key
    BY <1>2 DEF K!Replace
  <2> QED BY <1>2, <2>1
<1>3. CASE \E p \in Locking : K!Write(p) /\ asking[p].verb \notin K!RootVerbs
  <2>1. PICK p \in Locking : K!Write(p) /\ asking[p].verb \notin K!RootVerbs
    BY <1>3
  <2>2. K!At(p, "writing")
    BY <2>1 DEF K!Write
  <2> QED BY <2>1, <2>2, WriteOfKey
<1>4. CASE \E p \in Locking : K!Mint(p)
  BY <1>4 DEF K!Mint, K!NoFile
<1>5. CASE \E p \in Locking : K!Paste(p)
  <2>1. PICK p \in Locking : K!Paste(p)
    BY <1>5
  <2>2. keyFile'.key # keyFile.key
    <3>1. PICK k \in Owned \ {keyFile.key} : keyFile' = [K!NoFile EXCEPT !.key = k]
      BY <2>1 DEF K!Paste
    <3> QED BY <3>1 DEF K!NoFile
  <2>3. K!At(p, "pasting") /\ asking[p].key = keyFile.key /\ ~K!Sealed(keyFile)
    BY <2>1 DEF K!Paste
  <2> QED BY <2>2, <2>3
<1>6. \A p \in Locking : K!Write(p) /\ asking[p].verb \in K!RootVerbs => UNCHANGED keyFile
  BY WriteOfRoot
<1>7. \A p \in Locking :
        /\ \A verb : K!Begin(p, verb) => UNCHANGED keyFile
        /\ \A new : K!Answer(p, new) => UNCHANGED keyFile
        /\ \A intent : K!Use(p, intent) => UNCHANGED keyFile
        /\ K!Take(p) \/ K!Quit(p) \/ K!Opened(p) \/ K!Touched(p) \/ K!Join(p) => UNCHANGED keyFile
  BY DEF K!Begin, K!Answer, K!Use, K!Take, K!Quit, K!Opened, K!Touched, K!Join
<1>8. K!RootComes \/ K!RootGoes => UNCHANGED keyFile
  BY DEF K!RootComes, K!RootGoes
<1> QED BY <1>1, <1>2, <1>3, <1>4, <1>5, <1>6, <1>7, <1>8 DEF K!Next

LEMMA KeysStart == MCInit => KInv
<1> SUFFICES ASSUME MCInit PROVE KInv
  OBVIOUS
<1>1. K!Init
  BY DEF MCInit
<1>2. keyFile \in KeyFiles /\ (keyFile.key = None => keyFile = K!NoFile)
  <2>1. K!NoFile \in KeyFiles
    BY DEF K!NoFile, KeyFiles
  <2> QED BY <1>1, <2>1, KeysAssumption DEF K!Init, KeyFiles
<1>3. kept \in RootFiles /\ (kept.kept <=> kept.pass # None)
  BY <1>1 DEF K!Init, K!NoRoot, RootFiles
<1>4. DOMAIN asking = Locking /\ \A p \in Locking : CmdOk(asking[p]) /\ asking[p].at = "idle"
  BY <1>1, Resting DEF K!Init
<1> QED BY <1>2, <1>3, <1>4 DEF KInv, K!At

\* In the part that is the key file's, a step is one of its actions; in the others the key file's variables stay.
LEMMA KeysOrNot == [MCNext]_all => (K!Next \/ UNCHANGED keys) /\ UNCHANGED part
BY DEF MCNext, all, keys, services, people, start, watched, dialing, vars

LEMMA KeysHold == MCSpec => []KInv
<1>1. KInv /\ [MCNext]_all => KInv'
  <2> SUFFICES ASSUME KInv, [MCNext]_all PROVE KInv'
    OBVIOUS
  <2>1. CASE K!Next
    BY <2>1, KeysStep
  <2>2. CASE UNCHANGED keys
    BY <2>2 DEF keys, KInv, K!At
  <2> QED BY <2>1, <2>2, KeysOrNot
<1> QED BY <1>1, KeysStart, PTL DEF MCSpec

\* A sealed key is left with no lock by nobody but its owner's removal of one, however changes of locks, serves and
\* `join`s run beside each other and stop halfway; it is replaced by name only; and a run acts as the machine whose key
\* file it read (identity.rs 18-27, 299-311, 878-886; touch.rs 434-436).
THEOREM KeyIsTheOwners == MCSpec => KeyByOwner
<1>1. KInv => (part = "keys" => K!TypeOK /\ K!ActsAs)
  <2> SUFFICES ASSUME KInv PROVE K!TypeOK /\ K!ActsAs
    OBVIOUS
  <2>1. \A p \in Locking : asking[p].at = "acting" =>
          IF asking[p].key = "throwaway" THEN asking[p].read = K!NoFile /\ asking[p].verb = "if present"
          ELSE asking[p].read = K!NoFile \/ asking[p].key = asking[p].read.key
    BY DEF KInv, CmdOk
  <2> QED BY <2>1 DEF KInv, K!TypeOK, K!KeyFile, K!ActsAs, K!At, KeyFiles, RootFiles
<1>2. KInv /\ [MCNext]_all =>
        [keyFile.key # None /\ keyFile'.key = keyFile.key /\ K!Sealed(keyFile) /\ ~K!Sealed(keyFile')
           => \E p \in Locking : K!At(p, "writing") /\ asking[p].verb \in {"passphrase --remove", "touch-id --remove"}]_(K!vars)
  BY KeysOneStep, KeysOrNot DEF keys, K!vars
<1>3. KInv /\ [MCNext]_all =>
        [keyFile.key # None /\ keyFile'.key # keyFile.key
           => K!Replace \/ (~K!Sealed(keyFile) /\ \E p \in Locking : K!At(p, "pasting") /\ asking[p].key = keyFile.key)]_(K!vars)
  BY KeysOneStep, KeysOrNot DEF keys, K!vars
<1> QED BY <1>1, <1>2, <1>3, KeysHold, PTL DEF MCSpec, KeyByOwner, K!StaysSealed, K!ReplacedByName

-----------------------------------------------------------------------------
(* The address book: the inductive invariant                               *)

PersonShape ==
    [dev : [Labels -> Saveable \cup {None}], root : Shown \cup {None}, from : Labels \cup {None},
     seen : [Labels -> Shown \cup {None}]]

AddressBooks == [Persons -> PersonShape]

LinkStates ==
    [at : {"none", "bound", "live", "ended"}, holder : Saveable \cup {None}, kind : {"none", "fleet", "machine"}]

EditShape ==
    [at : {"idle", "shown", "offered", "learning", "remembering", "adding", "typing", "saving"},
     p : Persons \cup {None}, l : Labels \cup {None}, old : Shown \cup {None}, new : Shown \cup {None}]

NamesDevice(b, k) == \E p \in Persons, l \in Labels : b[p].dev[l] = k
NamesRoot(b, k)   == \E p \in Persons : b[p].root = k
HasName(b, k)     == NamesDevice(b, k) \/ NamesRoot(b, k)

\* One key, one name: of one machine, or of one person by their root, and never of both.
OneHolder(b) ==
    \A k \in Saveable :
        /\ \A p, q \in Persons, l, m \in Labels : b[p].dev[l] = k /\ b[q].dev[m] = k => p = q /\ l = m
        /\ \A p, q \in Persons : b[p].root = k /\ b[q].root = k => p = q
        /\ ~(NamesDevice(b, k) /\ NamesRoot(b, k))
        /\ k \in MyMachines => ~HasName(b, k)

BookOk(b) == b \in AddressBooks /\ OneHolder(b) /\ P!Decodes(b)

\* What a command is about; what one that replaces a root has read under the lock still stands.
EditOk(i) ==
    LET r == naming[i] IN
    /\ r.at # "idle" => r.p \in Persons /\ r.new \in Shown
    /\ r.at \in {"shown", "offered", "learning", "remembering"} => r.l \in Labels
    /\ r.at \in {"typing", "saving"} => r.old \in Shown /\ r.old # r.new
    /\ r.at = "saving" =>
          /\ bookLock = i /\ book[r.p].root = r.old
          /\ r.new \notin MyMachines /\ ~NamesDevice(book, r.new)
          /\ \A q \in Persons : book[q].root = r.new => q = r.p
          /\ \A x \in Given : given[x].holder = r.old => given[x].at # "live" \/ given[x].kind # "fleet"

\* What may stay live of the links of a key whose last name goes.
NoneLeft(k) ==
    \A x \in Given : given[x].holder = k /\ given'[x].at = "live" =>
        given[x].kind # "fleet" /\ \E i \in Editing : naming[i].at = "saving" /\ naming[i].old = k

PInv ==
    /\ BookOk(book)
    /\ given \in [Given -> LinkStates] /\ bookLock \in Editing \cup {None}
    /\ naming \in [Editing -> EditShape]
    /\ \A i \in Editing : EditOk(i)

LEMMA NamesAre ==
    ASSUME NEW b, NEW k
    PROVE  P!Names(b, k) # {} <=> HasName(b, k)
<1>1. ASSUME P!Names(b, k) # {} PROVE HasName(b, k)
  <2>1. PICK n \in P!Names(b, k) : TRUE
    BY <1>1
  <2>2. CASE n \in Persons \X Labels /\ b[n[1]].dev[n[2]] = k
    BY <2>2 DEF HasName, NamesDevice
  <2>3. CASE \E p \in Persons : b[p].root = k
    BY <2>3 DEF HasName, NamesRoot
  <2> QED BY <2>1, <2>2, <2>3 DEF P!Names
<1>2. ASSUME NEW p \in Persons, NEW l \in Labels, b[p].dev[l] = k PROVE P!Names(b, k) # {}
  <2>1. <<p, l>> \in {n \in Persons \X Labels : b[n[1]].dev[n[2]] = k}
    BY <1>2
  <2> QED BY <2>1 DEF P!Names
<1>3. ASSUME NEW p \in Persons, b[p].root = k PROVE P!Names(b, k) # {}
  BY <1>3 DEF P!Names
<1> QED BY <1>1, <1>2, <1>3 DEF HasName, NamesDevice, NamesRoot

LEMMA SavedIs ==
    ASSUME NEW b, NEW k
    PROVE  P!SavedAt(b, k) <=> HasName(b, k) \/ k \in MyMachines
BY NamesAre DEF P!SavedAt

\* One holder is one name.
LEMMA HolderIsName ==
    ASSUME NEW b, OneHolder(b), NEW k \in Saveable
    PROVE  (\A m, n \in P!Names(b, k) : m = n) /\ (k \in MyMachines => P!Names(b, k) = {})
<1>1. \A n, o \in P!Names(b, k) : n = o
  <2> SUFFICES ASSUME NEW n \in P!Names(b, k), NEW o \in P!Names(b, k) PROVE n = o
    OBVIOUS
  <2>1. \A x \in Persons \X Labels : x = <<x[1], x[2]>> /\ x[1] \in Persons /\ x[2] \in Labels
    OBVIOUS
  <2>2. \/ n \in Persons \X Labels /\ b[n[1]].dev[n[2]] = k
        \/ \E p \in Persons : n = <<p, None>> /\ b[p].root = k
    BY DEF P!Names
  <2>3. \/ o \in Persons \X Labels /\ b[o[1]].dev[o[2]] = k
        \/ \E p \in Persons : o = <<p, None>> /\ b[p].root = k
    BY DEF P!Names
  <2>4. /\ \A p, q \in Persons, l, m \in Labels : b[p].dev[l] = k /\ b[q].dev[m] = k => p = q /\ l = m
        /\ \A p, q \in Persons : b[p].root = k /\ b[q].root = k => p = q
        /\ \A p, q \in Persons, l \in Labels : ~(b[p].dev[l] = k /\ b[q].root = k)
    BY DEF OneHolder, NamesDevice, NamesRoot
  <2>5. CASE n \in Persons \X Labels /\ b[n[1]].dev[n[2]] = k
    <3>1. o \in Persons \X Labels /\ b[o[1]].dev[o[2]] = k
      BY <2>1, <2>3, <2>4, <2>5
    <3>2. n[1] = o[1] /\ n[2] = o[2]
      BY <2>1, <2>4, <2>5, <3>1
    <3> QED BY <2>1, <2>5, <3>1, <3>2
  <2>6. CASE \E p \in Persons : n = <<p, None>> /\ b[p].root = k
    BY <2>1, <2>3, <2>4, <2>6
  <2> QED BY <2>2, <2>5, <2>6
<1>2. k \in MyMachines => P!Names(b, k) = {}
  BY NamesAre DEF OneHolder
<1> QED BY <1>1, <1>2

-----------------------------------------------------------------------------
(* The address book: what a save, a lesson and a removal leave             *)

LEMMA RootPut ==
    ASSUME NEW b \in AddressBooks, NEW p \in Persons, NEW r \in Shown \cup {None}, NEW from \in Labels \cup {None}
    PROVE  LET c == P!WithRoot(b, p, r, from) IN
           /\ c \in AddressBooks
           /\ \A q \in Persons : c[q].dev = b[q].dev /\ c[q].seen = b[q].seen
           /\ c[p].root = r /\ c[p].from = from
           /\ \A q \in Persons \ {p} : c[q].root = b[q].root /\ c[q].from = b[q].from
BY DEF AddressBooks, PersonShape, P!WithRoot

LEMMA SeenPut ==
    ASSUME NEW b \in AddressBooks, NEW p \in Persons, NEW l \in Labels, NEW r \in Shown
    PROVE  LET c == P!Seen(b, p, l, r) IN
           /\ c \in AddressBooks
           /\ \A q \in Persons : c[q].root = b[q].root /\ c[q].from = b[q].from /\ c[q].dev = b[q].dev
           /\ \A q \in Persons, m \in Labels :
                 c[q].seen[m] = b[q].seen[m] \/ (q = p /\ m = l /\ b[p].dev[l] # None)
BY DEF AddressBooks, PersonShape, P!Seen

\* A root put in place of none, or of itself, is one no name holds: it leaves the book as it should be, and every key
\* its name.
LEMMA NewRootOk ==
    ASSUME NEW b, BookOk(b), NEW p \in Persons, NEW r \in Shown, NEW from \in Labels \cup {None},
           r \notin MyMachines, ~NamesDevice(b, r), \A q \in Persons : b[q].root = r => q = p
    PROVE  BookOk(P!WithRoot(b, p, r, from))
<1> DEFINE c == P!WithRoot(b, p, r, from)
<1>1. b \in AddressBooks
  BY DEF BookOk
<1>2. /\ c \in AddressBooks
      /\ \A q \in Persons : c[q].dev = b[q].dev /\ c[q].seen = b[q].seen
      /\ c[p].root = r /\ c[p].from = from
      /\ \A q \in Persons \ {p} : c[q].root = b[q].root /\ c[q].from = b[q].from
  BY <1>1, RootPut
<1> HIDE DEF c
<1>3. OneHolder(c)
  <2>1. OneHolder(b)
    BY DEF BookOk
  <2> QED BY <1>2, <2>1 DEF OneHolder, HasName, NamesDevice, NamesRoot
<1>4. P!Decodes(c)
  <2>1. P!Decodes(b) /\ r # None
    BY PeopleAssumption DEF BookOk
  <2> QED BY <1>2, <2>1 DEF P!Decodes
<1> QED BY <1>2, <1>3, <1>4 DEF BookOk, c

LEMMA SavedOk ==
    ASSUME NEW b, BookOk(b), NEW p \in Persons, NEW l \in Labels \cup {None}, NEW k \in Saveable, l = None => k \in Shown
    PROVE  LET c == P!Saved(b, p, l, k) IN
           /\ BookOk(c)
           /\ \A q \in Persons : c[q].root = b[q].root \/ b[q].root = None
           /\ \A j \in Saveable : HasName(b, j) => HasName(c, j)
<1> DEFINE c == P!Saved(b, p, l, k)
<1>1. b \in AddressBooks /\ OneHolder(b) /\ P!Decodes(b)
  BY DEF BookOk
<1>2. CASE c = b
  BY <1>2
<1>3. CASE l = None /\ (b[p].root = k \/ (b[p].root = None /\ ~P!SavedAt(b, k)))
  <2>1. c = P!WithRoot(b, p, k, None)
    BY <1>3 DEF P!Saved
  <2>2. k \in Shown /\ k \notin MyMachines /\ ~NamesDevice(b, k) /\ \A q \in Persons : b[q].root = k => q = p
    BY <1>1, <1>3, SavedIs DEF OneHolder, HasName, NamesRoot
  <2> HIDE DEF c
  <2>3. BookOk(c)
    BY <2>1, <2>2, NewRootOk
  <2>4. /\ \A q \in Persons : c[q].dev = b[q].dev /\ c[q].seen = b[q].seen
        /\ c[p].root = k
        /\ \A q \in Persons \ {p} : c[q].root = b[q].root
    BY <1>1, <2>1, <2>2, RootPut
  <2>5. \A q \in Persons : c[q].root = b[q].root \/ b[q].root = None
    BY <1>3, <2>4
  <2>6. \A j \in Saveable : HasName(b, j) => HasName(c, j)
    BY <2>4, <2>5, PeopleAssumption DEF HasName, NamesDevice, NamesRoot
  <2> QED BY <2>3, <2>5, <2>6 DEF c
<1>4. CASE l # None /\ b[p].dev[l] = None /\ ~P!SavedAt(b, k)
  <2>1. c = [b EXCEPT ![p].dev[l] = k]
    BY <1>4 DEF P!Saved
  <2>2. l \in Labels /\ ~HasName(b, k) /\ k \notin MyMachines
    BY <1>4, SavedIs
  <2> HIDE DEF c
  <2>3. /\ c \in AddressBooks
        /\ \A q \in Persons : c[q].root = b[q].root /\ c[q].from = b[q].from /\ c[q].seen = b[q].seen
        /\ c[p].dev[l] = k
        /\ \A q \in Persons, m \in Labels : <<q, m>> # <<p, l>> => c[q].dev[m] = b[q].dev[m]
    <3>1. k \in Saveable \cup {None}
      OBVIOUS
    <3> QED BY <1>1, <2>1, <2>2, <3>1 DEF AddressBooks, PersonShape
  <2>4. OneHolder(c)
    BY <1>1, <2>2, <2>3 DEF OneHolder, HasName, NamesDevice, NamesRoot
  <2>5. P!Decodes(c)
    BY <1>1, <1>4, <2>2, <2>3, PeopleAssumption DEF P!Decodes
  <2>6. \A j \in Saveable : HasName(b, j) => HasName(c, j)
    BY <1>4, <2>3, PeopleAssumption DEF HasName, NamesDevice, NamesRoot
  <2> QED BY <2>3, <2>4, <2>5, <2>6 DEF BookOk, c
<1> QED BY <1>2, <1>3, <1>4 DEF P!Saved

LEMMA SeenOk ==
    ASSUME NEW b, BookOk(b), NEW p \in Persons, NEW l \in Labels, NEW r \in Shown
    PROVE  LET c == P!Seen(b, p, l, r) IN
           /\ BookOk(c)
           /\ \A q \in Persons : c[q].root = b[q].root
           /\ \A j \in Saveable : HasName(b, j) <=> HasName(c, j)
<1> DEFINE c == P!Seen(b, p, l, r)
<1>1. b \in AddressBooks /\ OneHolder(b) /\ P!Decodes(b)
  BY DEF BookOk
<1>2. /\ c \in AddressBooks
      /\ \A q \in Persons : c[q].root = b[q].root /\ c[q].from = b[q].from /\ c[q].dev = b[q].dev
      /\ \A q \in Persons, m \in Labels :
            c[q].seen[m] = b[q].seen[m] \/ (q = p /\ m = l /\ b[p].dev[l] # None)
  BY <1>1, SeenPut
<1> HIDE DEF c
<1>3. OneHolder(c) /\ \A j \in Saveable : HasName(b, j) <=> HasName(c, j)
  BY <1>1, <1>2 DEF OneHolder, HasName, NamesDevice, NamesRoot
<1>4. P!Decodes(c)
  BY <1>1, <1>2 DEF P!Decodes
<1> QED BY <1>2, <1>3, <1>4 DEF BookOk, c

LEMMA LearnedOk ==
    ASSUME NEW b, BookOk(b), NEW p \in Persons, NEW l \in Labels, NEW r \in Shown
    PROVE  LET c == P!Learned(b, p, l, r) IN
           /\ BookOk(c)
           /\ \A q \in Persons : c[q].root = b[q].root \/ b[q].root = None
           /\ \A j \in Saveable : HasName(b, j) => HasName(c, j)
<1> DEFINE c == P!Learned(b, p, l, r)
<1>1. b \in AddressBooks
  BY DEF BookOk
<1>2. CASE c = b
  BY <1>2
<1>3. CASE b[p].root = None /\ ~P!SavedAt(b, r)
  <2>1. c = P!WithRoot(b, p, r, l)
    BY <1>3 DEF P!Learned
  <2>2. r \notin MyMachines /\ ~NamesDevice(b, r) /\ \A q \in Persons : b[q].root # r
    BY <1>3, SavedIs DEF HasName, NamesRoot
  <2> HIDE DEF c
  <2>3. BookOk(c)
    BY <2>1, <2>2, NewRootOk
  <2>4. /\ \A q \in Persons : c[q].dev = b[q].dev /\ c[q].seen = b[q].seen
        /\ \A q \in Persons \ {p} : c[q].root = b[q].root
    BY <1>1, <2>1, RootPut
  <2>5. \A q \in Persons : c[q].root = b[q].root \/ b[q].root = None
    BY <1>3, <2>4
  <2>6. \A j \in Saveable : HasName(b, j) => HasName(c, j)
    BY <2>4, <2>5, PeopleAssumption DEF HasName, NamesDevice, NamesRoot
  <2> QED BY <2>3, <2>5, <2>6 DEF c
<1> QED BY <1>2, <1>3 DEF P!Learned

\* What goes with a name: nothing but that name's keys.
LEMMA RemovedOk ==
    ASSUME NEW b, BookOk(b), NEW p \in Persons, NEW l \in Labels \cup {None}
    PROVE  LET c == P!Removed(b, p, l) IN
           /\ BookOk(c)
           /\ \A q \in Persons : c[q].root = b[q].root \/ c[q].root = None
           /\ \A j \in Saveable : HasName(b, j) /\ ~HasName(c, j) => j \in P!Holders(b, p, l)
<1> DEFINE c == P!Removed(b, p, l)
<1>1. b \in AddressBooks /\ OneHolder(b) /\ P!Decodes(b)
  BY DEF BookOk
<1>2. CASE l = None
  <2>1. c = [b EXCEPT ![p] = P!Nobody]
    BY <1>2 DEF P!Removed
  <2>2. /\ P!Nobody \in PersonShape
        /\ P!Nobody.root = None /\ P!Nobody.from = None
        /\ \A m \in Labels : P!Nobody.dev[m] = None /\ P!Nobody.seen[m] = None
    BY DEF P!Nobody, PersonShape
  <2> HIDE DEF c
  <2>3. /\ c \in AddressBooks /\ c[p] = P!Nobody
        /\ \A q \in Persons \ {p} : c[q] = b[q]
    BY <1>1, <2>1, <2>2 DEF AddressBooks
  <2>4. OneHolder(c)
    BY <1>1, <2>2, <2>3, PeopleAssumption DEF OneHolder, HasName, NamesDevice, NamesRoot
  <2>5. P!Decodes(c)
    BY <1>1, <2>2, <2>3 DEF P!Decodes
  <2>6. \A j \in Saveable : HasName(b, j) /\ ~HasName(c, j) => j \in P!Holders(b, p, l)
    <3> SUFFICES ASSUME NEW j \in Saveable, HasName(b, j), ~HasName(c, j) PROVE j \in P!Holders(b, p, l)
      OBVIOUS
    <3>1. b[p].root = j \/ \E m \in Labels : b[p].dev[m] = j
      BY <2>3 DEF HasName, NamesDevice, NamesRoot
    <3> QED BY <1>2, <3>1, PeopleAssumption DEF P!Holders
  <2>7. \A q \in Persons : c[q].root = b[q].root \/ c[q].root = None
    BY <2>2, <2>3
  <2> QED BY <2>3, <2>4, <2>5, <2>6, <2>7 DEF BookOk, c
<1>3. CASE l # None
  <2>1. c = [b EXCEPT ![p].dev[l] = None, ![p].seen[l] = None]
    BY <1>3 DEF P!Removed
  <2> HIDE DEF c
  <2>2. /\ c \in AddressBooks
        /\ \A q \in Persons : c[q].root = b[q].root /\ c[q].from = b[q].from
        /\ c[p].dev[l] = None /\ c[p].seen[l] = None
        /\ \A q \in Persons, m \in Labels :
              <<q, m>> # <<p, l>> => c[q].dev[m] = b[q].dev[m] /\ c[q].seen[m] = b[q].seen[m]
    BY <1>1, <1>3, <2>1 DEF AddressBooks, PersonShape
  <2>3. OneHolder(c)
    BY <1>1, <2>2, PeopleAssumption DEF OneHolder, HasName, NamesDevice, NamesRoot
  <2>4. P!Decodes(c)
    BY <1>1, <2>2 DEF P!Decodes
  <2>5. \A j \in Saveable : HasName(b, j) /\ ~HasName(c, j) => j \in P!Holders(b, p, l)
    <3> SUFFICES ASSUME NEW j \in Saveable, HasName(b, j), ~HasName(c, j) PROVE j \in P!Holders(b, p, l)
      OBVIOUS
    <3>1. b[p].dev[l] = j
      BY <2>2 DEF HasName, NamesDevice, NamesRoot
    <3> QED BY <1>3, <3>1, PeopleAssumption DEF P!Holders
  <2> QED BY <2>2, <2>3, <2>4, <2>5 DEF BookOk, c
<1> QED BY <1>2, <1>3

-----------------------------------------------------------------------------
(* The address book: every step                                            *)

\* A command that saves holds the lock: whoever else writes does it while none saves.
LEMMA UnlockedIdle ==
    ASSUME PInv, bookLock = None
    PROVE  \A i \in Editing : naming[i].at # "saving"
BY PeopleAssumption DEF PInv, EditOk

\* A step that moves one command and nothing else.
LEMMA MoveKeeps ==
    ASSUME PInv, NEW i \in Editing, NEW r \in EditShape, naming' = [naming EXCEPT ![i] = r], UNCHANGED <<book, given>>,
           naming[i].at # "saving" => UNCHANGED bookLock,
           naming[i].at = "saving" => bookLock' = None,
           r.at # "saving",
           r.at # "idle" => r.p \in Persons /\ r.new \in Shown,
           r.at \in {"shown", "offered", "learning", "remembering"} => r.l \in Labels,
           r.at = "typing" => r.old \in Shown /\ r.old # r.new
    PROVE  PInv'
<1>1. naming' \in [Editing -> EditShape] /\ naming'[i] = r /\ \A j \in Editing \ {i} : naming'[j] = naming[j]
  BY DEF PInv
<1>2. bookLock' \in Editing \cup {None}
  BY DEF PInv
<1>3. \A j \in Editing \ {i} : EditOk(j)'
  <2> SUFFICES ASSUME NEW j \in Editing \ {i} PROVE EditOk(j)'
    OBVIOUS
  <2>1. naming[j].at = "saving" => UNCHANGED bookLock
    BY DEF PInv, EditOk
  <2>2. EditOk(j) /\ naming'[j] = naming[j]
    BY <1>1 DEF PInv
  <2> QED BY <2>1, <2>2 DEF EditOk, NamesDevice
<1>4. EditOk(i)'
  BY <1>1 DEF EditOk
<1> QED BY <1>1, <1>2, <1>3, <1>4 DEF PInv

\* A step that writes the book, while none saves.
LEMMA BookKeeps ==
    ASSUME PInv, BookOk(book'), UNCHANGED given, bookLock' = None, naming' \in [Editing -> EditShape],
           \A i \in Editing : naming'[i] = P!Idle \/ (naming'[i] = naming[i] /\ naming[i].at # "saving")
    PROVE  PInv'
<1>1. P!Idle.at = "idle"
  BY DEF P!Idle
<1>2. \A i \in Editing : EditOk(i)'
  BY <1>1 DEF PInv, EditOk
<1> QED BY <1>2 DEF PInv

LEMMA IdleShape == P!Idle \in EditShape /\ P!Idle.at = "idle"
BY DEF P!Idle, EditShape

LEMMA ShowKeeps ==
    ASSUME PInv, NEW i \in Editing, P!Show(i)
    PROVE  PInv'
<1>1. PICK m \in P!Machines(book), r \in Shown :
        naming' = [naming EXCEPT ![i] = [at |-> "shown", p |-> m.p, l |-> m.l, old |-> None, new |-> r]]
  BY DEF P!Show
<1>2. m.p \in Persons /\ m.l \in Labels
  BY DEF P!Machines
<1> DEFINE s == [at |-> "shown", p |-> m.p, l |-> m.l, old |-> None, new |-> r]
<1>3. /\ s \in EditShape /\ s.at = "shown"
      /\ s.p \in Persons /\ s.l \in Labels /\ s.new \in Shown
  BY <1>2 DEF EditShape
<1>4. naming' = [naming EXCEPT ![i] = s] /\ UNCHANGED <<book, given, bookLock>> /\ naming[i].at = "idle"
  BY <1>1 DEF P!Show
<1> HIDE DEF s
<1> QED BY <1>3, <1>4, MoveKeeps

\* A command goes on with what it is about.
LEMMA GoesKeeps ==
    ASSUME PInv, NEW i \in Editing, NEW to \in {"offered", "learning", "remembering"}, P!Goes(i, to),
           naming[i].at \in {"shown", "offered"}, UNCHANGED <<book, given, bookLock>>
    PROVE  PInv'
<1> DEFINE s == [naming[i] EXCEPT !.at = to]
<1>1. naming[i] \in EditShape /\ EditOk(i)
  BY DEF PInv
<1>2. /\ s \in EditShape /\ s.at = to
      /\ s.p = naming[i].p /\ s.l = naming[i].l /\ s.new = naming[i].new
  BY <1>1 DEF EditShape
<1>3. naming' = [naming EXCEPT ![i] = s]
  BY DEF P!Goes
<1> HIDE DEF s
<1>4. s.p \in Persons /\ s.l \in Labels /\ s.new \in Shown
  BY <1>1, <1>2 DEF EditOk
<1> QED BY <1>2, <1>3, <1>4, MoveKeeps

LEMMA EndsKeeps ==
    ASSUME PInv, NEW i \in Editing, P!Ends(i), UNCHANGED <<book, given>>,
           bookLock' = IF bookLock = i THEN None ELSE bookLock
    PROVE  PInv'
<1>1. naming[i].at = "saving" => bookLock = i
  BY DEF PInv, EditOk
<1>2. CASE bookLock = i /\ naming[i].at # "saving"
  <2>1. naming' \in [Editing -> EditShape] /\ naming'[i] = P!Idle /\ \A j \in Editing \ {i} : naming'[j] = naming[j]
    BY IdleShape DEF PInv, P!Ends
  <2>2. \A j \in Editing \ {i} : naming[j].at # "saving"
    BY <1>2 DEF PInv, EditOk
  <2>3. BookOk(book') /\ bookLock' = None
    BY <1>2 DEF PInv, BookOk, OneHolder, HasName, NamesDevice, NamesRoot, P!Decodes
  <2> QED BY <2>1, <2>2, <2>3, BookKeeps
<1>3. CASE ~(bookLock = i /\ naming[i].at # "saving")
  <2>1. (naming[i].at # "saving" => UNCHANGED bookLock) /\ (naming[i].at = "saving" => bookLock' = None)
    BY <1>1, <1>3
  <2>2. naming' = [naming EXCEPT ![i] = P!Idle]
    BY DEF P!Ends
  <2> QED BY <2>1, <2>2, IdleShape, MoveKeeps
<1> QED BY <1>2, <1>3

LEMMA TellsKeeps ==
    ASSUME PInv, NEW i \in Editing, P!Tell(i) \/ P!Answer(i) \/ P!GiveUp(i)
    PROVE  PInv'
<1>1. CASE P!Tell(i)
  <2>1. naming[i].at = "shown" /\ UNCHANGED <<book, given, bookLock>>
    BY <1>1 DEF P!Tell
  <2>2. P!Ends(i) \/ P!Goes(i, "remembering") \/ P!Goes(i, "offered")
    BY <1>1 DEF P!Tell
  <2>3. CASE P!Ends(i)
    <3>1. naming' = [naming EXCEPT ![i] = P!Idle]
      BY <2>3 DEF P!Ends
    <3> QED BY <2>1, <3>1, IdleShape, MoveKeeps
  <2> QED BY <2>1, <2>2, <2>3, GoesKeeps
<1>2. CASE P!Answer(i)
  BY <1>2, GoesKeeps DEF P!Answer
<1>3. CASE P!GiveUp(i)
  BY <1>3, EndsKeeps DEF P!GiveUp
<1> QED BY <1>1, <1>2, <1>3

\* What a dial learned, what it remembers, and a root that is added: the book as it should be, one command over.
LEMMA WritesKeeps ==
    ASSUME PInv, NEW i \in Editing, P!Remember(i) \/ P!Learn(i) \/ P!SaveRoot(i)
    PROVE  /\ PInv'
           /\ \A q \in Persons : book'[q].root = book[q].root \/ book[q].root = None
           /\ \A k \in Saveable : HasName(book, k) => HasName(book', k)
<1> DEFINE r == naming[i]
<1>1. /\ r \in EditShape /\ BookOk(book)
      /\ r.p \in Persons /\ r.new \in Shown /\ (r.at \in {"learning", "remembering"} => r.l \in Labels)
  BY DEF PInv, EditOk, P!Remember, P!Learn, P!SaveRoot
<1>2. bookLock = None /\ UNCHANGED <<given, bookLock>> /\ naming' = [naming EXCEPT ![i] = P!Idle]
  BY DEF P!Remember, P!Learn, P!SaveRoot, P!Ends
<1>3. naming' \in [Editing -> EditShape] /\ \A j \in Editing : naming'[j] = P!Idle \/ naming'[j] = naming[j]
  BY <1>2, IdleShape DEF PInv
<1>4. /\ BookOk(book')
      /\ \A q \in Persons : book'[q].root = book[q].root \/ book[q].root = None
      /\ \A k \in Saveable : HasName(book, k) => HasName(book', k)
  <2>1. CASE P!Remember(i)
    <3>1. book' = P!Seen(book, r.p, r.l, r.new) /\ r.l \in Labels
      BY <1>1, <2>1 DEF P!Remember
    <3> HIDE DEF r
    <3> QED BY <1>1, <3>1, SeenOk
  <2>2. CASE P!Learn(i)
    <3> DEFINE c == P!Learned(book, r.p, r.l, r.new)
    <3>1. book' = P!Seen(c, r.p, r.l, r.new) /\ r.l \in Labels
      BY <1>1, <2>2 DEF P!Learn
    <3> HIDE DEF r
    <3>2. /\ BookOk(c)
          /\ \A q \in Persons : c[q].root = book[q].root \/ book[q].root = None
          /\ \A k \in Saveable : HasName(book, k) => HasName(c, k)
      BY <1>1, <3>1, LearnedOk
    <3> HIDE DEF c
    <3>3. /\ BookOk(book')
          /\ \A q \in Persons : book'[q].root = c[q].root
          /\ \A k \in Saveable : HasName(c, k) <=> HasName(book', k)
      BY <1>1, <3>1, <3>2, SeenOk
    <3> QED BY <3>2, <3>3
  <2>3. CASE P!SaveRoot(i)
    <3>1. book' = P!Saved(book, r.p, None, r.new) /\ r.new \in Saveable
      BY <1>1, <2>3, PeopleAssumption DEF P!SaveRoot
    <3>2. BookOk(book) /\ r.p \in Persons /\ r.new \in Shown /\ None \in Labels \cup {None}
      BY <1>1
    <3> HIDE DEF r
    <3> QED BY <3>1, <3>2, SavedOk
  <2> QED BY <2>1, <2>2, <2>3
<1>5. \A j \in Editing : naming[j].at # "saving"
  BY <1>2, UnlockedIdle
<1>6. PInv'
  BY <1>2, <1>3, <1>4, <1>5, BookKeeps
<1> QED BY <1>4, <1>6

LEMMA AddMachineKeeps ==
    ASSUME PInv, NEW p \in Persons, NEW l \in Labels, NEW k \in Saveable, P!AddMachine(p, l, k)
    PROVE  /\ PInv'
           /\ \A q \in Persons : book'[q].root = book[q].root \/ book[q].root = None
           /\ \A j \in Saveable : HasName(book, j) => HasName(book', j)
<1>1. bookLock = None /\ UNCHANGED <<given, bookLock, naming>> /\ book' = P!Saved(book, p, l, k)
  BY DEF P!AddMachine
<1>2. BookOk(book) /\ naming \in [Editing -> EditShape] /\ l # None
  BY PeopleAssumption DEF PInv
<1>3. /\ BookOk(book')
      /\ \A q \in Persons : book'[q].root = book[q].root \/ book[q].root = None
      /\ \A j \in Saveable : HasName(book, j) => HasName(book', j)
  BY <1>1, <1>2, SavedOk
<1>4. \A i \in Editing : naming'[i] = naming[i] /\ naming[i].at # "saving"
  BY <1>1, UnlockedIdle
<1>5. PInv'
  BY <1>1, <1>2, <1>3, <1>4, BookKeeps
<1> QED BY <1>3, <1>5

LEMMA RmKeeps ==
    ASSUME PInv, NEW p \in Persons, NEW l \in Labels \cup {None}, P!Rm(p, l)
    PROVE  /\ PInv'
           /\ \A q \in Persons : book'[q].root = book[q].root \/ book'[q].root = None
           /\ \A k \in Saveable : HasName(book, k) /\ ~HasName(book', k) =>
                 \A x \in Given : given[x].holder = k => given'[x].at # "live"
<1>1. /\ bookLock = None /\ UNCHANGED <<given, bookLock, naming>> /\ book' = P!Removed(book, p, l)
      /\ P!LiveTo(P!Holders(book, p, l)) = {}
  BY DEF P!Rm
<1>2. BookOk(book) /\ naming \in [Editing -> EditShape]
  BY DEF PInv
<1>3. /\ BookOk(book')
      /\ \A q \in Persons : book'[q].root = book[q].root \/ book'[q].root = None
      /\ \A k \in Saveable : HasName(book, k) /\ ~HasName(book', k) => k \in P!Holders(book, p, l)
  BY <1>1, <1>2, RemovedOk
<1>4. \A i \in Editing : naming'[i] = naming[i] /\ naming[i].at # "saving"
  BY <1>1, UnlockedIdle
<1>5. PInv'
  BY <1>1, <1>2, <1>3, <1>4, BookKeeps
<1>6. \A k \in P!Holders(book, p, l) : \A x \in Given : given[x].holder = k => given'[x].at # "live"
  BY <1>1 DEF P!LiveTo, P!Live
<1> QED BY <1>3, <1>5, <1>6

LEMMA AddRootKeeps ==
    ASSUME PInv, NEW i \in Editing, NEW p \in Persons, NEW r \in Shown, P!AddRoot(i, p, r)
    PROVE  PInv'
<1> DEFINE old == book[p].root
           to == IF old \in {None, r} THEN "adding" ELSE "typing"
           s == [at |-> to, p |-> p, l |-> None, old |-> old, new |-> r]
<1>1. naming' = [naming EXCEPT ![i] = s] /\ UNCHANGED <<book, given, bookLock>> /\ naming[i].at = "idle"
  BY DEF P!AddRoot
<1>2. old \in Shown \cup {None}
  BY DEF PInv, BookOk, AddressBooks, PersonShape
<1>3. to \in {"adding", "typing"} /\ (to = "typing" => old \in Shown /\ old # r)
  BY <1>2
<1> HIDE DEF old, to
<1>4. s \in EditShape /\ s.at = to /\ s.p = p /\ s.old = old /\ s.new = r
  BY <1>2, <1>3 DEF EditShape
<1> HIDE DEF s
<1> QED BY <1>1, <1>3, <1>4, MoveKeeps

LEMMA RevokeOldKeeps ==
    ASSUME PInv, NEW i \in Editing, P!RevokeOld(i)
    PROVE  PInv'
<1> DEFINE r == naming[i]
<1>1. /\ r.at = "typing" /\ bookLock = None /\ UNCHANGED book
      /\ r \in EditShape /\ r.p \in Persons /\ r.new \in Shown /\ r.old \in Shown /\ r.old # r.new
  BY DEF PInv, EditOk, P!RevokeOld
<1>2. CASE P!Ends(i) /\ UNCHANGED <<given, bookLock>>
  <2>1. naming' = [naming EXCEPT ![i] = P!Idle]
    BY <1>2 DEF P!Ends
  <2> QED BY <1>1, <1>2, <2>1, IdleShape, MoveKeeps
<1>3. CASE /\ book[r.p].root = r.old /\ P!Replaceable(book, r.p, r.new)
           /\ given' = [x \in Given |-> IF x \in P!FleetTo(r.old) THEN [given[x] EXCEPT !.at = "ended"] ELSE given[x]]
           /\ P!Goes(i, "saving") /\ bookLock' = i
  <2> DEFINE s == [naming[i] EXCEPT !.at = "saving"]
  <2>1. /\ s \in EditShape /\ s.at = "saving"
        /\ s.p = r.p /\ s.old = r.old /\ s.new = r.new
    BY <1>1 DEF EditShape
  <2>2. naming' = [naming EXCEPT ![i] = s]
    BY <1>3 DEF P!Goes
  <2> HIDE DEF s
  <2>3. naming' \in [Editing -> EditShape] /\ naming'[i] = s /\ \A j \in Editing \ {i} : naming'[j] = naming[j]
    BY <2>1, <2>2 DEF PInv
  <2>4. /\ given' \in [Given -> LinkStates]
        /\ \A x \in Given : given'[x].holder = r.old => given'[x].at # "live" \/ given'[x].kind # "fleet"
    <3> HIDE DEF r
    <3>1. given \in [Given -> LinkStates]
      BY DEF PInv
    <3> DEFINE of == P!FleetTo(r.old)
    <3>2. given' = [x \in Given |-> IF x \in of THEN [given[x] EXCEPT !.at = "ended"] ELSE given[x]]
      BY <1>3
    <3>3. ASSUME NEW x \in Given, given[x].holder = r.old, given[x].at = "live", x \notin of
          PROVE  given[x].kind # "fleet"
      BY <3>3 DEF P!FleetTo, P!LiveTo, P!Live
    <3> HIDE DEF of
    <3>5. given' \in [Given -> LinkStates]
      BY <3>1, <3>2 DEF LinkStates
    <3>6. ASSUME NEW x \in Given, given'[x].holder = r.old, given'[x].at = "live"
          PROVE  given'[x].kind # "fleet"
      <4>1. x \notin of
        BY <3>1, <3>2, <3>6 DEF LinkStates
      <4>2. given'[x] = given[x]
        BY <3>2, <4>1
      <4> QED BY <3>3, <3>6, <4>1, <4>2
    <3> QED BY <3>5, <3>6
  <2>5. /\ r.new \notin MyMachines /\ ~NamesDevice(book, r.new)
        /\ \A q \in Persons : book[q].root = r.new => q = r.p
    <3> HIDE DEF r
    <3>1. r.new \notin MyMachines /\ P!Names(book, r.new) \subseteq {<<r.p, None>>}
      BY <1>3 DEF P!Replaceable
    <3>2. ~NamesDevice(book, r.new)
      <4> SUFFICES ASSUME NEW p \in Persons, NEW l \in Labels, book[p].dev[l] = r.new PROVE FALSE
        BY DEF NamesDevice
      <4>1. <<p, l>> \in P!Names(book, r.new)
        BY DEF P!Names
      <4>2. <<p, l>> = <<r.p, None>>
        BY <3>1, <4>1
      <4> QED BY <4>2, PeopleAssumption
    <3>3. \A q \in Persons : book[q].root = r.new => q = r.p
      <4> SUFFICES ASSUME NEW q \in Persons, book[q].root = r.new PROVE q = r.p
        OBVIOUS
      <4>1. <<q, None>> \in P!Names(book, r.new)
        BY DEF P!Names
      <4>2. <<q, None>> = <<r.p, None>>
        BY <3>1, <4>1
      <4> QED BY <4>2
    <3> QED BY <3>1, <3>2, <3>3
  <2>6. \A j \in Editing \ {i} : naming[j].at # "saving"
    BY <1>1, UnlockedIdle
  <2>7. EditOk(i)'
    <3>1. book[r.p].root = r.old /\ bookLock' = i
      BY <1>3
    <3> HIDE DEF r
    <3> QED BY <1>1, <2>1, <2>3, <2>4, <2>5, <3>1 DEF EditOk, NamesDevice
  <2>8. \A j \in Editing \ {i} : EditOk(j)'
    BY <2>3, <2>6 DEF PInv, EditOk
  <2>9. BookOk(book')
    BY <1>1 DEF PInv, BookOk, OneHolder, HasName, NamesDevice, NamesRoot, P!Decodes
  <2> QED BY <1>3, <2>3, <2>4, <2>7, <2>8, <2>9 DEF PInv
<1> QED BY <1>2, <1>3 DEF P!RevokeOld

\* The root the person was shown gives way to the one they typed, the links bound to it as a root all ended.
LEMMA SaveReplacedKeeps ==
    ASSUME PInv, NEW i \in Editing, P!SaveReplaced(i)
    PROVE  /\ PInv'
           /\ \A q \in Persons \ {naming[i].p} : book'[q].root = book[q].root
           /\ book[naming[i].p].root = naming[i].old /\ book'[naming[i].p].root = naming[i].new
           /\ \A k \in Saveable : HasName(book, k) /\ ~HasName(book', k) => NoneLeft(k)
<1> DEFINE r == naming[i]
<1>1. /\ r.at = "saving" /\ UNCHANGED given /\ bookLock' = None /\ naming' = [naming EXCEPT ![i] = P!Idle]
      /\ book' = P!WithRoot(book, r.p, r.new, None)
  BY DEF P!SaveReplaced, P!Ends
<1>2. /\ r.p \in Persons /\ r.new \in Shown /\ r.old \in Shown /\ bookLock = i /\ book[r.p].root = r.old
      /\ r.new \notin MyMachines /\ ~NamesDevice(book, r.new)
      /\ \A q \in Persons : book[q].root = r.new => q = r.p
      /\ \A x \in Given : given[x].holder = r.old => given[x].at # "live" \/ given[x].kind # "fleet"
  BY <1>1 DEF PInv, EditOk
<1>3. BookOk(book) /\ book \in AddressBooks
  BY DEF PInv, BookOk
<1>4. naming' \in [Editing -> EditShape] /\ \A j \in Editing : naming'[j] = P!Idle \/ (j # i /\ naming'[j] = naming[j])
  BY <1>1, IdleShape DEF PInv
<1>5. \A j \in Editing \ {i} : naming[j].at # "saving"
  BY <1>2 DEF PInv, EditOk
<1> HIDE DEF r
<1>6. BookOk(book')
  BY <1>1, <1>2, <1>3, NewRootOk
<1>7. /\ \A q \in Persons : book'[q].dev = book[q].dev
      /\ book'[r.p].root = r.new
      /\ \A q \in Persons \ {r.p} : book'[q].root = book[q].root
  BY <1>1, <1>2, <1>3, RootPut
<1>8. PInv'
  BY <1>1, <1>4, <1>5, <1>6, BookKeeps
<1>9. \A k \in Saveable : HasName(book, k) /\ ~HasName(book', k) => k = r.old
  BY <1>2, <1>7 DEF HasName, NamesDevice, NamesRoot
<1>10. \A k \in Saveable : HasName(book, k) /\ ~HasName(book', k) => NoneLeft(k)
  BY <1>1, <1>2, <1>9 DEF NoneLeft, r
<1> QED BY <1>2, <1>7, <1>8, <1>10 DEF r

\* A link is bound, written or ended: none comes to life while a root is replaced.
LEMMA LinkKeeps ==
    ASSUME PInv,
           \/ \E x \in Given, p \in Persons, l \in Labels \cup {None} : P!ShareWith(x, p, l)
           \/ \E x \in Given : P!Sign(x) \/ P!EndLink(x)
    PROVE  PInv'
<1>1. UNCHANGED <<book, bookLock, naming>>
  BY DEF P!ShareWith, P!Sign, P!EndLink
<1>2. given \in [Given -> LinkStates] /\ book \in AddressBooks
  BY DEF PInv, BookOk
<1>3. given' \in [Given -> LinkStates]
  <2>1. CASE \E x \in Given, p \in Persons, l \in Labels \cup {None} : P!ShareWith(x, p, l)
    <3>1. PICK x \in Given, p \in Persons, l \in Labels \cup {None} : P!ShareWith(x, p, l)
      BY <2>1
    <3> DEFINE k == IF l = None THEN book[p].root ELSE book[p].dev[l]
               kind == IF l = None THEN "fleet" ELSE "machine"
    <3>5. kind \in {"fleet", "machine"}
      OBVIOUS
    <3>2. k \in Saveable \cup {None}
      BY <1>2, PeopleAssumption DEF AddressBooks, PersonShape
    <3>3. given' = [given EXCEPT ![x] = [at |-> "bound", holder |-> k, kind |-> kind]]
      BY <3>1 DEF P!ShareWith
    <3> HIDE DEF k, kind
    <3>4. [at |-> "bound", holder |-> k, kind |-> kind] \in LinkStates
      BY <3>2, <3>5 DEF LinkStates
    <3> QED BY <1>2, <3>3, <3>4
  <2>2. CASE \E x \in Given : P!Sign(x) \/ P!EndLink(x)
    BY <1>2, <2>2 DEF P!Sign, P!EndLink, LinkStates
  <2> QED BY <2>1, <2>2
<1>4. \A x \in Given : given'[x].at = "live" => bookLock = None \/ given'[x] = given[x]
  BY <1>2 DEF P!ShareWith, P!Sign, P!EndLink, LinkStates
<1>5. \A i \in Editing : EditOk(i)'
  <2> SUFFICES ASSUME NEW i \in Editing PROVE EditOk(i)'
    OBVIOUS
  <2>1. EditOk(i) /\ (naming[i].at = "saving" => bookLock # None)
    BY PeopleAssumption DEF PInv, EditOk
  <2> QED BY <1>1, <1>4, <2>1 DEF EditOk, NamesDevice
<1>6. BookOk(book')
  BY <1>1 DEF PInv, BookOk, OneHolder, HasName, NamesDevice, NamesRoot, P!Decodes
<1> QED BY <1>1, <1>3, <1>5, <1>6 DEF PInv

LEMMA PeopleStep ==
    ASSUME PInv, P!Next
    PROVE  PInv'
<1>1. CASE \E i \in Editing : P!Runs(i)
  BY <1>1, ShowKeeps, TellsKeeps, WritesKeeps, RevokeOldKeeps, SaveReplacedKeeps DEF P!Runs
<1>2. CASE \E i \in Editing, p \in Persons, r \in Shown : P!AddRoot(i, p, r)
  BY <1>2, AddRootKeeps
<1>3. CASE \E p \in Persons, l \in Labels, k \in Saveable : P!AddMachine(p, l, k)
  BY <1>3, AddMachineKeeps
<1>4. CASE \E p \in Persons, l \in Labels \cup {None} : P!Rm(p, l)
  BY <1>4, RmKeeps
<1>5. CASE \/ \E x \in Given, p \in Persons, l \in Labels \cup {None} : P!ShareWith(x, p, l)
           \/ \E x \in Given : P!Sign(x) \/ P!EndLink(x)
  BY <1>5, LinkKeeps
<1> QED BY <1>1, <1>2, <1>3, <1>4, <1>5 DEF P!Next

\* What a step may do to a root that is there, and to a key's last name.
LEMMA PeopleOneStep ==
    ASSUME PInv, P!Next
    PROVE  /\ \A p \in Persons :
                 book[p].root # None /\ book'[p].root # None /\ book'[p].root # book[p].root =>
                    \E i \in Editing : /\ naming[i].at = "saving" /\ naming[i].p = p
                                      /\ naming[i].old = book[p].root /\ naming[i].new = book'[p].root
           /\ \A k \in Saveable : HasName(book, k) /\ ~HasName(book', k) => NoneLeft(k)
<1>1. CASE UNCHANGED book
  BY <1>1 DEF HasName, NamesDevice, NamesRoot
<1>2. CASE \E i \in Editing : P!Remember(i) \/ P!Learn(i) \/ P!SaveRoot(i)
  BY <1>2, WritesKeeps
<1>3. CASE \E i \in Editing : P!SaveReplaced(i)
  <2>1. PICK i \in Editing : P!SaveReplaced(i)
    BY <1>3
  <2>2. naming[i].at = "saving"
    BY <2>1 DEF P!SaveReplaced
  <2> QED BY <2>1, <2>2, SaveReplacedKeeps
<1>4. CASE \E p \in Persons, l \in Labels, k \in Saveable : P!AddMachine(p, l, k)
  BY <1>4, AddMachineKeeps
<1>5. CASE \E p \in Persons, l \in Labels \cup {None} : P!Rm(p, l)
  BY <1>5, RmKeeps DEF NoneLeft
<1>6. \A i \in Editing : P!Show(i) \/ P!Tell(i) \/ P!Answer(i) \/ P!GiveUp(i) \/ P!RevokeOld(i) => UNCHANGED book
  BY DEF P!Show, P!Tell, P!Answer, P!GiveUp, P!RevokeOld
<1>7. /\ \A i \in Editing, p \in Persons, r \in Shown : P!AddRoot(i, p, r) => UNCHANGED book
      /\ \A x \in Given, p \in Persons, l \in Labels \cup {None} : P!ShareWith(x, p, l) => UNCHANGED book
      /\ \A x \in Given : P!Sign(x) \/ P!EndLink(x) => UNCHANGED book
  BY DEF P!AddRoot, P!ShareWith, P!Sign, P!EndLink
<1> QED BY <1>1, <1>2, <1>3, <1>4, <1>5, <1>6, <1>7 DEF P!Next, P!Runs

LEMMA PeopleStart == MCInit => PInv
<1> SUFFICES ASSUME MCInit PROVE PInv
  OBVIOUS
<1>1. P!Init
  BY DEF MCInit
<1>2. /\ P!Nobody \in PersonShape
      /\ P!Nobody.root = None /\ P!Nobody.from = None
      /\ \A m \in Labels : P!Nobody.dev[m] = None /\ P!Nobody.seen[m] = None
  BY DEF P!Nobody, PersonShape
<1>3. BookOk(book)
  <2>1. book \in AddressBooks /\ \A p \in Persons : book[p] = P!Nobody
    BY <1>1, <1>2 DEF P!Init, AddressBooks
  <2>2. OneHolder(book)
    BY <1>2, <2>1, PeopleAssumption DEF OneHolder, HasName, NamesDevice, NamesRoot
  <2> QED BY <1>2, <2>1, <2>2 DEF BookOk, P!Decodes
<1>4. given \in [Given -> LinkStates] /\ bookLock = None
  BY <1>1 DEF P!Init, LinkStates
<1>5. naming \in [Editing -> EditShape] /\ \A i \in Editing : naming[i] = P!Idle
  BY <1>1, IdleShape DEF P!Init
<1>6. \A i \in Editing : EditOk(i)
  BY <1>5, IdleShape DEF EditOk
<1> QED BY <1>3, <1>4, <1>5, <1>6 DEF PInv

LEMMA PeopleOrNot == [MCNext]_all => P!Next \/ UNCHANGED people
BY DEF MCNext, all, keys, services, people, start, watched, dialing, vars

LEMMA PeopleHold == MCSpec => []PInv
<1>1. PInv /\ [MCNext]_all => PInv'
  <2> SUFFICES ASSUME PInv, [MCNext]_all PROVE PInv'
    OBVIOUS
  <2>1. CASE P!Next
    BY <2>1, PeopleStep
  <2>2. CASE UNCHANGED people
    BY <2>2 DEF people, PInv, EditOk, BookOk, OneHolder, HasName, NamesDevice, NamesRoot, P!Decodes
  <2> QED BY <2>1, <2>2, PeopleOrNot
<1> QED BY <1>1, PeopleStart, PTL DEF MCSpec

\* One key has one name, and every book a command saves opens again, whatever dials, saves and removals interleave; a
\* root gives way to another only as the person typed it over the one they were shown; and a key loses its last name
\* only with no link of its own live, but for one bound to it as a machine before it was saved as the root that is
\* replaced (contact/add.rs 14, 213-224, 285-298; contact/rm.rs 3-5; learn.rs 16-18; contacts/store.rs 148-149, 168-171).
THEOREM BookIsKept == MCSpec => BookHolds
<1>1. PInv => (part = "people" => P!OneName /\ P!BookOpens)
  BY HolderIsName DEF PInv, BookOk, P!OneName, P!BookOpens
<1>2. PInv /\ [MCNext]_all =>
        [book' # book => \A p \in Persons :
           LET old == book[p].root new == book'[p].root
           IN  old # None /\ new # None /\ new # old =>
                  \E i \in Editing : naming[i].at = "saving" /\ naming[i].p = p /\ naming[i].old = old
                                    /\ naming[i].new = new]_(P!vars)
  BY PeopleOneStep, PeopleOrNot DEF people, P!vars
<1>3. PInv /\ [MCNext]_all =>
        [book' # book => \A k \in Saveable : P!Names(book, k) # {} /\ P!Names(book', k) = {} =>
           \A x \in Given : given[x].holder = k /\ given'[x].at = "live" =>
               given[x].kind # "fleet" /\ \E i \in Editing : naming[i].at = "saving" /\ naming[i].old = k]_(P!vars)
  BY PeopleOneStep, PeopleOrNot, NamesAre DEF people, P!vars, NoneLeft
<1> QED BY <1>1, <1>2, <1>3, PeopleHold, PTL DEF MCSpec, BookHolds, P!ReplacedAsShown, P!LeavesNoLink

-----------------------------------------------------------------------------
(* The services                                                            *)

ListFiles == [kind : S!Kinds, list : S!List \cup {None}, off : SUBSET ServiceNames]
RunShape ==
    [at : {"off", "claimed", "recorded", "serving", "reading"}, started : S!List, named : BOOLEAN,
     list : S!List \cup {None}, off : SUBSET ServiceNames, usable : BOOLEAN, seen : BOOLEAN, statted : BOOLEAN]

\* A serve that has seen the stamp of a good file holds what that file says; and what a hand turned off has its row.
SInv ==
    /\ listed \in ListFiles /\ serving \in RunShape
    /\ off \subseteq ServiceNames /\ added \subseteq ServiceNames
    /\ off \subseteq listed.off
    /\ serving.seen /\ listed.kind = "good" =>
          serving.usable /\ serving.list = listed.list /\ serving.off = listed.off

LEMMA BareIsList ==
    ASSUME NEW list \in S!List \cup {None}
    PROVE  S!Bare(list) \in S!List /\ S!Names(S!Bare(list)) \subseteq ServiceNames
BY ServicesAssumption DEF S!Bare, S!List, S!Names

\* What a write leaves of the run: only that it has not seen it, when the file changed.
LEMMA WritesOne ==
    ASSUME SInv, NEW list \in S!List \cup {None}, NEW rows \in SUBSET ServiceNames, S!Writes(list, rows)
    PROVE  /\ listed' \in ListFiles /\ serving' \in RunShape
           /\ listed'.kind = "good" /\ listed'.list = list /\ listed'.off = rows
           /\ serving'.seen => UNCHANGED <<listed, serving>>
           /\ serving' = serving \/ serving' = [serving EXCEPT !.seen = FALSE, !.statted = FALSE]
<1>1. CASE listed.kind = "good" /\ listed.list = list /\ listed.off = rows /\ UNCHANGED <<listed, serving>>
  BY <1>1 DEF SInv
<1>2. CASE /\ listed' = [kind |-> "good", list |-> list, off |-> rows]
           /\ serving' = [serving EXCEPT !.seen = FALSE, !.statted = FALSE]
  <2>1. listed' \in ListFiles /\ listed'.kind = "good" /\ listed'.list = list /\ listed'.off = rows
    BY <1>2 DEF ListFiles, S!Kinds
  <2>2. serving' \in RunShape /\ ~serving'.seen
    BY <1>2 DEF SInv, RunShape
  <2> QED BY <1>2, <2>1, <2>2
<1> QED BY <1>1, <1>2 DEF S!Writes

LEMMA AddServices ==
    ASSUME SInv, NEW typed \in S!List, S!Add(typed)
    PROVE  SInv'
<1> DEFINE fresh == S!Names(typed) \ S!Names(S!Listed)
           longer == [n \in ServiceNames |-> IF n \in fresh THEN typed[n] ELSE S!Listed[n]]
<1>1. S!Listed \in S!List /\ fresh \subseteq ServiceNames
  BY BareIsList DEF SInv, ListFiles, S!Listed, S!Names
<1>2. longer \in S!List
  BY <1>1 DEF S!List
<1>3. off' = off /\ added' = added \cup fresh
  BY DEF S!Add
<1>4. UNCHANGED <<listed, serving>> \/ S!Writes(longer, listed.off)
  BY DEF S!Add
<1> HIDE DEF fresh, longer
<1>5. CASE UNCHANGED <<listed, serving>>
  BY <1>1, <1>3, <1>5 DEF SInv
<1>6. CASE S!Writes(longer, listed.off)
  <2>1. listed.off \in SUBSET ServiceNames
    BY DEF SInv, ListFiles
  <2>2. /\ listed' \in ListFiles /\ serving' \in RunShape
        /\ listed'.off = listed.off
        /\ serving'.seen => UNCHANGED <<listed, serving>>
    BY <1>2, <1>6, <2>1, WritesOne
  <2> QED BY <1>1, <1>3, <2>2 DEF SInv
<1> QED BY <1>4, <1>5, <1>6

LEMMA EditServices ==
    ASSUME SInv,
           \/ \E names \in SUBSET ServiceNames \ {{}} : S!Remove(names)
           \/ \E n \in ServiceNames : S!TurnOn(n) \/ S!TurnOff(n)
    PROVE  SInv'
<1>1. PICK list \in S!List \cup {None}, rows \in SUBSET ServiceNames :
        S!Writes(list, rows) /\ off' \subseteq rows /\ added' \subseteq ServiceNames
  <2>1. CASE \E names \in SUBSET ServiceNames \ {{}} : S!Remove(names)
    <3>1. PICK names \in SUBSET ServiceNames \ {{}} : S!Remove(names)
      BY <2>1
    <3> DEFINE left == [n \in ServiceNames |-> IF n \in names THEN None ELSE S!Listed[n]]
    <3>2. S!Listed \in S!List
      BY BareIsList DEF SInv, ListFiles, S!Listed
    <3>3. left \in S!List
      BY <3>2 DEF S!List
    <3>4. S!Writes(left, listed.off \ names) /\ off' = off \ names /\ added' = added \ names
      BY <3>1 DEF S!Remove
    <3> HIDE DEF left
    <3>5. listed.off \ names \in SUBSET ServiceNames /\ off \ names \subseteq listed.off \ names /\ added \ names \subseteq ServiceNames
      BY DEF SInv, ListFiles
    <3> QED BY <3>3, <3>4, <3>5
  <2>2. CASE \E n \in ServiceNames : S!TurnOn(n) \/ S!TurnOff(n)
    <3>1. PICK n \in ServiceNames : S!TurnOn(n) \/ S!TurnOff(n)
      BY <2>2
    <3>2. listed.list \in S!List \cup {None} /\ listed.off \in SUBSET ServiceNames
      BY DEF SInv, ListFiles
    <3>3. CASE S!TurnOn(n)
      <4>1. S!Writes(listed.list, listed.off \ {n}) /\ off' = off \ {n} /\ added' = added
        BY <3>3 DEF S!TurnOn
      <4>2. listed.off \ {n} \in SUBSET ServiceNames /\ off \ {n} \subseteq listed.off \ {n} /\ added \subseteq ServiceNames
        BY <3>2 DEF SInv
      <4> QED BY <3>2, <4>1, <4>2
    <3>4. CASE S!TurnOff(n)
      <4>1. S!Writes(listed.list, listed.off \cup {n}) /\ off' = off \cup {n} /\ added' = added \ {n}
        BY <3>4 DEF S!TurnOff
      <4>2. listed.off \cup {n} \in SUBSET ServiceNames /\ off \cup {n} \subseteq listed.off \cup {n} /\ added \ {n} \subseteq ServiceNames
        BY <3>1, <3>2 DEF SInv
      <4> QED BY <3>2, <4>1, <4>2
    <3> QED BY <3>1, <3>3, <3>4
  <2> QED BY <2>1, <2>2
<1>2. /\ listed' \in ListFiles /\ serving' \in RunShape
      /\ listed'.off = rows
      /\ serving'.seen => UNCHANGED <<listed, serving>>
  BY <1>1, WritesOne
<1> QED BY <1>1, <1>2 DEF SInv, ListFiles

LEMMA SpoilServices ==
    ASSUME SInv, NEW kind \in S!Kinds, S!Spoil(kind)
    PROVE  SInv'
<1>1. serving' = [serving EXCEPT !.seen = FALSE, !.statted = FALSE] /\ added' = {}
  BY DEF S!Spoil
<1>2. serving' \in RunShape /\ ~serving'.seen
  BY <1>1 DEF SInv, RunShape
<1>3. listed' \in ListFiles /\ off' \subseteq listed'.off /\ off' \subseteq ServiceNames
  <2>1. CASE kind = "absent"
    <3>1. listed' = S!Absent /\ off' = {}
      BY <2>1 DEF S!Spoil
    <3> QED BY <3>1 DEF S!Absent, ListFiles, S!Kinds
  <2>2. CASE kind # "absent"
    <3>1. listed' = [listed EXCEPT !.kind = kind] /\ off' = off
      BY <2>2 DEF S!Spoil
    <3> QED BY <3>1 DEF SInv, ListFiles
  <2> QED BY <2>1, <2>2
<1> QED BY <1>1, <1>2, <1>3 DEF SInv

LEMMA ClaimServices ==
    ASSUME SInv, NEW typed \in S!List, S!Claim(typed)
    PROVE  SInv'
<1> DEFINE first == IF typed = S!Nothing THEN S!Listed ELSE typed
           r == [at |-> "claimed", started |-> first, named |-> typed # S!Nothing,
                 list |-> listed.list, off |-> listed.off, usable |-> listed.kind # "foreign",
                 seen |-> listed.kind # "absent", statted |-> FALSE]
<1>1. serving' = r /\ UNCHANGED <<listed, off, added>>
  BY DEF S!Claim
<1>2. first \in S!List
  BY BareIsList DEF SInv, ListFiles, S!Listed
<1>3. listed.list \in S!List \cup {None} /\ listed.off \in SUBSET ServiceNames
  BY DEF SInv, ListFiles
<1> HIDE DEF first
<1>4. r \in RunShape /\ (r.usable <=> listed.kind # "foreign") /\ r.list = listed.list /\ r.off = listed.off
  BY <1>2, <1>3 DEF RunShape
<1> HIDE DEF r
<1> QED BY <1>1, <1>4 DEF SInv

LEMMA ServeOff == S!Off \in RunShape /\ ~S!Off.seen
<1>1. S!Nothing \in S!List
  BY DEF S!Nothing, S!List
<1> QED BY <1>1 DEF S!Off, RunShape

LEMMA RecordServices ==
    ASSUME SInv, S!Record
    PROVE  SInv'
<1>1. CASE serving' = S!Off /\ UNCHANGED <<listed, off, added>>
  BY <1>1, ServeOff DEF SInv
<1>2. CASE serving' = [serving EXCEPT !.at = "recorded"] /\ UNCHANGED <<listed, off, added>>
  <2>1. /\ serving' \in RunShape /\ serving'.seen = serving.seen
        /\ serving'.usable = serving.usable /\ serving'.list = serving.list /\ serving'.off = serving.off
    BY <1>2 DEF SInv, RunShape
  <2> QED BY <1>2, <2>1 DEF SInv
<1>3. CASE LET rows == listed.off \ S!TurnedOn(serving.started)
           IN  /\ listed' = [kind |-> "good", list |-> serving.started, off |-> rows]
               /\ serving' = [serving EXCEPT !.at = "recorded",
                                             !.seen = serving.seen /\ listed = listed', !.statted = FALSE]
               /\ off' = off \ (S!Names(serving.started) \ S!Names(S!Listed))
               /\ added' = added \cap S!Names(serving.started)
  <2> DEFINE rows == listed.off \ S!TurnedOn(serving.started)
             still == serving.seen /\ listed = listed'
  <2>1. rows \in SUBSET ServiceNames /\ serving.started \in S!List /\ still \in BOOLEAN
    BY DEF SInv, ListFiles, RunShape
  <2>2. off' \subseteq rows /\ off' \subseteq ServiceNames /\ added' \subseteq ServiceNames
    BY <1>3 DEF SInv, S!TurnedOn
  <2>3. listed' = [kind |-> "good", list |-> serving.started, off |-> rows]
    BY <1>3
  <2>4. serving' = [serving EXCEPT !.at = "recorded", !.seen = still, !.statted = FALSE]
    BY <1>3
  <2>5. still => UNCHANGED listed /\ serving.seen
    OBVIOUS
  <2> HIDE DEF rows, still
  <2>6. listed' \in ListFiles /\ listed'.off = rows
    BY <2>1, <2>3 DEF ListFiles, S!Kinds
  <2>7. /\ serving' \in RunShape /\ serving'.seen = still
        /\ serving'.usable = serving.usable /\ serving'.list = serving.list /\ serving'.off = serving.off
    BY <2>1, <2>4 DEF SInv, RunShape
  <2> QED BY <2>2, <2>5, <2>6, <2>7 DEF SInv
<1> QED BY <1>1, <1>2, <1>3 DEF S!Record

\* What a read takes: all a good file says, and of any other nothing but the stamp.
LEMMA TakesWhat ==
    ASSUME SInv, NEW statted \in BOOLEAN
    PROVE  LET t == S!Takes(serving, statted) IN
           /\ t \in RunShape /\ t.at = serving.at /\ t.started = serving.started
           /\ listed.kind = "good" => t.usable /\ t.list = listed.list /\ t.off = listed.off
           /\ listed.kind # "good" => t.usable = serving.usable /\ t.list = serving.list /\ t.off = serving.off
<1>1. listed.kind \in S!Kinds /\ listed.list \in S!List \cup {None} /\ listed.off \in SUBSET ServiceNames /\ serving \in RunShape
  BY DEF SInv, ListFiles
<1>2. CASE listed.kind = "good"
  <2>1. S!Takes(serving, statted) =
          [serving EXCEPT !.list = listed.list, !.off = listed.off, !.usable = TRUE, !.seen = TRUE]
    BY <1>2 DEF S!Takes
  <2> QED BY <1>1, <1>2, <2>1 DEF RunShape
<1>3. CASE listed.kind \in {"foreign", "damaged"}
  <2>1. S!Takes(serving, statted) = [serving EXCEPT !.seen = statted]
    BY <1>3 DEF S!Takes
  <2> QED BY <1>1, <1>3, <2>1 DEF RunShape
<1>4. CASE listed.kind \in {"absent", "unreadable"}
  <2>1. S!Takes(serving, statted) = serving
    BY <1>4 DEF S!Takes
  <2> QED BY <1>1, <1>4, <2>1
<1> QED BY <1>1, <1>2, <1>3, <1>4 DEF S!Kinds

\* The run after a first read and after a later one: as the read left it.
LEMMA ReadTakes ==
    ASSUME SInv, S!Serving \/ S!Read
    PROVE  /\ serving' \in RunShape /\ serving'.at = "serving" /\ serving'.started = serving.started
           /\ UNCHANGED <<listed, off, added>>
           /\ listed.kind = "good" => serving'.usable /\ serving'.list = listed.list /\ serving'.off = listed.off
           /\ listed.kind # "good" =>
                 serving'.usable = serving.usable /\ serving'.list = serving.list /\ serving'.off = serving.off
<1>1. CASE S!Serving
  <2> DEFINE t == IF listed.kind = "absent" THEN serving ELSE S!Takes(serving, TRUE)
  <2>1. serving' = [t EXCEPT !.at = "serving"] /\ UNCHANGED <<listed, off, added>>
    BY <1>1 DEF S!Serving
  <2>2. /\ t \in RunShape /\ t.started = serving.started
        /\ listed.kind = "good" => t.usable /\ t.list = listed.list /\ t.off = listed.off
        /\ listed.kind # "good" => t.usable = serving.usable /\ t.list = serving.list /\ t.off = serving.off
    BY TakesWhat DEF SInv
  <2> HIDE DEF t
  <2> QED BY <2>1, <2>2 DEF RunShape
<1>2. CASE S!Read
  <2> DEFINE t == S!Takes(serving, serving.statted)
  <2>1. serving' = [t EXCEPT !.at = "serving", !.statted = FALSE] /\ UNCHANGED <<listed, off, added>>
    BY <1>2 DEF S!Read
  <2>2. serving.statted \in BOOLEAN
    BY DEF SInv, RunShape
  <2>3. /\ t \in RunShape /\ t.started = serving.started
        /\ listed.kind = "good" => t.usable /\ t.list = listed.list /\ t.off = listed.off
        /\ listed.kind # "good" => t.usable = serving.usable /\ t.list = serving.list /\ t.off = serving.off
    BY <2>2, TakesWhat
  <2> HIDE DEF t
  <2> QED BY <2>1, <2>3 DEF RunShape
<1> QED BY <1>1, <1>2

LEMMA ServicesStep ==
    ASSUME SInv, S!Next
    PROVE  SInv'
<1>1. CASE \E typed \in S!List : S!Add(typed) \/ S!Claim(typed)
  BY <1>1, AddServices, ClaimServices
<1>2. CASE \/ \E names \in SUBSET ServiceNames \ {{}} : S!Remove(names)
           \/ \E n \in ServiceNames : S!TurnOn(n) \/ S!TurnOff(n)
  BY <1>2, EditServices
<1>3. CASE \E kind \in S!Kinds : S!Spoil(kind)
  BY <1>3, SpoilServices
<1>4. CASE S!Record
  BY <1>4, RecordServices
<1>5. CASE S!Serving \/ S!Read
  BY <1>5, ReadTakes DEF SInv
<1>6. CASE S!Stop
  BY <1>6, ServeOff DEF SInv, S!Stop
<1>7. CASE S!Stat
  <2>1. /\ serving' \in RunShape /\ serving'.seen = serving.seen
        /\ serving'.usable = serving.usable /\ serving'.list = serving.list /\ serving'.off = serving.off
    BY <1>7 DEF SInv, RunShape, S!Stat
  <2> QED BY <1>7, <2>1 DEF SInv, S!Stat
<1> QED BY <1>1, <1>2, <1>3, <1>4, <1>5, <1>6, <1>7 DEF S!Next

\* An edit, a hand and a stat leave what is served as it is.
LEMMA ServedStays ==
    ASSUME SInv, S!Next, serving.at \in {"serving", "reading"}, ~S!Read, ~S!Stop, NEW n \in ServiceNames
    PROVE  S!Serves(n)' <=> S!Serves(n)
<1>1. \/ serving' = serving \/ serving' = [serving EXCEPT !.seen = FALSE, !.statted = FALSE]
      \/ (serving.at = "serving" /\ serving' = [serving EXCEPT !.at = "reading", !.statted = TRUE])
  BY DEF S!Next, S!Add, S!Remove, S!TurnOn, S!TurnOff, S!Writes, S!Spoil, S!Claim, S!Record, S!Serving, S!Stat
<1>2. serving \in RunShape
  BY DEF SInv
<1>3. /\ serving'.at \in {"serving", "reading"} /\ serving'.started = serving.started /\ serving'.off = serving.off
      /\ serving'.usable = serving.usable /\ serving'.list = serving.list
  BY <1>1, <1>2 DEF RunShape
<1> QED BY <1>3 DEF S!Serves, S!Refuses

\* What a first read and a later one may come to serve.
LEMMA ServedAsRead ==
    ASSUME SInv, S!Serving \/ S!Read, NEW n \in ServiceNames
    PROVE  /\ listed.kind = "good" /\ S!Serves(n)' => n \in S!Names(S!Listed) \ listed.off
           /\ listed.kind # "good" /\ S!Serves(n)' /\ serving.at \in {"serving", "reading"} => S!Serves(n)
BY ReadTakes DEF S!Serves, S!Refuses, S!Listed

LEMMA ServicesOneStep ==
    ASSUME SInv, S!Next
    PROVE  /\ serving.at = "recorded" /\ serving'.at = "serving" /\ listed.kind = "good"
                => \A n \in off : ~S!Serves(n)'
           /\ \A n \in ServiceNames :
                 serving.at \in {"serving", "reading"} /\ ~S!Serves(n) /\ S!Serves(n)' =>
                    listed.kind = "good" /\ n \in S!Names(S!Listed) \ listed.off
<1>1. ASSUME serving.at = "recorded", serving'.at = "serving", listed.kind = "good", NEW n \in off
      PROVE  ~S!Serves(n)'
  <2>1. S!Serving
    <3>1. serving \in RunShape
      BY DEF SInv
    <3>2. \/ S!Serving \/ serving' = serving \/ serving' = S!Off
          \/ serving' = [serving EXCEPT !.seen = FALSE, !.statted = FALSE]
      BY <1>1 DEF S!Next, S!Add, S!Remove, S!TurnOn, S!TurnOff, S!Writes, S!Spoil, S!Claim, S!Record, S!Stat, S!Read, S!Stop
    <3>3. S!Off.at = "off" /\ [serving EXCEPT !.seen = FALSE, !.statted = FALSE].at = serving.at
      BY <3>1 DEF RunShape, S!Off
    <3> QED BY <1>1, <3>2, <3>3
  <2>2. n \in ServiceNames /\ n \in listed.off
    BY <1>1 DEF SInv
  <2> QED BY <1>1, <2>1, <2>2, ServedAsRead
<1>2. ASSUME NEW n \in ServiceNames, serving.at \in {"serving", "reading"}, ~S!Serves(n), S!Serves(n)'
      PROVE  listed.kind = "good" /\ n \in S!Names(S!Listed) \ listed.off
  <2>1. CASE S!Read
    BY <1>2, <2>1, ServedAsRead
  <2>2. CASE S!Stop
    BY <1>2, <2>2 DEF S!Stop, S!Off, S!Serves
  <2>3. CASE ~S!Read /\ ~S!Stop
    BY <1>2, <2>3, ServedStays
  <2> QED BY <2>1, <2>2, <2>3
<1> QED BY <1>1, <1>2

LEMMA ServicesStart == MCInit => SInv
<1> SUFFICES ASSUME MCInit PROVE SInv
  OBVIOUS
<1>1. listed = S!Absent /\ serving = S!Off /\ off = {} /\ added = {}
  BY DEF MCInit, S!Init
<1> QED BY <1>1, ServeOff DEF SInv, S!Absent, ListFiles, S!Kinds

LEMMA ServicesOrNot == [MCNext]_all => S!Next \/ UNCHANGED services
BY DEF MCNext, all, keys, services, people, start, watched, dialing, vars

LEMMA ServicesHold == MCSpec => []SInv
<1>1. SInv /\ [MCNext]_all => SInv'
  <2> SUFFICES ASSUME SInv, [MCNext]_all PROVE SInv'
    OBVIOUS
  <2>1. CASE S!Next
    BY <2>1, ServicesStep
  <2>2. CASE UNCHANGED services
    BY <2>2 DEF services, SInv
  <2> QED BY <2>1, <2>2, ServicesOrNot
<1> QED BY <1>1, ServicesStart, PTL DEF MCSpec

LEMMA RestartsSame ==
    ASSUME SInv
    PROVE  S!RestartSame
<1> SUFFICES ASSUME serving.at = "serving", serving.seen, listed.kind = "good", \A n \in ServiceNames : ~S!Waits(n),
                    NEW n \in ServiceNames
             PROVE  /\ S!Serves(n) <=> n \in S!Names(S!Listed) \ listed.off
                    /\ S!Serves(n) => serving.started[n] = S!Listed[n]
  BY DEF S!RestartSame
<1>1. serving.usable /\ serving.list = listed.list /\ serving.off = listed.off
  BY DEF SInv
<1>2. S!Listed[n] \in {None, serving.started[n]}
  BY <1>1 DEF S!Waits, S!Listed
<1> QED BY <1>1, <1>2 DEF S!Serves, S!Refuses, S!Names, S!Listed

\* A start serves nothing that was turned off by hand and not given back; a running serve gives back a service it
\* refused only as it reads a good file that lists it and has it on, whatever happens to the file beside that read; and
\* when nothing waits a restart changes nothing (serving.rs 320-326; serve_toml.rs 13-24, 267-270, 627-634).
THEOREM ServesWhatIsSaid == MCSpec => ServesAsSaid
<1>1. SInv => (part = "services" => S!TypeOK /\ S!RestartSame)
  BY RestartsSame DEF SInv, S!TypeOK, ListFiles, RunShape
<1>2. SInv /\ [MCNext]_all =>
        [serving.at = "recorded" /\ serving'.at = "serving" /\ listed.kind = "good" => \A n \in off : ~S!Serves(n)']_(S!vars)
  BY ServicesOneStep, ServicesOrNot DEF services, S!vars
<1>3. SInv /\ [MCNext]_all =>
        [\A n \in ServiceNames :
           serving.at \in {"serving", "reading"} /\ ~S!Serves(n) /\ S!Serves(n)' =>
              listed.kind = "good" /\ n \in S!Names(S!Listed) \ listed.off]_(S!vars)
  BY ServicesOneStep, ServicesOrNot DEF services, S!vars
<1> QED BY <1>1, <1>2, <1>3, ServicesHold, PTL DEF MCSpec, ServesAsSaid, S!OffStays, S!GivenByFile
-----------------------------------------------------------------------------
(* The entries: what is read back of what was written                      *)

IsEntry(e) == e = T!Entry(e.name, e.scheme, e.arg)

\* An entry as the parser leaves it: reading it again changes nothing.
Settled(e) ==
    /\ IsEntry(e) /\ e.name # None /\ T!IsName(e.name) /\ T!Fold(e.name) = e.name
    /\ e.scheme = "proxy" => T!IsOrigin(e.arg)

\* And one that leads to the same place from any directory.
Plain(e) == Settled(e) /\ (e.scheme \in T!PathSchemes => e.arg # "here")

LEMMA EntryIs ==
    ASSUME NEW n, NEW s, NEW a, NEW e, e = T!Entry(n, s, a)
    PROVE  /\ e.name = n /\ e.scheme = s /\ e.arg = a /\ IsEntry(e)
           /\ \A m : [e EXCEPT !.name = m] = T!Entry(m, s, a)
           /\ \A b : [e EXCEPT !.arg = b] = T!Entry(n, s, b)
BY DEF T!Entry, IsEntry

LEMMA ReadAgain ==
    ASSUME NEW e, Settled(e)
    PROVE  T!ServiceEntry(e) = e
<1>1. e = T!Entry(e.name, e.scheme, e.arg)
  BY DEF Settled, IsEntry
<1>2. [e EXCEPT !.name = T!Fold(e.name)] = e
  BY <1>1, EntryIs DEF Settled
<1> QED BY <1>2 DEF Settled, T!ServiceEntry

LEMMA FoldsOnce ==
    ASSUME NEW n, n # None, T!IsName(n)
    PROVE  T!Fold(n) # None /\ T!IsName(T!Fold(n)) /\ T!Fold(T!Fold(n)) = T!Fold(n)
BY StartAssumption DEF T!Fold, T!IsName

\* A name that a scheme gives, or a word that stands for a built-in service.
LEMMA BuiltIns ==
    ASSUME NEW n \in {"ping", "speed", "ssh", "proxy", "recv"}
    PROVE  n # None /\ T!IsName(n) /\ T!Fold(n) = n
BY StartAssumption DEF T!IsName, T!Fold

\* The shortest line for a settled entry gives it back, unless it is cut at an = of the inbox's own path.
LEMMA ShortestBack ==
    ASSUME NEW e, Settled(e), ~(e.name = "recv" /\ e.scheme = "recv" /\ T!HoldsEquals(e.arg))
    PROVE  T!ServiceEntry(T!AsTyped(e)) = e
<1>1. e = T!Entry(e.name, e.scheme, e.arg)
  BY DEF Settled, IsEntry
<1>2. CASE <<e.name, e.scheme>> \in T!BuiltIn /\ e.arg = ""
  <2> DEFINE b == <<e.name, e.scheme>>  line == T!Entry(None, "bare", e.name)
  <2>1. T!AsTyped(e) = line
    BY <1>2 DEF T!AsTyped, T!BuiltIn
  <2>2. /\ line.name = None /\ line.scheme = "bare" /\ line.arg = e.name
    BY EntryIs
  <2>3. e.name \in {"ping", "speed", "ssh"} /\ b \in T!BuiltIn /\ b[1] = e.name /\ b[2] = e.scheme
    BY <1>2 DEF T!BuiltIn
  <2>4. T!Fold(e.name) = e.name /\ T!IsName(e.name) /\ e.name # "proxy"
    BY <2>3, BuiltIns
  <2>5. (CHOOSE x \in T!BuiltIn : x[1] = e.name)[2] = e.scheme
    <3>1. \A x \in T!BuiltIn : x[1] = e.name => x[2] = e.scheme
      <4>1. \A x, y \in T!BuiltIn : x[1] = y[1] => x[2] = y[2]
        BY DEF T!BuiltIn
      <4> HIDE DEF b
      <4> QED BY <2>3, <4>1
    <3> HIDE DEF b
    <3> QED BY <2>3, <3>1
  <2> HIDE DEF line
  <2>7. ~T!HoldsEquals(line.arg)
    BY <2>2, <2>3 DEF T!HoldsEquals
  <2>6. T!ServiceEntry(line) = T!Entry(e.name, (CHOOSE x \in T!BuiltIn : x[1] = e.name)[2], "")
    BY <2>2, <2>3, <2>4, <2>7 DEF T!ServiceEntry
  <2> QED BY <1>1, <1>2, <2>1, <2>5, <2>6
<1>3. CASE ~(<<e.name, e.scheme>> \in T!BuiltIn /\ e.arg = "") /\ e.name = e.scheme /\ e.scheme \in {"proxy", "recv"}
  <2> DEFINE line == T!Entry(None, e.scheme, e.arg)
  <2>1. T!AsTyped(e) = [e EXCEPT !.name = None]
    BY <1>3 DEF T!AsTyped
  <2>2. T!AsTyped(e) = line
    BY <1>1, <2>1, EntryIs
  <2>3. line.name = None /\ line.scheme = e.scheme /\ line.arg = e.arg
    BY EntryIs
  <2>4. [line EXCEPT !.name = e.scheme] = T!Entry(e.scheme, e.scheme, e.arg)
    BY EntryIs
  <2> HIDE DEF line
  <2>6. line.scheme = "proxy" \/ ~T!HoldsEquals(line.arg)
    BY <1>3, <2>3
  <2>7. line.scheme = "proxy" => T!IsOrigin(line.arg)
    BY <2>3 DEF Settled
  <2>5. T!ServiceEntry(line) = [line EXCEPT !.name = e.scheme]
    BY <1>3, <2>3, <2>6, <2>7 DEF T!ServiceEntry
  <2> QED BY <1>1, <1>3, <2>2, <2>4, <2>5
<1>4. CASE ~(<<e.name, e.scheme>> \in T!BuiltIn /\ e.arg = "") /\ ~(e.name = e.scheme /\ e.scheme \in {"proxy", "recv"})
  <2>1. T!AsTyped(e) = e
    BY <1>4 DEF T!AsTyped
  <2> QED BY <2>1, ReadAgain
<1> QED BY <1>2, <1>3, <1>4

\* A line that is read as a named service is settled.
LEMMA ParsedSettled ==
    ASSUME NEW line, IsEntry(line), T!ServiceEntry(line).name # None
    PROVE  Settled(T!ServiceEntry(line))
<1> DEFINE e == T!ServiceEntry(line)
<1>1. line = T!Entry(line.name, line.scheme, line.arg)
  BY DEF IsEntry
<1>2. e # T!Refused
  <2>1. T!Refused.name = None
    BY DEF T!Refused, T!Entry
  <2> QED BY <2>1
<1>3. line.scheme = "proxy" => T!IsOrigin(line.arg)
  BY <1>2 DEF T!ServiceEntry
<1>8. line.name = None => line.scheme = "proxy" \/ ~T!HoldsEquals(line.arg)
  BY <1>2 DEF T!ServiceEntry
<1>4. CASE line.name # None
  <2>1. T!IsName(line.name) /\ e = [line EXCEPT !.name = T!Fold(line.name)]
    BY <1>2, <1>4 DEF T!ServiceEntry
  <2>2. e = T!Entry(T!Fold(line.name), line.scheme, line.arg)
    BY <1>1, <2>1, EntryIs
  <2>3. e.name = T!Fold(line.name) /\ e.scheme = line.scheme /\ e.arg = line.arg /\ IsEntry(e)
    BY <2>2, EntryIs
  <2> HIDE DEF e
  <2> QED BY <1>3, <1>4, <2>1, <2>3, FoldsOnce DEF Settled, e
<1>5. CASE line.name = None /\ line.scheme \in {"proxy", "recv"}
  <2>1. e = [line EXCEPT !.name = line.scheme]
    BY <1>3, <1>5, <1>8 DEF T!ServiceEntry
  <2>2. e = T!Entry(line.scheme, line.scheme, line.arg)
    BY <1>1, <2>1, EntryIs
  <2>3. e.name = line.scheme /\ e.scheme = line.scheme /\ e.arg = line.arg /\ IsEntry(e)
    BY <2>2, EntryIs
  <2>4. e.name # None /\ T!IsName(e.name) /\ T!Fold(e.name) = e.name
    BY <1>5, <2>3, BuiltIns
  <2> HIDE DEF e
  <2> QED BY <1>3, <2>3, <2>4 DEF Settled, e
<1>6. CASE line.name = None /\ line.scheme = "bare"
  <2> DEFINE word == T!Fold(line.arg)
  <2>1. PICK b \in T!BuiltIn : b[1] = word
    <3>1. ASSUME \A b \in T!BuiltIn : b[1] # word PROVE FALSE
      <4>1. e = [line EXCEPT !.arg = word]
        BY <1>2, <1>6, <3>1 DEF T!ServiceEntry
      <4>2. e = T!Entry(line.name, line.scheme, word)
        BY <1>1, <4>1, EntryIs
      <4> QED BY <1>6, <4>2, EntryIs
    <3> QED BY <3>1
  <2>2. e = T!Entry(word, (CHOOSE x \in T!BuiltIn : x[1] = word)[2], "")
    BY <1>2, <1>6, <2>1 DEF T!ServiceEntry
  <2>3. word \in {"ping", "speed", "ssh"}
    BY <2>1 DEF T!BuiltIn
  <2>4. (CHOOSE x \in T!BuiltIn : x[1] = word)[2] # "proxy"
    <3>1. \A x \in T!BuiltIn : x[2] # "proxy"
      BY DEF T!BuiltIn
    <3> HIDE DEF word
    <3> QED BY <2>1, <3>1
  <2>5. word # None /\ T!IsName(word) /\ T!Fold(word) = word
    BY <2>3, BuiltIns
  <2> HIDE DEF word
  <2>6. e.name = word /\ e.scheme # "proxy" /\ IsEntry(e)
    <3> DEFINE scheme == (CHOOSE x \in T!BuiltIn : x[1] = word)[2]
               nothing == ""
    <3>1. e = T!Entry(word, scheme, nothing) /\ scheme # "proxy"
      BY <2>2, <2>4
    <3> HIDE DEF scheme, nothing, e
    <3> QED BY <3>1, EntryIs
  <2> HIDE DEF e
  <2> QED BY <2>5, <2>6 DEF Settled, e
<1>7. CASE line.name = None /\ line.scheme \notin {"proxy", "recv", "bare"}
  <2>1. e = line
    BY <1>7, <1>8 DEF T!ServiceEntry
  <2> QED BY <1>7, <2>1
<1> QED BY <1>4, <1>5, <1>6, <1>7

\* Saved as absolute, an entry leads to the same place from anywhere.
LEMMA SavedPlain ==
    ASSUME NEW e, Settled(e), NEW cwd \in Dirs
    PROVE  T!Saved(e, cwd).name = e.name /\ Plain(T!Saved(e, cwd))
<1>1. e = T!Entry(e.name, e.scheme, e.arg)
  BY DEF Settled, IsEntry
<1>2. CASE e.scheme \in T!PathSchemes /\ e.arg \in {"", "here"} /\ ~(e.scheme = "recv" /\ e.arg = "")
  <2> DEFINE s == T!Saved(e, cwd)
  <2>1. s = T!Entry(e.name, e.scheme, cwd)
    <3>1. s = [e EXCEPT !.arg = cwd]
      BY <1>2 DEF T!Saved
    <3> HIDE DEF s
    <3> QED BY <1>1, <3>1, EntryIs
  <2> HIDE DEF s
  <2>2. s.name = e.name /\ s.scheme = e.scheme /\ s.arg = cwd /\ IsEntry(s)
    BY <2>1, EntryIs
  <2>3. e.scheme # "proxy" /\ cwd # "here"
    BY <1>2, StartAssumption DEF T!PathSchemes
  <2>4. Plain(s)
    BY <2>2, <2>3 DEF Plain, Settled
  <2> QED BY <2>2, <2>4 DEF s
<1>3. CASE ~(e.scheme \in T!PathSchemes /\ e.arg \in {"", "here"} /\ ~(e.scheme = "recv" /\ e.arg = ""))
  <2>1. T!Saved(e, cwd) = e
    BY <1>3 DEF T!Saved
  <2>2. e.scheme \in T!PathSchemes => e.arg # "here"
    BY <1>3
  <2> QED BY <2>1, <2>2 DEF Plain
<1> QED BY <1>2, <1>3

LEMMA PlainLeads ==
    ASSUME NEW entries, \A e \in entries : Plain(e), NEW cwd
    PROVE  {T!Leads(e, cwd) : e \in entries} = entries
<1>1. \A e \in entries : T!Leads(e, cwd) = e
  BY DEF Plain, T!Leads
<1> QED BY <1>1

\* A list of settled entries is read as it stands, or refused whole.
LEMMA SettledRead ==
    ASSUME NEW list, list # None, \A e \in list : Settled(e)
    PROVE  /\ {T!ServiceEntry(e) : e \in list} = list
           /\ T!Bare(list) = IF T!Twice(list) THEN {T!Refused} ELSE list
<1>1. {T!ServiceEntry(e) : e \in list} = list
  <2>1. \A e \in list : T!ServiceEntry(e) = e
    BY ReadAgain
  <2> QED BY <2>1
<1>2. \A e \in list : e.name # None
  BY DEF Settled
<1> QED BY <1>1, <1>2 DEF T!Bare

-----------------------------------------------------------------------------
(* A start: the inductive invariant                                        *)

RunFields(r) ==
    r \in [at : {r.at}, cwd : {r.cwd}, typed : {r.typed}, open : {r.open}, flag : {r.flag}, admit : {r.admit},
           first : {r.first}, entries : {r.entries}, bound : {r.bound}, engines : {r.engines}, relay : {r.relay},
           said : {r.said}]

\* What was typed is a list of settled entries; what it starts with comes of it, or of the one read of the file.
TypedOk(r) ==
    /\ \A e \in r.typed : Settled(e)
    /\ ~T!Twice(r.typed)
    /\ r.typed # {} => r.cwd \in Dirs /\ {T!Saved(e, r.cwd) : e \in r.typed} # None

StartOk(r) ==
    /\ RunFields(r) /\ TypedOk(r)
    /\ r.at \in {"idle", "held", "claimed", "keyed", "admitting", "bound", "serving"}
    /\ r.at \in {"claimed", "keyed", "admitting", "bound"} =>
          T!Refused \notin r.entries /\ r.entries = T!Started(r, r.first.list)
    /\ r.at = "bound" => r.relay = T!Reach(r) /\ r.bound = {T!Leads(e, r.cwd) : e \in r.entries}

\* Only the start that holds serve.lock is on its way; and what was saved last leads where its entries do.
TInv ==
    /\ DOMAIN starts = Starting /\ \A p \in Starting : StartOk(starts[p])
    /\ holder \in Starting \cup {None} /\ \A p \in Starting : starts[p].at # "idle" <=> holder = p
    /\ T!RecordTrue
    /\ last.list # None => (\A e \in last.list : Plain(e)) /\ last.bound = last.list

LEMMA StartIdle == StartOk(T!Idle) /\ T!Idle.at = "idle"
<1>1. RunFields(T!Idle)
  BY DEF RunFields, T!Idle
<1>2. T!Idle.at = "idle" /\ T!Idle.typed = {}
  BY DEF T!Idle
<1> QED BY <1>1, <1>2 DEF StartOk, TypedOk, T!Twice

\* A named list, saved absolute: read back, it is itself.
LEMMA NamedList ==
    ASSUME NEW r, TypedOk(r), r.typed # {}
    PROVE  LET entries == {T!Saved(e, r.cwd) : e \in r.typed} IN
           /\ \A e \in entries : Plain(e)
           /\ entries # None /\ T!Bare(entries) = entries
           /\ {T!Leads(e, r.cwd) : e \in entries} = entries
<1> DEFINE entries == {T!Saved(e, r.cwd) : e \in r.typed}
<1>1. r.cwd \in Dirs /\ (\A e \in r.typed : Settled(e)) /\ ~T!Twice(r.typed) /\ entries # None
  BY DEF TypedOk
<1>2. \A e \in r.typed : T!Saved(e, r.cwd).name = e.name /\ Plain(T!Saved(e, r.cwd))
  BY <1>1, SavedPlain
<1>3. \A e \in entries : Plain(e)
  BY <1>2
<1>4. ~T!Twice(entries)
  BY <1>1, <1>2 DEF T!Twice
<1> HIDE DEF entries
<1>5. T!Bare(entries) = entries
  <2>1. \A e \in entries : Settled(e)
    BY <1>3 DEF Plain
  <2> QED BY <1>1, <1>4, <2>1, SettledRead
<1>6. {T!Leads(e, r.cwd) : e \in entries} = entries
  BY <1>3, PlainLeads
<1> QED BY <1>1, <1>3, <1>5, <1>6 DEF entries

\* A step of the start that holds the lock, which stays on its way.
LEMMA StartGoes ==
    ASSUME TInv, NEW p \in Starting, starts[p].at # "idle", NEW r, StartOk(r), r.at # "idle",
           starts' = [starts EXCEPT ![p] = r], UNCHANGED holder,
           record' = [by |-> p, admit |-> IF r.at \in {"admitting", "bound", "serving"} THEN r.admit ELSE None],
           last'.list # None => (\A e \in last'.list : Plain(e)) /\ last'.bound = last'.list
    PROVE  TInv'
<1>1. DOMAIN starts' = Starting /\ starts'[p] = r /\ \A q \in Starting \ {p} : starts'[q] = starts[q]
  BY DEF TInv
<1>2. holder = p /\ \A q \in Starting \ {p} : starts[q].at = "idle"
  BY DEF TInv
<1>3. T!RecordTrue'
  BY <1>1, <1>2 DEF T!RecordTrue, T!At
<1>4. \A q \in Starting : StartOk(starts'[q])
  BY <1>1 DEF TInv
<1> HIDE DEF StartOk
<1> QED BY <1>1, <1>2, <1>3, <1>4 DEF TInv

\* One that ends lets the lock go.
LEMMA StartEnds ==
    ASSUME TInv, NEW p \in Starting, starts[p].at # "idle", starts' = [starts EXCEPT ![p] = T!Idle],
           holder' = None, UNCHANGED last
    PROVE  TInv'
<1>1. DOMAIN starts' = Starting /\ starts'[p] = T!Idle /\ \A q \in Starting \ {p} : starts'[q] = starts[q]
  BY DEF TInv
<1>2. holder = p /\ \A q \in Starting \ {p} : starts[q].at = "idle"
  BY DEF TInv
<1>3. None \notin Starting
  BY StartAssumption
<1>4. T!RecordTrue'
  BY DEF T!RecordTrue
<1>5. \A q \in Starting : StartOk(starts'[q]) /\ starts'[q].at = "idle"
  BY <1>1, <1>2, StartIdle DEF TInv
<1> HIDE DEF StartOk
<1> QED BY <1>1, <1>3, <1>4, <1>5 DEF TInv

LEMMA LetsGoEnds ==
    ASSUME TInv, NEW p \in Starting, starts[p].at # "idle", T!LetsGo(p), UNCHANGED last
    PROVE  TInv'
<1>1. holder = p
  BY DEF TInv
<1> QED BY <1>1, StartEnds DEF T!LetsGo, T!Step

-----------------------------------------------------------------------------
(* A start: every step                                                     *)

\* What a person may type is a list of settled entries.
LEMMA CommandOk ==
    ASSUME NEW typed \in Lines, NEW cwd \in Dirs, NEW entries, entries = {T!ServiceEntry(line) : line \in typed},
           ~T!Mistyped(entries), NEW open, NEW flag, NEW root, NEW r, r = T!Command(cwd, entries, open, flag, root)
    PROVE  StartOk(r) /\ r.at = "held"
<1>1. RunFields(r) /\ r.at = "held" /\ r.cwd = cwd /\ r.typed = entries
  BY DEF T!Command, T!Idle, RunFields
<1>2. \A e \in entries : Settled(e)
  <2> SUFFICES ASSUME NEW line \in typed PROVE Settled(T!ServiceEntry(line))
    OBVIOUS
  <2>1. IsEntry(line)
    BY StartAssumption DEF IsEntry
  <2>2. T!ServiceEntry(line).name # None
    BY DEF T!Mistyped
  <2> QED BY <2>1, <2>2, ParsedSettled
<1>3. ~T!Twice(entries)
  BY DEF T!Mistyped
<1>4. {T!Saved(e, cwd) : e \in entries} # None
  <2>1. {T!Saved(e, cwd) : e \in entries} = {T!Saved(T!ServiceEntry(line), cwd) : line \in typed}
    OBVIOUS
  <2> QED BY <2>1, StartAssumption
<1> QED BY <1>1, <1>2, <1>3, <1>4 DEF StartOk, TypedOk

LEMMA TakeStart ==
    ASSUME TInv, NEW p \in Starting, T!Take(p)
    PROVE  TInv'
<1>1. PICK r : starts' = [starts EXCEPT ![p] = r] /\ StartOk(r) /\ r.at = "held"
  <2>1. PICK typed \in Lines, cwd \in Dirs, open \in SUBSET Openable, flag \in Relays \cup {None},
             root \in Admitted \cup {None} :
               LET entries == {T!ServiceEntry(line) : line \in typed}
               IN  ~T!Mistyped(entries) /\ T!Step(p, T!Command(cwd, entries, open, flag, root))
    BY DEF T!Take
  <2> DEFINE entries == {T!ServiceEntry(line) : line \in typed}
             r == T!Command(cwd, entries, open, flag, root)
  <2>2. ~T!Mistyped(entries) /\ starts' = [starts EXCEPT ![p] = r]
    BY <2>1 DEF T!Step
  <2>3. StartOk(r) /\ r.at = "held"
    BY <2>2, CommandOk
  <2> QED BY <2>2, <2>3
<1>2. StartOk(r) /\ r.at = "held"
  BY <1>1
<1>3. /\ starts[p].at = "idle" /\ holder = None /\ holder' = p /\ UNCHANGED last
      /\ record' = [by |-> p, admit |-> None]
  BY DEF T!Take, T!At
<1>4. \A q \in Starting : starts[q].at = "idle"
  BY <1>3, StartAssumption DEF TInv
<1>5. DOMAIN starts' = Starting /\ starts'[p] = r /\ \A q \in Starting \ {p} : starts'[q] = starts[q]
  BY <1>1 DEF TInv
<1>6. T!RecordTrue'
  BY <1>2, <1>3, <1>5 DEF T!RecordTrue, T!At
<1>7. \A q \in Starting : StartOk(starts'[q])
  BY <1>2, <1>5 DEF TInv
<1> HIDE DEF StartOk
<1> QED BY <1>2, <1>3, <1>4, <1>5, <1>6, <1>7 DEF TInv

\* What is so of a start on its way.
LEMMA OnItsWay ==
    ASSUME TInv, NEW p \in Starting, starts[p].at # "idle"
    PROVE  /\ StartOk(starts[p]) /\ holder = p
           /\ record = [by |-> p,
                         admit |-> IF starts[p].at \in {"admitting", "bound", "serving"} THEN starts[p].admit ELSE None]
           /\ last.list # None => (\A e \in last.list : Plain(e)) /\ last.bound = last.list
BY StartAssumption DEF TInv, T!RecordTrue, T!At

LEMMA ClaimStart ==
    ASSUME TInv, NEW p \in Starting, T!Claim(p)
    PROVE  TInv'
<1> DEFINE entries == T!Started(starts[p], started.list)
           r == [starts[p] EXCEPT !.at = "claimed", !.first = started, !.entries = entries]
<1>1. starts[p].at = "held" /\ UNCHANGED last
  BY DEF T!Claim, T!At
<1>2. CASE T!Refused \in entries
  <2>1. T!LetsGo(p)
    BY <1>2 DEF T!Claim
  <2> QED BY <1>1, <2>1, LetsGoEnds
<1>3. CASE T!Refused \notin entries
  <2>1. starts' = [starts EXCEPT ![p] = r] /\ UNCHANGED <<holder, record>>
    BY <1>3 DEF T!Claim, T!Step
  <2>2. StartOk(starts[p])
    BY <1>1, OnItsWay
  <2>3. entries = T!Started(starts[p], started.list)
    OBVIOUS
  <2> HIDE DEF entries
  <2>4. /\ RunFields(r) /\ r.at = "claimed" /\ r.first = started /\ r.entries = entries
        /\ r.typed = starts[p].typed /\ r.cwd = starts[p].cwd
    BY <2>2 DEF StartOk, RunFields
  <2> HIDE DEF r
  <2>5. entries = T!Started(r, r.first.list)
    BY <2>3, <2>4 DEF T!Started
  <2>6. StartOk(r)
    BY <1>3, <2>2, <2>4, <2>5 DEF StartOk, TypedOk
  <2>7. record' = [by |-> p, admit |-> None]
    BY <1>1, <2>1, OnItsWay
  <2> QED BY <1>1, <2>1, <2>4, <2>6, <2>7, OnItsWay, StartGoes
<1> QED BY <1>2, <1>3

LEMMA KeyedStart ==
    ASSUME TInv, NEW p \in Starting, T!Keyed(p) \/ T!Admit(p)
    PROVE  TInv'
<1> DEFINE to == IF starts[p].at = "claimed" THEN "keyed" ELSE "admitting"
           r == [starts[p] EXCEPT !.at = to]
<1>1. /\ starts[p].at \in {"claimed", "keyed"} /\ UNCHANGED <<last, holder>> /\ starts' = [starts EXCEPT ![p] = r]
      /\ IF starts[p].at = "claimed" THEN UNCHANGED record ELSE record' = [record EXCEPT !.admit = starts[p].admit]
  BY DEF T!Keyed, T!Admit, T!At, T!Step
<1>2. StartOk(starts[p])
  BY <1>1, OnItsWay
<1>3. to \in {"keyed", "admitting"} /\ (to = "keyed" <=> starts[p].at = "claimed")
  OBVIOUS
<1> HIDE DEF to
<1>4. /\ RunFields(r) /\ r.at = to /\ r.first = starts[p].first /\ r.entries = starts[p].entries
      /\ r.typed = starts[p].typed /\ r.cwd = starts[p].cwd /\ r.admit = starts[p].admit
  BY <1>2 DEF StartOk, RunFields
<1> HIDE DEF r
<1>5. StartOk(r)
  BY <1>1, <1>2, <1>3, <1>4 DEF StartOk, TypedOk, T!Started
<1>6. record = [by |-> p, admit |-> None]
  BY <1>1, OnItsWay
<1>7. record' = [by |-> p, admit |-> IF r.at \in {"admitting", "bound", "serving"} THEN r.admit ELSE None]
  BY <1>1, <1>3, <1>4, <1>6
<1>8. r.at # "idle" /\ starts[p].at # "idle"
  BY <1>1, <1>3, <1>4
<1> QED BY <1>1, <1>5, <1>7, <1>8, OnItsWay, StartGoes

LEMMA BindStart ==
    ASSUME TInv, NEW p \in Starting, T!Bind(p)
    PROVE  TInv'
<1>1. starts[p].at = "admitting" /\ UNCHANGED last
  BY DEF T!Bind, T!At
<1>2. CASE T!LetsGo(p)
  BY <1>1, <1>2, LetsGoEnds
<1>3. CASE ~T!LetsGo(p)
  <2> DEFINE engines == {[name |-> e.name, engine |-> T!Engine(e, starts[p].open)] : e \in starts[p].entries}
             bound == {T!Leads(e, starts[p].cwd) : e \in starts[p].entries}
             relay == T!Reach(starts[p])
             r == [starts[p] EXCEPT !.at = "bound", !.engines = engines, !.relay = relay, !.bound = bound]
  <2>1. starts' = [starts EXCEPT ![p] = r] /\ UNCHANGED <<holder, record>>
    BY <1>3 DEF T!Bind, T!Step
  <2>2. StartOk(starts[p])
    BY <1>1, OnItsWay
  <2>3. bound = {T!Leads(e, starts[p].cwd) : e \in starts[p].entries} /\ relay = T!Reach(starts[p])
    OBVIOUS
  <2> HIDE DEF engines, bound, relay
  <2>4. /\ RunFields(r) /\ r.at = "bound" /\ r.first = starts[p].first /\ r.entries = starts[p].entries
        /\ r.typed = starts[p].typed /\ r.cwd = starts[p].cwd /\ r.admit = starts[p].admit
        /\ r.flag = starts[p].flag /\ r.relay = relay /\ r.bound = bound
    BY <2>2 DEF StartOk, RunFields
  <2> HIDE DEF r
  <2>5. StartOk(r)
    BY <1>1, <2>2, <2>3, <2>4 DEF StartOk, TypedOk, T!Started, T!Reach
  <2>6. record' = [by |-> p, admit |-> r.admit]
    BY <1>1, <2>1, <2>4, OnItsWay
  <2> QED BY <1>1, <2>1, <2>4, <2>5, <2>6, OnItsWay, StartGoes
<1> QED BY <1>2, <1>3

LEMMA SaveStart ==
    ASSUME TInv, NEW p \in Starting, T!Save(p)
    PROVE  TInv'
<1> DEFINE said == T!Replaced(starts[p], started.list)
           r == T!Serving(starts[p], said)
<1>1. /\ starts[p].at = "bound" /\ UNCHANGED <<holder, record>> /\ starts' = [starts EXCEPT ![p] = r]
      /\ last' = IF starts[p].typed # {} THEN [list |-> starts[p].entries, bound |-> starts[p].bound] ELSE last
  BY DEF T!Save, T!At, T!Step
<1>2. StartOk(starts[p])
  BY <1>1, OnItsWay
<1> HIDE DEF said
<1>3. RunFields(r) /\ r.at = "serving" /\ r.admit = starts[p].admit /\ r.typed = {}
  BY DEF T!Serving, T!Idle, RunFields
<1> HIDE DEF r
<1>4. StartOk(r)
  BY <1>3 DEF StartOk, TypedOk, T!Twice
<1>5. record' = [by |-> p, admit |-> r.admit]
  BY <1>1, <1>3, OnItsWay
<1>6. last'.list # None => (\A e \in last'.list : Plain(e)) /\ last'.bound = last'.list
  <2>1. CASE starts[p].typed = {}
    BY <1>1, <2>1, OnItsWay
  <2>2. CASE starts[p].typed # {}
    <3>1. /\ TypedOk(starts[p])
          /\ starts[p].entries = {T!Saved(e, starts[p].cwd) : e \in starts[p].typed}
          /\ starts[p].bound = {T!Leads(e, starts[p].cwd) : e \in starts[p].entries}
      BY <1>1, <1>2, <2>2 DEF StartOk, T!Started
    <3>2. last'.list = starts[p].entries /\ last'.bound = starts[p].bound
      BY <1>1, <2>2
    <3> QED BY <2>2, <3>1, <3>2, NamedList
  <2> QED BY <2>1, <2>2
<1> QED BY <1>1, <1>3, <1>4, <1>5, <1>6, StartGoes

LEMMA StartStep ==
    ASSUME TInv, T!Next
    PROVE  TInv'
<1>1. CASE \E p \in Starting : T!Take(p) \/ T!Claim(p) \/ T!Keyed(p) \/ T!Admit(p) \/ T!Bind(p) \/ T!Save(p)
  BY <1>1, TakeStart, ClaimStart, KeyedStart, BindStart, SaveStart
<1>2. CASE \E p \in Starting : T!Stop(p)
  BY <1>2, LetsGoEnds DEF T!Stop, T!At
<1>3. CASE \E p \in Starting : T!Die(p)
  BY <1>3, StartEnds DEF T!Die, T!At, T!Step
<1>4. CASE T!Edit
  BY <1>4 DEF T!Edit, TInv, T!RecordTrue, T!At
<1> QED BY <1>1, <1>2, <1>3, <1>4 DEF T!Next, T!Starts

LEMMA StartInit == MCInit => TInv
<1> SUFFICES ASSUME MCInit PROVE TInv
  OBVIOUS
<1>1. starts = [p \in Starting |-> T!Idle] /\ holder = None /\ last = [list |-> None, bound |-> {}]
  BY DEF MCInit, T!Init
<1>2. \A p \in Starting : starts[p] = T!Idle /\ p # None
  BY <1>1, StartAssumption
<1>3. \A p \in Starting : StartOk(starts[p]) /\ starts[p].at = "idle"
  BY <1>2, StartIdle
<1> HIDE DEF StartOk
<1> QED BY <1>1, <1>2, <1>3 DEF TInv, T!RecordTrue

LEMMA StartOrNot == [MCNext]_all => T!Next \/ UNCHANGED start
BY DEF MCNext, all, keys, services, people, start, watched, dialing, vars

LEMMA StartHolds == MCSpec => []TInv
<1>1. TInv /\ [MCNext]_all => TInv'
  <2> SUFFICES ASSUME TInv, [MCNext]_all PROVE TInv'
    OBVIOUS
  <2>1. CASE T!Next
    BY <2>1, StartStep
  <2>2. CASE UNCHANGED start
    BY <2>2 DEF start, TInv, T!RecordTrue, T!At
  <2> QED BY <2>1, <2>2, StartOrNot
<1> QED BY <1>1, StartInit, PTL DEF MCSpec

\* A bare start on the list a named one saved leads each entry where that one did.
LEMMA Resumes ==
    ASSUME TInv
    PROVE  T!TypedBack /\ T!ResumesSame
<1>1. T!TypedBack
  BY ShortestBack DEF TInv, StartOk, TypedOk, T!TypedBack, T!GivenBack
<1>2. ASSUME NEW p \in Starting, starts[p].at = "bound"
      PROVE  /\ starts[p].flag = None => starts[p].relay = starts[p].first.relay
             /\ starts[p].typed = {} => starts[p].entries = T!Bare(starts[p].first.list)
             /\ starts[p].typed = {} /\ starts[p].first.list # None /\ starts[p].first.list = last.list =>
                   starts[p].bound = last.bound
  <2>1. /\ T!Refused \notin starts[p].entries /\ starts[p].entries = T!Started(starts[p], starts[p].first.list)
        /\ starts[p].relay = T!Reach(starts[p])
        /\ starts[p].bound = {T!Leads(e, starts[p].cwd) : e \in starts[p].entries}
    BY <1>2 DEF TInv, StartOk
  <2>2. starts[p].typed = {} => starts[p].entries = T!Bare(starts[p].first.list)
    BY <2>1 DEF T!Started
  <2>3. ASSUME starts[p].typed = {}, starts[p].first.list # None, starts[p].first.list = last.list
        PROVE  starts[p].bound = last.bound
    <3>1. (\A e \in last.list : Plain(e)) /\ last.bound = last.list /\ last.list # None
      BY <2>3 DEF TInv
    <3>2. starts[p].entries = IF T!Twice(last.list) THEN {T!Refused} ELSE last.list
      BY <2>2, <2>3, <3>1, SettledRead DEF Plain
    <3>3. starts[p].entries = last.list
      BY <2>1, <3>2
    <3> QED BY <2>1, <3>1, <3>3, PlainLeads
  <2> QED BY <2>1, <2>2, <2>3 DEF T!Reach
<1> QED BY <1>1, <1>2 DEF T!ResumesSame, T!At

\* A save writes what was typed and nothing else, and says what it drops.
LEMMA SavesOnly ==
    ASSUME TInv, T!Next, NEW p \in Starting, T!At(p) = "bound", T!At(p)' = "serving"
    PROVE  /\ starts[p].flag = None => started'.relay = started.relay
           /\ starts[p].typed = {} => started'.list = started.list
           /\ starts[p].typed # {} /\ started.list # None /\ T!Refused \notin T!Bare(started.list) =>
                 T!Bare(started.list) \ T!Bare(started'.list) \subseteq starts'[p].said
<1>1. DOMAIN starts = Starting /\ StartOk(starts[p]) /\ starts[p].at = "bound" /\ starts'[p].at = "serving"
  BY DEF TInv, T!At
<1>2. T!Save(p)
  <2>1. PICK q \in Starting : T!Starts(q)
    <3>1. ~T!Edit
      BY <1>1 DEF T!Edit
    <3> QED BY <3>1 DEF T!Next
  <2>2. \E r : starts' = [starts EXCEPT ![q] = r]
    BY <2>1 DEF T!Starts, T!Take, T!Claim, T!Keyed, T!Admit, T!Bind, T!Save, T!Stop, T!Die, T!LetsGo, T!Step
  <2>3. q = p
    BY <1>1, <2>2
  <2>4. ~T!Stop(p) /\ ~T!Die(p) /\ ~T!Bind(p) /\ ~T!Take(p) /\ ~T!Claim(p) /\ ~T!Keyed(p) /\ ~T!Admit(p)
    BY <1>1, StartIdle DEF T!Stop, T!Die, T!Bind, T!Take, T!Claim, T!Keyed, T!Admit, T!At, T!LetsGo, T!Step
  <2> QED BY <2>1, <2>3, <2>4 DEF T!Starts
<1>3. /\ started' = [list |-> IF starts[p].typed # {} THEN starts[p].entries ELSE started.list,
                     relay |-> IF starts[p].flag # None THEN starts[p].flag ELSE started.relay]
      /\ starts'[p] = T!Serving(starts[p], T!Replaced(starts[p], started.list))
  BY <1>1, <1>2 DEF T!Save, T!Step
<1>4. ASSUME starts[p].typed # {}, started.list # None, T!Refused \notin T!Bare(started.list)
      PROVE  T!Bare(started.list) \ T!Bare(started'.list) \subseteq starts'[p].said
  <2>1. TypedOk(starts[p]) /\ starts[p].entries = {T!Saved(e, starts[p].cwd) : e \in starts[p].typed}
    BY <1>1, <1>4 DEF StartOk, T!Started
  <2>2. T!Bare(started'.list) = starts[p].entries
    <3>1. started'.list = starts[p].entries
      BY <1>3, <1>4
    <3> QED BY <1>4, <2>1, <3>1, NamedList
  <2> DEFINE said == T!Replaced(starts[p], started.list)
  <2>3. said = {e \in T!Bare(started.list) : e \notin starts[p].entries}
    BY <1>4 DEF T!Replaced
  <2> HIDE DEF said
  <2>4. starts'[p].said = said
    BY <1>3 DEF T!Serving, T!Idle, said
  <2> QED BY <2>2, <2>3, <2>4
<1> QED BY <1>3, <1>4

\* What a refused start prints to be typed is what it was typed; while serve.lock is held it says who serves and which
\* root it admits; a bare start resumes what the named one saved, from any directory; and saving loses nothing another
\* command left (serve.rs 247-250; home/lock.rs 271-278; serving.rs 27-29; commands/serve.rs 402-434, 630-645).
THEOREM StartsWhatIsTyped == MCSpec => StartsAsTyped
<1>1. TInv => (part = "start" => T!TypedBack /\ T!RecordTrue /\ T!ResumesSame)
  BY Resumes DEF TInv
<1>2. TInv /\ [MCNext]_all =>
        [\A p \in Starting :
           T!At(p) = "bound" /\ T!At(p)' = "serving" =>
              /\ starts[p].flag = None => started'.relay = started.relay
              /\ starts[p].typed = {} => started'.list = started.list
              /\ starts[p].typed # {} /\ started.list # None /\ T!Refused \notin T!Bare(started.list) =>
                    T!Bare(started.list) \ T!Bare(started'.list) \subseteq starts'[p].said]_(T!vars)
  BY SavesOnly, StartOrNot DEF start, T!vars
<1> QED BY <1>1, <1>2, StartHolds, PTL DEF MCSpec, StartsAsTyped, T!SavesAsTyped
=============================================================================
