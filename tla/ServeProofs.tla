----------------------------- MODULE ServeProofs -----------------------------
(***************************************************************************)
(* What Serve proves for any number of serves, key replacements, devices   *)
(* and commands, and any debounce: an inductive invariant, and from it     *)
(* that one process at a time serves a home and tidies up after itself,    *)
(* and that a device the first round revoked stops nothing.  And what      *)
(* Control proves for any serves and commands: that none is said absent    *)
(* which listened all along.                                               *)
(***************************************************************************)
EXTENDS MCServing, TLAPS

RunShape ==
    [at : Phases, found : Proc \cup {None}, cached : SUBSET Device, age : 0 .. Debounce,
     heard : SUBSET Device, wait : 0 .. Debounce, round : {"none", "asking", "waiting", "over"},
     cancelled : BOOLEAN, expired : BOOLEAN, source : Caller \cup {None, "interrupted"}]

CallShape ==
    [at : {"none", "admitted", "running", "armed", "noted"}, to : Start \cup {None}, late : BOOLEAN]

\* Every variable has its shape, the fields of each process and of each call included.
Shaped ==
    /\ {homeLock, serveLock, record, socket} \subseteq Proc \cup {None}
    /\ leaf \in BOOLEAN /\ spoiled \in BOOLEAN /\ revoked \subseteq Device
    /\ run \in [Proc -> RunShape]
    /\ call \in [Caller -> CallShape]

\* Who holds which lock, by where each process is; and serve.lock records its holder or nobody, for as long as a
\* process that lost it has home.lock.
Locks ==
    /\ \A p \in Proc :
          /\ At(p) \in {"home", "lost", "taken"} => homeLock = p
          /\ At(p) \notin {"idle", "home", "lost"} <=> serveLock = p
          /\ p \notin Start => At(p) \in {"idle", "home", "taken", "emptying", "unlocking"}
          /\ At(p) = "lost" => record \in {run[p].found, None}
          /\ At(p) \in {"taken", "unlocking"} => record = None
    /\ serveLock # None => record \in {serveLock, None}

\* What is in the runtime directory, by where the holder of serve.lock is.
Made ==
    /\ \A p \in Proc :
          /\ At(p) \in {"claimed", "serving"} => socket = p /\ leaf
          /\ At(p) = "unlinking" => socket = p
          /\ At(p) = "removing" => socket = None
          /\ ~spoiled /\ At(p) \in {"taken", "recorded", "emptying", "unlocking"} => socket = None /\ ~leaf
          /\ At(p) = "leaf" => leaf
          /\ ~spoiled /\ At(p) = "leaf" => socket = None
    /\ ~spoiled /\ serveLock = None => socket = None /\ ~leaf /\ record = None

\* What a round heard and the gate read is in the file; and once the wait is over the gate has read it or asks it
\* again, for its last stat is as old as the round's end.
Reads ==
    \A p \in Proc :
        /\ run[p].heard \subseteq revoked /\ run[p].cached \subseteq revoked
        /\ At(p) = "serving" /\ run[p].round = "waiting" =>
              run[p].heard \subseteq run[p].cached \/ run[p].age + run[p].wait >= Debounce
        /\ At(p) = "serving" /\ run[p].round = "over" =>
              run[p].heard \subseteq run[p].cached \/ run[p].age >= Debounce

\* A call is to a serve that runs; one admitted after control.stop opened is of a device its round did not revoke.
CallsRun ==
    \A c \in Caller : call[c].at # "none" =>
        /\ call[c].to \in Start /\ At(call[c].to) = "serving"
        /\ c \in Device /\ call[c].late => IsOpen(call[c].to) /\ c \notin run[call[c].to].heard

\* The inductive invariant.
IInv == Shaped /\ Locks /\ Made /\ Reads /\ CallsRun

-----------------------------------------------------------------------------

\* A process at rest and no call have the shape.
LEMMA RestShape == Rest \in RunShape /\ Silent \in CallShape
<1>1. 0 \in 0 .. Debounce
  BY ServeAssumption
<1> QED
  BY <1>1 DEF Rest, Silent, RunShape, CallShape, Phases

\* A flag that is set keeps the shape.
LEMMA FlagShape ==
    ASSUME NEW r \in RunShape, NEW yes, yes = TRUE
    PROVE  [r EXCEPT !.cancelled = yes] \in RunShape /\ [r EXCEPT !.cancelled = yes, !.expired = yes] \in RunShape
<1> DEFINE one == [r EXCEPT !.cancelled = yes]
           two == [one EXCEPT !.expired = yes]
<1>1. yes \in BOOLEAN
  OBVIOUS
<1>2. one \in RunShape
  BY <1>1 DEF RunShape
<1>3. two \in RunShape
  BY <1>1, <1>2 DEF RunShape
<1>4. two = [r EXCEPT !.cancelled = yes, !.expired = yes]
  BY DEF RunShape
<1> QED
  BY <1>2, <1>3, <1>4

\* What a tick changes of a process: its two clocks, and never what the debounce has still to pass.
LEMMA OlderShape ==
    ASSUME NEW r \in RunShape
    PROVE  /\ Older(r) \in RunShape
           /\ Older(r).at = r.at /\ Older(r).found = r.found /\ Older(r).round = r.round
           /\ Older(r).heard = r.heard /\ Older(r).cached = r.cached
           /\ r.age >= Debounce => Older(r).age >= Debounce
           /\ r.age + r.wait >= Debounce => Older(r).age + Older(r).wait >= Debounce
<1>1. Debounce \in Nat /\ r.age \in 0 .. Debounce /\ r.wait \in 0 .. Debounce
  BY ServeAssumption DEF RunShape
<1> DEFINE age == IF r.age < Debounce THEN r.age + 1 ELSE r.age
           wait == IF r.wait > 0 THEN r.wait - 1 ELSE 0
<1>2. age \in 0 .. Debounce /\ wait \in 0 .. Debounce
  BY <1>1
<1>3. (r.age >= Debounce => age >= Debounce) /\ (r.age + r.wait >= Debounce => age + wait >= Debounce)
  BY <1>1
<1> HIDE DEF age, wait
<1>4. Older(r) = [r EXCEPT !.age = age, !.wait = wait]
  BY DEF Older, age, wait
<1> QED
  BY <1>2, <1>3, <1>4 DEF RunShape

\* What the gate's question changes of a process: what it read and when; and it has read all that a round whose wait
\* is over heard.
LEMMA AskedShape ==
    ASSUME NEW p \in Proc, Shaped, Reads
    PROVE  /\ Asked(p) \in [Proc -> RunShape]
           /\ Refused(p) \subseteq revoked
           /\ \A q \in Proc \ {p} : Asked(p)[q] = run[q]
           /\ Asked(p)[p].at = run[p].at /\ Asked(p)[p].found = run[p].found /\ Asked(p)[p].round = run[p].round
           /\ Asked(p)[p].heard = run[p].heard /\ Asked(p)[p].wait = run[p].wait
           /\ Asked(p)[p].source = run[p].source
           /\ Asked(p)[p].cached = Refused(p)
           /\ Asked(p)[p].age = run[p].age \/ run[p].heard \subseteq Refused(p)
           /\ run[p].heard \subseteq run[p].cached => run[p].heard \subseteq Refused(p)
           /\ run[p].at = "serving" /\ run[p].round = "over" => run[p].heard \subseteq Refused(p)
<1>1. run[p] \in RunShape /\ run[p].age \in 0 .. Debounce /\ Debounce \in Nat
  BY ServeAssumption DEF Shaped, RunShape
<1>2. Refused(p) \subseteq revoked /\ Refused(p) \subseteq Device
  BY DEF Refused, Reads, Shaped
<1> DEFINE age == IF run[p].age >= Debounce THEN 0 ELSE run[p].age
           r == [run[p] EXCEPT !.cached = Refused(p), !.age = age]
<1>3. age \in 0 .. Debounce /\ (age = run[p].age \/ run[p].age >= Debounce)
  BY <1>1
<1>4. Asked(p) = [run EXCEPT ![p] = r]
  BY DEF Asked, Shaped
<1>5. run[p].age >= Debounce \/ run[p].heard \subseteq run[p].cached => run[p].heard \subseteq Refused(p)
  BY DEF Refused, Reads
<1>6. run[p].at = "serving" /\ run[p].round = "over" => run[p].heard \subseteq Refused(p)
  BY <1>5 DEF Reads, At
<1> HIDE DEF age
<1>7. r \in RunShape
  BY <1>1, <1>2, <1>3 DEF RunShape
<1>8. /\ r.at = run[p].at /\ r.found = run[p].found /\ r.round = run[p].round
      /\ r.heard = run[p].heard /\ r.wait = run[p].wait /\ r.source = run[p].source
      /\ r.cached = Refused(p) /\ r.age = age
  BY <1>1 DEF RunShape
<1> HIDE DEF r
<1> QED
  BY <1>2, <1>3, <1>4, <1>5, <1>6, <1>7, <1>8 DEF Shaped

\* A home nobody serves.
LEMMA InitInv == Init => IInv
<1> SUFFICES ASSUME Init PROVE IInv
  OBVIOUS
<1> USE ServeAssumption DEF Init, Rest, At
<1>1. Shaped
  BY RestShape DEF Shaped
<1>2. Locks /\ Made /\ Reads
  BY DEF Locks, Made, Reads
<1>3. CallsRun
  BY DEF CallsRun, Silent
<1> QED
  BY <1>1, <1>2, <1>3 DEF IInv

\* Every step keeps the invariant, one action at a time and under it one part of the invariant at a time.
LEMMA StepInv == IInv /\ [Next]_vars => IInv'
<1> SUFFICES ASSUME IInv, [Next]_vars PROVE IInv'
  OBVIOUS
<1> USE ServeAssumption DEF IInv, At, Proc, Caller
<1>1. ASSUME NEW p \in Proc, TakeHome(p) PROVE IInv'
  <2>1. Shaped'
    BY <1>1 DEF TakeHome, files, Goes, Shaped, RunShape, CallShape, Phases
  <2>2. Locks'
    BY <1>1 DEF TakeHome, files, Goes, Shaped, RunShape, Phases, Locks
  <2>3. Made'
    BY <1>1 DEF TakeHome, files, Goes, Shaped, RunShape, Locks, Made
  <2>4. Reads'
    BY <1>1 DEF TakeHome, files, Goes, Shaped, RunShape, Reads
  <2>5. CallsRun'
    BY <1>1 DEF TakeHome, files, Goes, Shaped, RunShape, CallShape, CallsRun, IsOpen
  <2> QED
    BY <2>1, <2>2, <2>3, <2>4, <2>5
<1>2. ASSUME NEW p \in Proc, TakeServe(p) PROVE IInv'
  <2>1. Shaped'
    BY <1>2 DEF TakeServe, files, Goes, Shaped, RunShape, CallShape, Phases
  <2>2. Locks'
    BY <1>2 DEF TakeServe, files, Goes, Shaped, RunShape, Phases, Locks
  <2>3. Made'
    BY <1>2 DEF TakeServe, files, Goes, Shaped, RunShape, Locks, Made
  <2>4. Reads'
    BY <1>2 DEF TakeServe, files, Goes, Shaped, RunShape, Reads
  <2>5. CallsRun'
    BY <1>2 DEF TakeServe, files, Goes, Shaped, RunShape, CallShape, CallsRun, IsOpen
  <2> QED
    BY <2>1, <2>2, <2>3, <2>4, <2>5
<1>3. ASSUME NEW p \in Proc, Lose(p) PROVE IInv'
  <2>1. Shaped'
    <3>1. run[p] \in RunShape /\ serveLock \in Proc \cup {None}
      BY DEF Shaped
    <3>2. [run[p] EXCEPT !.at = "lost", !.found = serveLock] \in RunShape
      BY <3>1 DEF RunShape, Phases
    <3> QED
      BY <1>3, <3>2, RestShape DEF Lose, files, Shaped
  <2>2. Locks'
    BY <1>3 DEF Lose, files, Rest, Shaped, RunShape, Phases, Locks
  <2>3. Made'
    BY <1>3 DEF Lose, files, Rest, Shaped, RunShape, Locks, Made
  <2>4. Reads'
    BY <1>3 DEF Lose, files, Rest, Shaped, RunShape, Reads
  <2>5. CallsRun'
    BY <1>3 DEF Lose, files, Rest, Shaped, RunShape, CallShape, CallsRun, IsOpen
  <2> QED
    BY <2>1, <2>2, <2>3, <2>4, <2>5
<1>4. ASSUME NEW p \in Proc, Tell(p) PROVE IInv'
  <2>1. Shaped'
    BY <1>4 DEF Tell, files, Rest, Shaped, RunShape, CallShape, Phases
  <2>2. Locks'
    BY <1>4 DEF Tell, files, Rest, Shaped, RunShape, Phases, Locks
  <2>3. Made'
    BY <1>4 DEF Tell, files, Rest, Shaped, RunShape, Locks, Made
  <2>4. Reads'
    BY <1>4 DEF Tell, files, Rest, Shaped, RunShape, Reads
  <2>5. CallsRun'
    BY <1>4 DEF Tell, files, Rest, Shaped, RunShape, CallShape, CallsRun, IsOpen
  <2> QED
    BY <2>1, <2>2, <2>3, <2>4, <2>5
<1>5. ASSUME NEW p \in Proc, Record(p) PROVE IInv'
  <2>1. Shaped'
    BY <1>5 DEF Record, files, Goes, Shaped, RunShape, CallShape, Phases
  <2>2. Locks'
    BY <1>5 DEF Record, files, Goes, Shaped, RunShape, Phases, Locks
  <2>3. Made'
    BY <1>5 DEF Record, files, Goes, Shaped, RunShape, Locks, Made
  <2>4. Reads'
    BY <1>5 DEF Record, files, Goes, Shaped, RunShape, Reads
  <2>5. CallsRun'
    BY <1>5 DEF Record, files, Goes, Shaped, RunShape, CallShape, CallsRun, IsOpen
  <2> QED
    BY <2>1, <2>2, <2>3, <2>4, <2>5
<1>6. ASSUME NEW p \in Proc, MakeLeaf(p) PROVE IInv'
  <2>1. Shaped'
    BY <1>6 DEF MakeLeaf, files, Goes, Shaped, RunShape, CallShape, Phases
  <2>2. Locks'
    BY <1>6 DEF MakeLeaf, files, Goes, Shaped, RunShape, Phases, Locks
  <2>3. Made'
    BY <1>6 DEF MakeLeaf, files, Goes, Shaped, RunShape, Locks, Made
  <2>4. Reads'
    BY <1>6 DEF MakeLeaf, files, Goes, Shaped, RunShape, Reads
  <2>5. CallsRun'
    BY <1>6 DEF MakeLeaf, files, Goes, Shaped, RunShape, CallShape, CallsRun, IsOpen
  <2> QED
    BY <2>1, <2>2, <2>3, <2>4, <2>5
<1>7. ASSUME NEW p \in Proc, Bind(p) PROVE IInv'
  <2>1. Shaped'
    BY <1>7 DEF Bind, files, Goes, Shaped, RunShape, CallShape, Phases
  <2>2. Locks'
    BY <1>7 DEF Bind, files, Goes, Shaped, RunShape, Phases, Locks
  <2>3. Made'
    <3>1. serveLock = p /\ leaf' = leaf /\ spoiled' = spoiled /\ socket' = p /\ serveLock' = p
      BY <1>7 DEF Bind, Locks
    <3>2. \A q \in Proc \ {p} : At(q) \in {"idle", "home", "lost"} /\ run'[q] = run[q]
      BY <1>7, <3>1 DEF Bind, Goes, Shaped, Locks
    <3>3. run'[p].at = "claimed"
      BY <1>7 DEF Bind, Goes, Shaped, RunShape
    <3>4. \A q \in Proc : q = p \/ run'[q].at \in {"idle", "home", "lost"}
      BY <3>2
    <3>5. leaf
      BY <1>7 DEF Bind, Made
    <3> QED
      BY <1>7, <3>1, <3>3, <3>4, <3>5 DEF Made
  <2>4. Reads'
    BY <1>7 DEF Bind, files, Goes, Shaped, RunShape, Reads
  <2>5. CallsRun'
    BY <1>7 DEF Bind, files, Goes, Shaped, RunShape, CallShape, CallsRun, IsOpen
  <2> QED
    BY <2>1, <2>2, <2>3, <2>4, <2>5
<1>8. ASSUME NEW p \in Proc, GiveUp(p) PROVE IInv'
  <2>1. Shaped'
    BY <1>8 DEF GiveUp, files, Goes, Shaped, RunShape, CallShape, Phases
  <2>2. Locks'
    BY <1>8 DEF GiveUp, files, Goes, Shaped, RunShape, Phases, Locks
  <2>3. Made'
    BY <1>8 DEF GiveUp, files, Goes, Shaped, RunShape, Locks, Made
  <2>4. Reads'
    BY <1>8 DEF GiveUp, files, Goes, Shaped, RunShape, Reads
  <2>5. CallsRun'
    BY <1>8 DEF GiveUp, files, Goes, Shaped, RunShape, CallShape, CallsRun, IsOpen
  <2> QED
    BY <2>1, <2>2, <2>3, <2>4, <2>5
<1>9. ASSUME NEW p \in Proc, Run(p) PROVE IInv'
  <2>1. Shaped'
    <3> DEFINE r == [run[p] EXCEPT !.at = "serving", !.cached = revoked, !.age = 0, !.round = "asking"]
    <3>1. run[p] \in RunShape /\ revoked \subseteq Device /\ 0 \in 0 .. Debounce
      BY DEF Shaped
    <3>2. r \in RunShape
      BY <3>1 DEF RunShape, Phases
    <3>3. run' = [run EXCEPT ![p] = r]
      BY <1>9 DEF Run
    <3> HIDE DEF r
    <3> QED
      BY <1>9, <3>2, <3>3 DEF Run, files, Shaped
  <2>2. Locks'
    BY <1>9 DEF Run, files, Shaped, RunShape, Phases, Locks
  <2>3. Made'
    BY <1>9 DEF Run, files, Shaped, RunShape, Locks, Made
  <2>4. Reads'
    <3>1. run[p] \in RunShape /\ revoked' = revoked
      BY <1>9 DEF Run, Shaped
    <3>2. \A q \in Proc \ {p} : run'[q] = run[q]
      BY <1>9 DEF Run, Shaped
    <3>3. run'[p].heard = run[p].heard /\ run'[p].cached = revoked /\ run'[p].round = "asking"
      BY <1>9, <3>1 DEF Run, Shaped, RunShape
    <3> QED
      BY <3>1, <3>2, <3>3 DEF Reads
  <2>5. CallsRun'
    BY <1>9 DEF Run, files, Shaped, RunShape, CallShape, CallsRun, IsOpen
  <2> QED
    BY <2>1, <2>2, <2>3, <2>4, <2>5
<1>10. ASSUME NEW p \in Proc, RoundEnds(p) PROVE IInv'
  <2>1. Shaped'
    BY <1>10 DEF RoundEnds, files, Shaped, RunShape, CallShape, Phases
  <2>2. Locks'
    BY <1>10 DEF RoundEnds, files, Shaped, RunShape, Phases, Locks
  <2>3. Made'
    BY <1>10 DEF RoundEnds, files, Shaped, RunShape, Locks, Made
  <2>4. Reads'
    BY <1>10 DEF RoundEnds, files, Shaped, RunShape, Reads
  <2>5. CallsRun'
    BY <1>10 DEF RoundEnds, files, Shaped, RunShape, CallShape, CallsRun, IsOpen
  <2> QED
    BY <2>1, <2>2, <2>3, <2>4, <2>5
<1>11. ASSUME NEW p \in Proc, Open(p) PROVE IInv'
  <2>1. Shaped'
    BY <1>11 DEF Open, files, Shaped, RunShape, CallShape, Phases
  <2>2. Locks'
    BY <1>11 DEF Open, files, Shaped, RunShape, Phases, Locks
  <2>3. Made'
    BY <1>11 DEF Open, files, Shaped, RunShape, Locks, Made
  <2>4. Reads'
    BY <1>11 DEF Open, files, Shaped, RunShape, Reads
  <2>5. CallsRun'
    BY <1>11 DEF Open, files, Shaped, RunShape, CallShape, CallsRun, IsOpen
  <2> QED
    BY <2>1, <2>2, <2>3, <2>4, <2>5
<1>12. ASSUME NEW p \in Proc, Expire(p) PROVE IInv'
  <2>1. Shaped'
    <3>1. [run[p] EXCEPT !.cancelled = TRUE, !.expired = TRUE] \in RunShape
      BY FlagShape DEF Shaped
    <3> QED
      BY <1>12, <3>1 DEF Expire, files, Shaped
  <2>2. Locks'
    BY <1>12 DEF Expire, files, Shaped, RunShape, Phases, Locks
  <2>3. Made'
    BY <1>12 DEF Expire, files, Shaped, RunShape, Locks, Made
  <2>4. Reads'
    BY <1>12 DEF Expire, files, Shaped, RunShape, Reads
  <2>5. CallsRun'
    BY <1>12 DEF Expire, files, Shaped, RunShape, CallShape, CallsRun, IsOpen
  <2> QED
    BY <2>1, <2>2, <2>3, <2>4, <2>5
<1>13. ASSUME NEW p \in Proc, Finish(p) PROVE IInv'
  <2>1. Shaped'
    BY <1>13 DEF Finish, files, Gone, Noted, Owed, Silent, Shaped, RunShape, CallShape, Phases
  <2>2. Locks'
    BY <1>13 DEF Finish, files, Gone, Noted, Owed, Silent, Shaped, RunShape, Phases, Locks
  <2>3. Made'
    BY <1>13 DEF Finish, files, Gone, Noted, Owed, Silent, Shaped, RunShape, Locks, Made
  <2>4. Reads'
    BY <1>13 DEF Finish, files, Gone, Noted, Owed, Silent, Shaped, RunShape, Reads
  <2>5. CallsRun'
    BY <1>13 DEF Finish, files, Gone, Noted, Owed, Silent, Shaped, RunShape, CallShape, CallsRun, IsOpen
  <2> QED
    BY <2>1, <2>2, <2>3, <2>4, <2>5
<1>14. ASSUME NEW p \in Proc, Interrupt(p) PROVE IInv'
  <2>1. Shaped'
    <3>1. PICK who \in Caller \cup {"interrupted"} :
             run' = [run EXCEPT ![p].at = "unlinking", ![p].cancelled = TRUE, ![p].source = Noted(p, who)]
      BY <1>14 DEF Interrupt, Owed
    <3> DEFINE r == [run[p] EXCEPT !.at = "unlinking", !.cancelled = TRUE, !.source = Noted(p, who)]
    <3>2. run[p] \in RunShape
      BY DEF Shaped
    <3>3. Noted(p, who) \in Caller \cup {None, "interrupted"}
      BY <3>2 DEF Noted, RunShape
    <3>4. r \in RunShape
      BY <3>2, <3>3 DEF RunShape, Phases
    <3>5. run' = [run EXCEPT ![p] = r]
      BY <3>1
    <3>6. call' \in [Caller -> CallShape]
      BY <1>14 DEF Interrupt, Gone, Silent, Shaped, CallShape
    <3> HIDE DEF r
    <3> QED
      BY <1>14, <3>4, <3>5, <3>6 DEF Interrupt, files, Shaped
  <2>2. Locks'
    BY <1>14 DEF Interrupt, files, Gone, Noted, Owed, Silent, Shaped, RunShape, Phases, Locks
  <2>3. Made'
    BY <1>14 DEF Interrupt, files, Gone, Noted, Owed, Silent, Shaped, RunShape, Locks, Made
  <2>4. Reads'
    BY <1>14 DEF Interrupt, files, Gone, Noted, Owed, Silent, Shaped, RunShape, Reads
  <2>5. CallsRun'
    BY <1>14 DEF Interrupt, files, Gone, Noted, Owed, Silent, Shaped, RunShape, CallShape, CallsRun, IsOpen
  <2> QED
    BY <2>1, <2>2, <2>3, <2>4, <2>5
<1>15. ASSUME NEW p \in Proc, Fail(p) PROVE IInv'
  <2>1. Shaped'
    BY <1>15 DEF Fail, files, Gone, Silent, Goes, Shaped, RunShape, CallShape, Phases
  <2>2. Locks'
    BY <1>15 DEF Fail, files, Gone, Silent, Goes, Shaped, RunShape, Phases, Locks
  <2>3. Made'
    BY <1>15 DEF Fail, files, Gone, Silent, Goes, Shaped, RunShape, Locks, Made
  <2>4. Reads'
    BY <1>15 DEF Fail, files, Gone, Silent, Goes, Shaped, RunShape, Reads
  <2>5. CallsRun'
    BY <1>15 DEF Fail, files, Gone, Silent, Goes, Shaped, RunShape, CallShape, CallsRun, IsOpen
  <2> QED
    BY <2>1, <2>2, <2>3, <2>4, <2>5
<1>16. ASSUME NEW p \in Proc, Unlink(p) PROVE IInv'
  <2>1. Shaped'
    BY <1>16 DEF Unlink, files, Goes, Shaped, RunShape, CallShape, Phases
  <2>2. Locks'
    BY <1>16 DEF Unlink, files, Goes, Shaped, RunShape, Phases, Locks
  <2>3. Made'
    BY <1>16 DEF Unlink, files, Goes, Shaped, RunShape, Locks, Made
  <2>4. Reads'
    BY <1>16 DEF Unlink, files, Goes, Shaped, RunShape, Reads
  <2>5. CallsRun'
    BY <1>16 DEF Unlink, files, Goes, Shaped, RunShape, CallShape, CallsRun, IsOpen
  <2> QED
    BY <2>1, <2>2, <2>3, <2>4, <2>5
<1>17. ASSUME NEW p \in Proc, RemoveLeaf(p) PROVE IInv'
  <2>1. Shaped'
    BY <1>17 DEF RemoveLeaf, files, Goes, Shaped, RunShape, CallShape, Phases
  <2>2. Locks'
    BY <1>17 DEF RemoveLeaf, files, Goes, Shaped, RunShape, Phases, Locks
  <2>3. Made'
    BY <1>17 DEF RemoveLeaf, files, Goes, Shaped, RunShape, Locks, Made
  <2>4. Reads'
    BY <1>17 DEF RemoveLeaf, files, Goes, Shaped, RunShape, Reads
  <2>5. CallsRun'
    BY <1>17 DEF RemoveLeaf, files, Goes, Shaped, RunShape, CallShape, CallsRun, IsOpen
  <2> QED
    BY <2>1, <2>2, <2>3, <2>4, <2>5
<1>18. ASSUME NEW p \in Proc, Empty(p) PROVE IInv'
  <2>1. Shaped'
    BY <1>18 DEF Empty, files, Goes, Shaped, RunShape, CallShape, Phases
  <2>2. Locks'
    BY <1>18 DEF Empty, files, Goes, Shaped, RunShape, Phases, Locks
  <2>3. Made'
    BY <1>18 DEF Empty, files, Goes, Shaped, RunShape, Locks, Made
  <2>4. Reads'
    BY <1>18 DEF Empty, files, Goes, Shaped, RunShape, Reads
  <2>5. CallsRun'
    BY <1>18 DEF Empty, files, Goes, Shaped, RunShape, CallShape, CallsRun, IsOpen
  <2> QED
    BY <2>1, <2>2, <2>3, <2>4, <2>5
<1>19. ASSUME NEW p \in Proc, Unlock(p) PROVE IInv'
  <2>1. Shaped'
    BY <1>19 DEF Unlock, files, Rest, Shaped, RunShape, CallShape, Phases
  <2>2. Locks'
    BY <1>19 DEF Unlock, files, Rest, Shaped, RunShape, Phases, Locks
  <2>3. Made'
    BY <1>19 DEF Unlock, files, Rest, Shaped, RunShape, Locks, Made
  <2>4. Reads'
    BY <1>19 DEF Unlock, files, Rest, Shaped, RunShape, Reads
  <2>5. CallsRun'
    BY <1>19 DEF Unlock, files, Rest, Shaped, RunShape, CallShape, CallsRun, IsOpen
  <2> QED
    BY <2>1, <2>2, <2>3, <2>4, <2>5
<1>20. ASSUME NEW p \in Proc, Die(p) PROVE IInv'
  <2>1. Shaped'
    BY <1>20 DEF Die, files, Rest, Gone, Silent, Shaped, RunShape, CallShape, Phases
  <2>2. Locks'
    BY <1>20 DEF Die, files, Rest, Gone, Silent, Shaped, RunShape, Phases, Locks
  <2>3. Made'
    BY <1>20 DEF Die, files, Rest, Gone, Silent, Shaped, RunShape, Locks, Made
  <2>4. Reads'
    BY <1>20 DEF Die, files, Rest, Gone, Silent, Shaped, RunShape, Reads
  <2>5. CallsRun'
    BY <1>20 DEF Die, files, Rest, Gone, Silent, Shaped, RunShape, CallShape, CallsRun, IsOpen
  <2> QED
    BY <2>1, <2>2, <2>3, <2>4, <2>5
<1>21. ASSUME NEW p \in Proc, NEW d \in Device, HearOf(p, d) PROVE IInv'
  <2>1. Shaped'
    BY <1>21 DEF HearOf, files, Shaped, RunShape, CallShape, Phases
  <2>2. Locks'
    BY <1>21 DEF HearOf, files, Shaped, RunShape, Phases, Locks
  <2>3. Made'
    BY <1>21 DEF HearOf, files, Shaped, RunShape, Locks, Made
  <2>4. Reads'
    BY <1>21 DEF HearOf, files, Shaped, RunShape, Reads
  <2>5. CallsRun'
    BY <1>21 DEF HearOf, files, Shaped, RunShape, CallShape, CallsRun, IsOpen
  <2> QED
    BY <2>1, <2>2, <2>3, <2>4, <2>5
<1>22. ASSUME Tick PROVE IInv'
  <2> DEFINE r(q) == IF At(q) = "serving" THEN Older(run[q]) ELSE run[q]
  <2>1. /\ run' = [q \in Proc |-> r(q)]
        /\ UNCHANGED <<homeLock, serveLock, record, leaf, socket, spoiled, revoked, call>>
    BY <1>22 DEF Tick, files
  <2>2. \A q \in Proc : run[q] \in RunShape
    BY DEF Shaped
  <2>3. \A q \in Proc :
           /\ r(q) \in RunShape
           /\ r(q).at = run[q].at /\ r(q).found = run[q].found /\ r(q).round = run[q].round
           /\ r(q).heard = run[q].heard /\ r(q).cached = run[q].cached
           /\ run[q].age >= Debounce => r(q).age >= Debounce
           /\ run[q].age + run[q].wait >= Debounce => r(q).age + r(q).wait >= Debounce
    BY <2>2, OlderShape
  <2> HIDE DEF r
  <2>4. Shaped'
    BY <2>1, <2>3 DEF Shaped
  <2>5. Locks'
    BY <2>1, <2>3 DEF Locks
  <2>6. Made'
    BY <2>1, <2>3 DEF Made
  <2>7. Reads'
    BY <2>1, <2>3 DEF Reads
  <2>8. CallsRun'
    BY <2>1, <2>3 DEF CallsRun, IsOpen
  <2> QED
    BY <2>4, <2>5, <2>6, <2>7, <2>8
<1>23. ASSUME NEW c \in Caller, NEW p \in Start, Admit(c, p) PROVE IInv'
  <2>1. /\ c \in Device /\ call[c] = Silent /\ At(p) = "serving" /\ p \in Proc
        /\ run' = Asked(p)
        /\ UNCHANGED <<homeLock, serveLock, record, leaf, socket, spoiled, revoked>>
    BY <1>23 DEF Admit, files
  <2> DEFINE admitted == [Silent EXCEPT !.at = "admitted", !.to = p, !.late = IsOpen(p)]
  <2>2. admitted \in CallShape
    BY DEF Silent, CallShape, IsOpen
  <2>3. admitted.to = p /\ (admitted.late => IsOpen(p))
    BY DEF Silent
  <2>4. call' = call \/ (c \notin Refused(p) /\ call' = [call EXCEPT ![c] = admitted])
    BY <1>23 DEF Admit
  <2> HIDE DEF admitted
  <2>5. Shaped'
    BY <2>1, <2>2, <2>4, AskedShape DEF Shaped
  <2>6. Locks'
    BY <2>1, AskedShape DEF Locks
  <2>7. Made'
    BY <2>1, AskedShape DEF Made
  <2>8. Reads'
    BY <2>1, AskedShape DEF Reads
  <2>9. CallsRun'
    <3>1. \A q \in Proc :
             /\ run'[q].at = run[q].at /\ run'[q].round = run[q].round /\ run'[q].heard = run[q].heard
      BY <2>1, AskedShape
    <3>2. IsOpen(p) /\ c \notin Refused(p) => c \notin run[p].heard
      BY <2>1, AskedShape DEF IsOpen
    <3> QED
      BY <2>1, <2>3, <2>4, <3>1, <3>2 DEF CallsRun, IsOpen, Shaped
  <2> QED
    BY <2>5, <2>6, <2>7, <2>8, <2>9
<1>24. ASSUME NEW c \in Caller, Enabled(c) PROVE IInv'
  <2>1. Shaped'
    BY <1>24 DEF Enabled, files, Silent, Shaped, RunShape, CallShape, Phases
  <2>2. Locks'
    BY <1>24 DEF Enabled, files, Silent, Shaped, RunShape, Phases, Locks
  <2>3. Made'
    BY <1>24 DEF Enabled, files, Silent, Shaped, RunShape, Locks, Made
  <2>4. Reads'
    BY <1>24 DEF Enabled, files, Silent, Shaped, RunShape, Reads
  <2>5. CallsRun'
    BY <1>24 DEF Enabled, files, Silent, Shaped, RunShape, CallShape, CallsRun, IsOpen
  <2> QED
    BY <2>1, <2>2, <2>3, <2>4, <2>5
<1>25. ASSUME NEW c \in Caller, Connect(c) PROVE IInv'
  <2>1. Shaped'
    <3>1. ASSUME NEW p \in Start PROVE [Silent EXCEPT !.at = "admitted", !.to = p] \in CallShape
      BY DEF Silent, CallShape
    <3>2. PICK p \in Start : call' = [call EXCEPT ![c] = [Silent EXCEPT !.at = "admitted", !.to = p]]
      BY <1>25 DEF Connect
    <3> DEFINE x == [Silent EXCEPT !.at = "admitted", !.to = p]
    <3>3. x \in CallShape /\ call' = [call EXCEPT ![c] = x]
      BY <3>1, <3>2
    <3> HIDE DEF x
    <3> QED
      BY <1>25, <3>3 DEF Connect, files, Shaped
  <2>2. Locks'
    BY <1>25 DEF Connect, files, Silent, Listens, Shaped, RunShape, Phases, Locks
  <2>3. Made'
    BY <1>25 DEF Connect, files, Silent, Listens, Shaped, RunShape, Locks, Made
  <2>4. Reads'
    BY <1>25 DEF Connect, files, Silent, Listens, Shaped, RunShape, Reads
  <2>5. CallsRun'
    BY <1>25 DEF Connect, files, Silent, Listens, Shaped, RunShape, CallShape, CallsRun, IsOpen
  <2> QED
    BY <2>1, <2>2, <2>3, <2>4, <2>5
<1>26. ASSUME NEW c \in Caller, Attribute(c) PROVE IInv'
  <2>1. Shaped'
    BY <1>26 DEF Attribute, files, Silent, Shaped, RunShape, CallShape, Phases
  <2>2. Locks'
    BY <1>26 DEF Attribute, files, Silent, Shaped, RunShape, Phases, Locks
  <2>3. Made'
    BY <1>26 DEF Attribute, files, Silent, Shaped, RunShape, Locks, Made
  <2>4. Reads'
    BY <1>26 DEF Attribute, files, Silent, Shaped, RunShape, Reads
  <2>5. CallsRun'
    BY <1>26 DEF Attribute, files, Silent, Shaped, RunShape, CallShape, CallsRun, IsOpen
  <2> QED
    BY <2>1, <2>2, <2>3, <2>4, <2>5
<1>27. ASSUME NEW c \in Caller, Ack(c) PROVE IInv'
  <2>1. Shaped'
    BY <1>27 DEF Ack, files, Shaped, RunShape, CallShape, Phases
  <2>2. Locks'
    BY <1>27 DEF Ack, files, Shaped, RunShape, Phases, Locks
  <2>3. Made'
    BY <1>27 DEF Ack, files, Shaped, RunShape, Locks, Made
  <2>4. Reads'
    BY <1>27 DEF Ack, files, Shaped, RunShape, Reads
  <2>5. CallsRun'
    BY <1>27 DEF Ack, files, Shaped, RunShape, CallShape, CallsRun, IsOpen
  <2> QED
    BY <2>1, <2>2, <2>3, <2>4, <2>5
<1>28. ASSUME NEW c \in Caller, Note(c) PROVE IInv'
  <2>1. Shaped'
    <3>1. call[c].to \in Proc /\ [call[c] EXCEPT !.at = "noted"] \in CallShape
      BY <1>28 DEF Note, CallsRun, Shaped, CallShape
    <3>2. [run[call[c].to] EXCEPT !.source = Noted(call[c].to, c)] \in RunShape
      BY <3>1 DEF Noted, Shaped, RunShape
    <3> QED
      BY <1>28, <3>1, <3>2 DEF Note, files, Shaped
  <2>2. Locks'
    BY <1>28 DEF Note, files, Noted, Shaped, RunShape, Phases, Locks
  <2>3. Made'
    BY <1>28 DEF Note, files, Noted, Shaped, RunShape, Locks, Made
  <2>4. Reads'
    <3>1. revoked' = revoked /\ \A p \in Proc :
             /\ run'[p].heard = run[p].heard /\ run'[p].cached = run[p].cached /\ run'[p].at = run[p].at
             /\ run'[p].round = run[p].round /\ run'[p].age = run[p].age /\ run'[p].wait = run[p].wait
      BY <1>28 DEF Note, Shaped, RunShape
    <3> QED
      BY <3>1 DEF Reads
  <2>5. CallsRun'
    BY <1>28 DEF Note, files, Noted, Shaped, RunShape, CallShape, CallsRun, IsOpen
  <2> QED
    BY <2>1, <2>2, <2>3, <2>4, <2>5
<1>29. ASSUME NEW c \in Caller, Cancel(c) PROVE IInv'
  <2>1. Shaped'
    <3>1. call[c].to \in Proc
      BY <1>29 DEF Cancel, CallsRun
    <3>2. [run[call[c].to] EXCEPT !.cancelled = TRUE] \in RunShape
      BY <3>1, FlagShape DEF Shaped
    <3> QED
      BY <1>29, <3>1, <3>2, RestShape DEF Cancel, files, Shaped
  <2>2. Locks'
    BY <1>29 DEF Cancel, files, Silent, Shaped, RunShape, Phases, Locks
  <2>3. Made'
    BY <1>29 DEF Cancel, files, Silent, Shaped, RunShape, Locks, Made
  <2>4. Reads'
    BY <1>29 DEF Cancel, files, Silent, Shaped, RunShape, Reads
  <2>5. CallsRun'
    BY <1>29 DEF Cancel, files, Silent, Shaped, RunShape, CallShape, CallsRun, IsOpen
  <2> QED
    BY <2>1, <2>2, <2>3, <2>4, <2>5
<1>30. ASSUME NEW c \in Caller, CutSession(c) PROVE IInv'
  <2> DEFINE p == call[c].to
             noted == [Asked(p) EXCEPT ![p].source = Noted(p, c)]
  <2>1. /\ c \in Device /\ call[c].at \in {"admitted", "running", "armed"}
        /\ p \in Start /\ p \in Proc /\ At(p) = "serving"
        /\ run' = noted \/ run' = Asked(p)
        /\ call' = [call EXCEPT ![c] = Dropped(c)]
        /\ UNCHANGED <<homeLock, serveLock, record, leaf, socket, spoiled, revoked>>
    BY <1>30 DEF CutSession, CallsRun, files
  <2>2. Dropped(c) \in CallShape /\ (Dropped(c) = Silent \/ (Dropped(c).to = p /\ Dropped(c).late = call[c].late))
    <3>1. call[c] \in CallShape /\ Silent \in CallShape
      BY RestShape DEF Shaped
    <3>2. CASE call[c].at = "armed"
      BY <3>1, <3>2 DEF Dropped, CallShape, p
    <3>3. CASE call[c].at # "armed"
      BY <3>1, <3>3 DEF Dropped
    <3> QED
      BY <3>2, <3>3
  <2>3. Noted(p, c) \in Caller \cup {None, "interrupted"}
    BY <2>1 DEF Noted, Shaped, RunShape
  <2> HIDE DEF p
  <2>4. /\ run' \in [Proc -> RunShape]
        /\ \A q \in Proc :
              /\ run'[q].at = Asked(p)[q].at /\ run'[q].found = Asked(p)[q].found
              /\ run'[q].round = Asked(p)[q].round /\ run'[q].heard = Asked(p)[q].heard
              /\ run'[q].wait = Asked(p)[q].wait /\ run'[q].age = Asked(p)[q].age
              /\ run'[q].cached = Asked(p)[q].cached
    <3>1. /\ Asked(p) \in [Proc -> RunShape] /\ p \in Proc
      BY <2>1, AskedShape
    <3>2. [Asked(p)[p] EXCEPT !.source = Noted(p, c)] \in RunShape
      <4>1. Asked(p)[p] \in RunShape
        BY <3>1
      <4> QED
        BY <4>1, <2>3 DEF RunShape
    <3>3. CASE run' = Asked(p)
      BY <3>1, <3>3
    <3>4. CASE run' = noted
      BY <3>1, <3>2, <3>4 DEF RunShape
    <3> QED
      BY <2>1, <3>3, <3>4
  <2> HIDE DEF noted
  <2>5. Shaped'
    BY <2>1, <2>2, <2>4 DEF Shaped
  <2>6. Locks'
    BY <2>1, <2>4, AskedShape DEF Locks
  <2>7. Made'
    BY <2>1, <2>4, AskedShape DEF Made
  <2>8. Reads'
    BY <2>1, <2>4, AskedShape DEF Reads
  <2>9. CallsRun'
    <3>1. \A q \in Proc : run'[q].at = run[q].at /\ run'[q].round = run[q].round /\ run'[q].heard = run[q].heard
      BY <2>1, <2>4, AskedShape
    <3> QED
      BY <2>1, <2>2, <3>1 DEF CallsRun, IsOpen, Shaped, Silent, p
  <2> QED
    BY <2>5, <2>6, <2>7, <2>8, <2>9
<1>31. CASE UNCHANGED vars
  BY <1>31 DEF vars, Shaped, Locks, Made, Reads, CallsRun, IsOpen
<1> QED
  BY <1>1, <1>2, <1>3, <1>4, <1>5, <1>6, <1>7, <1>8, <1>9, <1>10, <1>11, <1>12, <1>13, <1>14, <1>15, <1>16, <1>17, <1>18, <1>19, <1>20, <1>21, <1>22, <1>23, <1>24, <1>25, <1>26, <1>27, <1>28, <1>29, <1>30, <1>31 DEF Next, Claims, Runs, Closes, Calls

THEOREM Inductive == Spec => []IInv
BY InitInv, StepInv, PTL DEF Spec

-----------------------------------------------------------------------------

\* Every variable holds what it may, and whoever is past the claim and short of the end has serve.lock.
THEOREM TypeCorrect == Spec => []TypeOK
<1>1. IInv => TypeOK
  BY DEF IInv, Shaped, RunShape, Locks, Reads, TypeOK, At
<1> QED
  BY <1>1, Inductive, PTL

\* The rendezvous is its own serve's, and a home nobody serves and where nobody was killed is left as it was; a start
\* that is refused names who has the lock or nobody.
THEOREM OneServes == Spec => []OneServe
<1>1. IInv => Tidy /\ NamesHolder
  BY DEF IInv, Locks, Made, Tidy, NamesHolder, At, Proc
<1> QED
  BY <1>1, TypeCorrect, Inductive, PTL DEF OneServe

\* A device the first round revoked stops nothing on a call it makes once control.stop is open.
THEOREM StopIsHeld == Spec => []StopHeld
<1>1. IInv => StopHeld
  BY DEF IInv, CallsRun, StopHeld, Caller
<1> QED
  BY <1>1, Inductive, PTL

-----------------------------------------------------------------------------
(* Why a run ends                                                          *)

\* Where a process is before it serves.
Coming == {"idle", "home", "lost", "taken", "recorded", "leaf", "claimed"}

\* A run that was cancelled knows who asked, or was cancelled by its deadline; a call that is about to cancel one has
\* said so; and none is cancelled before it serves.
Why ==
    /\ \A p \in Proc : At(p) \in Coming => ~run[p].cancelled
    /\ \A p \in Start : At(p) = "serving" /\ run[p].cancelled => run[p].source # None \/ run[p].expired
    /\ \A c \in Caller : call[c].at = "noted" => run[call[c].to].source # None

\* Once acked, a stop stays owed until the node stops: no step takes back the source noted, nor the cancel.
Owes ==
    \A c \in Caller, p \in Start :
        call[c].to = p /\ call[c].at \in {"armed", "noted"} =>
            \/ call'[c].to = p /\ call'[c].at \in {"armed", "noted"}
            \/ At(p)' # "serving"
            \/ run'[p].cancelled

\* What a step leaves of the flags of a process and of the calls that owe a stop.
Lasts ==
    /\ \A p \in Start : At(p)' = "serving" /\ At(p) = "serving" =>
          /\ run[p].cancelled => run'[p].cancelled
          /\ run[p].source # None => run'[p].source # None
    /\ \A p \in Start : At(p) = "serving" /\ run'[p].at = "unlinking" /\ run[p].cancelled =>
          run'[p].source # None \/ run[p].expired

\* A step that leaves every flag, and every call that owes a stop, as it is.
LEMMA QuietWhy ==
    ASSUME IInv, Why,
           \A p \in Proc : run'[p].cancelled = run[p].cancelled /\ run'[p].source = run[p].source
                           /\ run'[p].expired = run[p].expired /\ run'[p].at = run[p].at,
           \A c \in Caller : call'[c] = call[c]
                             \/ (call[c].at \notin {"armed", "noted"} /\ call'[c].at # "noted")
    PROVE  Why' /\ Owes /\ Lasts
<1> USE DEF At, Proc
<1>1. \A c \in Caller : call[c].at = "noted" => call[c].to \in Proc
  BY DEF IInv, CallsRun
<1>2. Why'
  BY <1>1 DEF Why
<1>3. Owes
  BY DEF Owes
<1>4. Lasts
  BY DEF Lasts
<1> QED
  BY <1>2, <1>3, <1>4

\* A step of a process that is not one that serves, before it or after.
LEMMA AwayWhy ==
    ASSUME IInv, Why, NEW p \in Proc, At(p) # "serving", NEW r, r.at # "serving", r.at \in Coming => ~r.cancelled,
           run' = [run EXCEPT ![p] = r], UNCHANGED call
    PROVE  Why' /\ Owes /\ Lasts
<1> USE DEF At, Proc
<1>1. \A q \in Proc \ {p} : run'[q] = run[q]
  BY DEF IInv, Shaped
<1>2. run'[p] = r
  BY DEF IInv, Shaped
<1>3. \A c \in Caller : call[c].at # "none" => call[c].to \in Proc \ {p}
  BY DEF IInv, CallsRun
<1>4. Why'
  BY <1>1, <1>2, <1>3 DEF Why
<1>5. Owes
  BY <1>1, <1>2, <1>3 DEF Owes
<1>6. Lasts
  BY <1>1, <1>2, <1>3 DEF Lasts
<1> QED
  BY <1>4, <1>5, <1>6

\* A process that stops serving, or dies, takes its calls with it.
LEMMA GoneWhy ==
    ASSUME IInv, Why, NEW p \in Proc, NEW r, r.at # "serving", r.at \in Coming => ~r.cancelled,
           run' = [run EXCEPT ![p] = r], call' = Gone(p),
           r.at = "unlinking" /\ At(p) = "serving" /\ run[p].cancelled => r.source # None \/ run[p].expired
    PROVE  Why' /\ Owes /\ Lasts
<1> USE DEF At, Proc
<1>1. \A q \in Proc \ {p} : run'[q] = run[q]
  BY DEF IInv, Shaped
<1>2. run'[p] = r
  BY DEF IInv, Shaped
<1>3. /\ \A c \in Caller : call[c].at # "none" => call[c].to \in Proc
      /\ \A c \in Caller : call[c].to # p => call'[c] = call[c]
      /\ \A c \in Caller : call[c].to = p => call'[c].at = "none"
  BY DEF IInv, CallsRun, Gone, Silent
<1>4. Why'
  BY <1>1, <1>2, <1>3 DEF Why
<1>5. Owes
  BY <1>1, <1>2, <1>3 DEF Owes
<1>6. Lasts
  BY <1>1, <1>2, <1>3 DEF Lasts
<1> QED
  BY <1>4, <1>5, <1>6

\* A step of one serve that begins to serve or goes on, and of one call to it at most.
LEMMA ServesWhy ==
    ASSUME IInv, Why, NEW p \in Start, At(p) \in {"claimed", "serving"}, NEW r, r.at = "serving",
           run' = [run EXCEPT ![p] = r],
           run[p].cancelled => r.cancelled, run[p].source # None => r.source # None,
           r.cancelled => r.source # None \/ r.expired,
           \A c \in Caller : call'[c] = call[c]
              \/ (call[c].at \notin {"armed", "noted"} /\ call'[c].at # "noted")
              \/ (call[c].to = p /\ r.cancelled /\ call'[c].at # "noted")
              \/ (call[c].to = p /\ call'[c].to = p /\ call'[c].at = "noted" /\ r.source # None)
    PROVE  Why' /\ Owes /\ Lasts
<1> USE DEF At, Proc
<1>1. \A q \in Proc \ {p} : run'[q] = run[q]
  BY DEF IInv, Shaped
<1>2. run'[p] = r
  BY DEF IInv, Shaped
<1>3. \A c \in Caller : call[c].at # "none" => call[c].to \in Proc
  BY DEF IInv, CallsRun
<1>4. Why'
  <2>1. \A q \in Proc : run'[q].at \in Coming => ~run'[q].cancelled
    BY <1>1, <1>2 DEF Why, Coming
  <2>2. \A q \in Start : run'[q].at = "serving" /\ run'[q].cancelled => run'[q].source # None \/ run'[q].expired
    BY <1>1, <1>2 DEF Why
  <2>3. ASSUME NEW c \in Caller, call'[c].at = "noted" PROVE run'[call'[c].to].source # None
    BY <1>1, <1>2, <1>3, <2>3 DEF Why
  <2> QED
    BY <2>1, <2>2, <2>3 DEF Why
<1>5. Owes
  BY <1>1, <1>2, <1>3 DEF Owes
<1>6. Lasts
  BY <1>1, <1>2, <1>3 DEF Lasts
<1> QED
  BY <1>4, <1>5, <1>6

\* Every step keeps what is known of why, the stop that is owed, and what was noted.
LEMMA StepWhy == IInv /\ Why /\ [Next]_vars => Why' /\ Owes /\ Lasts
<1> SUFFICES ASSUME IInv, Why, [Next]_vars PROVE Why' /\ Owes /\ Lasts
  OBVIOUS
<1> USE ServeAssumption DEF IInv, At, Proc, Caller
<1>1. ASSUME NEW p \in Proc, TakeHome(p) PROVE Why' /\ Owes /\ Lasts
  <2> DEFINE r == [run[p] EXCEPT !.at = "home"]
  <2>1. run' = [run EXCEPT ![p] = r] /\ UNCHANGED call
    BY <1>1 DEF TakeHome, Goes
  <2>2. At(p) # "serving" /\ r.at # "serving" /\ (r.at \in Coming => ~r.cancelled)
    BY <1>1 DEF TakeHome, Rest, Why, Coming, Shaped, RunShape
  <2> HIDE DEF r
  <2> QED
    BY <2>1, <2>2, AwayWhy
<1>2. ASSUME NEW p \in Proc, TakeServe(p) PROVE Why' /\ Owes /\ Lasts
  <2> DEFINE r == [run[p] EXCEPT !.at = "taken"]
  <2>1. run' = [run EXCEPT ![p] = r] /\ UNCHANGED call
    BY <1>2 DEF TakeServe, Goes
  <2>2. At(p) # "serving" /\ r.at # "serving" /\ (r.at \in Coming => ~r.cancelled)
    BY <1>2 DEF TakeServe, Rest, Why, Coming, Shaped, RunShape
  <2> HIDE DEF r
  <2> QED
    BY <2>1, <2>2, AwayWhy
<1>3. ASSUME NEW p \in Proc, Lose(p) PROVE Why' /\ Owes /\ Lasts
  <2> DEFINE r == IF p \in Start THEN [run[p] EXCEPT !.at = "lost", !.found = serveLock] ELSE Rest
  <2>1. run' = [run EXCEPT ![p] = r] /\ UNCHANGED call
    BY <1>3 DEF Lose
  <2>2. At(p) # "serving" /\ r.at # "serving" /\ (r.at \in Coming => ~r.cancelled)
    BY <1>3 DEF Lose, Rest, Why, Coming, Shaped, RunShape
  <2> HIDE DEF r
  <2> QED
    BY <2>1, <2>2, AwayWhy
<1>4. ASSUME NEW p \in Proc, Tell(p) PROVE Why' /\ Owes /\ Lasts
  <2> DEFINE r == Rest
  <2>1. run' = [run EXCEPT ![p] = r] /\ UNCHANGED call
    BY <1>4 DEF Tell
  <2>2. At(p) # "serving" /\ r.at # "serving" /\ (r.at \in Coming => ~r.cancelled)
    BY <1>4 DEF Tell, Rest, Why, Coming, Shaped, RunShape
  <2> HIDE DEF r
  <2> QED
    BY <2>1, <2>2, AwayWhy
<1>5. ASSUME NEW p \in Proc, Record(p) PROVE Why' /\ Owes /\ Lasts
  <2> DEFINE r == [run[p] EXCEPT !.at = IF p \in Start THEN "recorded" ELSE "emptying"]
  <2>1. run' = [run EXCEPT ![p] = r] /\ UNCHANGED call
    BY <1>5 DEF Record, Goes
  <2>2. At(p) # "serving" /\ r.at # "serving" /\ (r.at \in Coming => ~r.cancelled)
    BY <1>5 DEF Record, Rest, Why, Coming, Shaped, RunShape
  <2> HIDE DEF r
  <2> QED
    BY <2>1, <2>2, AwayWhy
<1>6. ASSUME NEW p \in Proc, MakeLeaf(p) PROVE Why' /\ Owes /\ Lasts
  <2> DEFINE r == [run[p] EXCEPT !.at = "leaf"]
  <2>1. run' = [run EXCEPT ![p] = r] /\ UNCHANGED call
    BY <1>6 DEF MakeLeaf, Goes
  <2>2. At(p) # "serving" /\ r.at # "serving" /\ (r.at \in Coming => ~r.cancelled)
    BY <1>6 DEF MakeLeaf, Rest, Why, Coming, Shaped, RunShape
  <2> HIDE DEF r
  <2> QED
    BY <2>1, <2>2, AwayWhy
<1>7. ASSUME NEW p \in Proc, Bind(p) PROVE Why' /\ Owes /\ Lasts
  <2> DEFINE r == [run[p] EXCEPT !.at = "claimed"]
  <2>1. run' = [run EXCEPT ![p] = r] /\ UNCHANGED call
    BY <1>7 DEF Bind, Goes
  <2>2. At(p) # "serving" /\ r.at # "serving" /\ (r.at \in Coming => ~r.cancelled)
    BY <1>7 DEF Bind, Rest, Why, Coming, Shaped, RunShape
  <2> HIDE DEF r
  <2> QED
    BY <2>1, <2>2, AwayWhy
<1>8. ASSUME NEW p \in Proc, GiveUp(p) PROVE Why' /\ Owes /\ Lasts
  <2> DEFINE r == [run[p] EXCEPT !.at = "emptying"]
  <2>1. run' = [run EXCEPT ![p] = r] /\ UNCHANGED call
    BY <1>8 DEF GiveUp, Goes
  <2>2. At(p) # "serving" /\ r.at # "serving" /\ (r.at \in Coming => ~r.cancelled)
    BY <1>8 DEF GiveUp, Rest, Why, Coming, Shaped, RunShape
  <2> HIDE DEF r
  <2> QED
    BY <2>1, <2>2, AwayWhy
<1>9. ASSUME NEW p \in Proc, Unlink(p) PROVE Why' /\ Owes /\ Lasts
  <2> DEFINE r == [run[p] EXCEPT !.at = "removing"]
  <2>1. run' = [run EXCEPT ![p] = r] /\ UNCHANGED call
    BY <1>9 DEF Unlink, Goes
  <2>2. At(p) # "serving" /\ r.at # "serving" /\ (r.at \in Coming => ~r.cancelled)
    BY <1>9 DEF Unlink, Rest, Why, Coming, Shaped, RunShape
  <2> HIDE DEF r
  <2> QED
    BY <2>1, <2>2, AwayWhy
<1>10. ASSUME NEW p \in Proc, RemoveLeaf(p) PROVE Why' /\ Owes /\ Lasts
  <2> DEFINE r == [run[p] EXCEPT !.at = "emptying"]
  <2>1. run' = [run EXCEPT ![p] = r] /\ UNCHANGED call
    BY <1>10 DEF RemoveLeaf, Goes
  <2>2. At(p) # "serving" /\ r.at # "serving" /\ (r.at \in Coming => ~r.cancelled)
    BY <1>10 DEF RemoveLeaf, Rest, Why, Coming, Shaped, RunShape
  <2> HIDE DEF r
  <2> QED
    BY <2>1, <2>2, AwayWhy
<1>11. ASSUME NEW p \in Proc, Empty(p) PROVE Why' /\ Owes /\ Lasts
  <2> DEFINE r == [run[p] EXCEPT !.at = "unlocking"]
  <2>1. run' = [run EXCEPT ![p] = r] /\ UNCHANGED call
    BY <1>11 DEF Empty, Goes
  <2>2. At(p) # "serving" /\ r.at # "serving" /\ (r.at \in Coming => ~r.cancelled)
    BY <1>11 DEF Empty, Rest, Why, Coming, Shaped, RunShape
  <2> HIDE DEF r
  <2> QED
    BY <2>1, <2>2, AwayWhy
<1>12. ASSUME NEW p \in Proc, Unlock(p) PROVE Why' /\ Owes /\ Lasts
  <2> DEFINE r == Rest
  <2>1. run' = [run EXCEPT ![p] = r] /\ UNCHANGED call
    BY <1>12 DEF Unlock
  <2>2. At(p) # "serving" /\ r.at # "serving" /\ (r.at \in Coming => ~r.cancelled)
    BY <1>12 DEF Unlock, Rest, Why, Coming, Shaped, RunShape
  <2> HIDE DEF r
  <2> QED
    BY <2>1, <2>2, AwayWhy
<1>13. ASSUME NEW p \in Proc, Run(p) PROVE Why' /\ Owes /\ Lasts
  <2> PICK r : run' = [run EXCEPT ![p] = r] /\ r.at = "serving"
               /\ (run[p].cancelled => r.cancelled) /\ (run[p].source # None => r.source # None)
               /\ (r.cancelled => (run[p].cancelled /\ r.source = run[p].source /\ r.expired = run[p].expired) \/ r.expired)
    <3> DEFINE r == [run[p] EXCEPT !.at = "serving", !.cached = revoked, !.age = 0, !.round = "asking"]
    <3>1. run' = [run EXCEPT ![p] = r]
      BY <1>13 DEF Run
    <3>2. r.at = "serving" /\ (run[p].cancelled => r.cancelled) /\ (run[p].source # None => r.source # None)
          /\ (r.cancelled => (run[p].cancelled /\ r.source = run[p].source /\ r.expired = run[p].expired) \/ r.expired)
      BY <1>13 DEF Run, Shaped, RunShape
    <3> HIDE DEF r
    <3> QED
      BY <3>1, <3>2
  <2>1. p \in Start /\ At(p) \in {"claimed", "serving"} /\ UNCHANGED call
    BY <1>13 DEF Run, Locks
  <2>2. r.cancelled => r.source # None \/ r.expired
    BY <1>13, <2>1 DEF Run, Why, Coming
  <2> QED
    BY <2>1, <2>2, ServesWhy
<1>14. ASSUME NEW p \in Proc, NEW d \in Device, HearOf(p, d) PROVE Why' /\ Owes /\ Lasts
  <2> PICK r : run' = [run EXCEPT ![p] = r] /\ r.at = "serving"
               /\ (run[p].cancelled => r.cancelled) /\ (run[p].source # None => r.source # None)
               /\ (r.cancelled => (run[p].cancelled /\ r.source = run[p].source /\ r.expired = run[p].expired) \/ r.expired)
    <3> DEFINE r == [run[p] EXCEPT !.heard = IF run[p].round = "asking" THEN @ \cup {d} ELSE @]
    <3>1. run' = [run EXCEPT ![p] = r]
      BY <1>14 DEF HearOf
    <3>2. r.at = "serving" /\ (run[p].cancelled => r.cancelled) /\ (run[p].source # None => r.source # None)
          /\ (r.cancelled => (run[p].cancelled /\ r.source = run[p].source /\ r.expired = run[p].expired) \/ r.expired)
      BY <1>14 DEF HearOf, Shaped, RunShape
    <3> HIDE DEF r
    <3> QED
      BY <3>1, <3>2
  <2>1. p \in Start /\ At(p) \in {"claimed", "serving"} /\ UNCHANGED call
    BY <1>14 DEF HearOf, Locks
  <2>2. r.cancelled => r.source # None \/ r.expired
    BY <1>14, <2>1 DEF HearOf, Why, Coming
  <2> QED
    BY <2>1, <2>2, ServesWhy
<1>15. ASSUME NEW p \in Proc, Open(p) PROVE Why' /\ Owes /\ Lasts
  <2> PICK r : run' = [run EXCEPT ![p] = r] /\ r.at = "serving"
               /\ (run[p].cancelled => r.cancelled) /\ (run[p].source # None => r.source # None)
               /\ (r.cancelled => (run[p].cancelled /\ r.source = run[p].source /\ r.expired = run[p].expired) \/ r.expired)
    <3> DEFINE r == [run[p] EXCEPT !.round = "over"]
    <3>1. run' = [run EXCEPT ![p] = r]
      BY <1>15 DEF Open
    <3>2. r.at = "serving" /\ (run[p].cancelled => r.cancelled) /\ (run[p].source # None => r.source # None)
          /\ (r.cancelled => (run[p].cancelled /\ r.source = run[p].source /\ r.expired = run[p].expired) \/ r.expired)
      BY <1>15 DEF Open, Shaped, RunShape
    <3> HIDE DEF r
    <3> QED
      BY <3>1, <3>2
  <2>1. p \in Start /\ At(p) \in {"claimed", "serving"} /\ UNCHANGED call
    BY <1>15 DEF Open, Locks
  <2>2. r.cancelled => r.source # None \/ r.expired
    BY <1>15, <2>1 DEF Open, Why, Coming
  <2> QED
    BY <2>1, <2>2, ServesWhy
<1>16. ASSUME NEW p \in Proc, Expire(p) PROVE Why' /\ Owes /\ Lasts
  <2> PICK r : run' = [run EXCEPT ![p] = r] /\ r.at = "serving"
               /\ (run[p].cancelled => r.cancelled) /\ (run[p].source # None => r.source # None)
               /\ (r.cancelled => (run[p].cancelled /\ r.source = run[p].source /\ r.expired = run[p].expired) \/ r.expired)
    <3> DEFINE r == [run[p] EXCEPT !.cancelled = TRUE, !.expired = TRUE]
    <3>1. run' = [run EXCEPT ![p] = r]
      BY <1>16 DEF Expire
    <3>2. r.at = "serving" /\ (run[p].cancelled => r.cancelled) /\ (run[p].source # None => r.source # None)
          /\ (r.cancelled => (run[p].cancelled /\ r.source = run[p].source /\ r.expired = run[p].expired) \/ r.expired)
      BY <1>16 DEF Expire, Shaped, RunShape
    <3> HIDE DEF r
    <3> QED
      BY <3>1, <3>2
  <2>1. p \in Start /\ At(p) \in {"claimed", "serving"} /\ UNCHANGED call
    BY <1>16 DEF Expire, Locks
  <2>2. r.cancelled => r.source # None \/ r.expired
    BY <1>16, <2>1 DEF Expire, Why, Coming
  <2> QED
    BY <2>1, <2>2, ServesWhy
<1>17. ASSUME NEW p \in Proc, RoundEnds(p) PROVE Why' /\ Owes /\ Lasts
  <2>1. \A q \in Proc : run'[q].cancelled = run[q].cancelled /\ run'[q].source = run[q].source
                         /\ run'[q].expired = run[q].expired /\ run'[q].at = run[q].at
    BY <1>17 DEF RoundEnds, Shaped, RunShape
  <2>2. UNCHANGED call
    BY <1>17 DEF RoundEnds
  <2> QED
    BY <2>1, <2>2, QuietWhy
<1>18. CASE Tick
  <2>1. \A q \in Proc : run'[q].cancelled = run[q].cancelled /\ run'[q].source = run[q].source
                         /\ run'[q].expired = run[q].expired /\ run'[q].at = run[q].at
    <3>1. \A r \in RunShape : Older(r).cancelled = r.cancelled /\ Older(r).source = r.source
                              /\ Older(r).expired = r.expired /\ Older(r).at = r.at
      BY DEF Older, RunShape
    <3>2. \A q \in Proc : run'[q] \in {run[q], Older(run[q])} /\ run[q] \in RunShape
      BY <1>18 DEF Tick, Shaped
    <3> QED
      BY <3>1, <3>2
  <2>2. UNCHANGED call
    BY <1>18 DEF Tick
  <2> QED
    BY <2>1, <2>2, QuietWhy
<1>19. ASSUME NEW c \in Caller, NEW p \in Start, Admit(c, p) PROVE Why' /\ Owes /\ Lasts
  <2>1. \A q \in Proc : run'[q].cancelled = run[q].cancelled /\ run'[q].source = run[q].source
                         /\ run'[q].expired = run[q].expired /\ run'[q].at = run[q].at
    BY <1>19 DEF Admit, Asked, Shaped, RunShape
  <2>2. \A x \in Caller : call'[x] = call[x]
                           \/ (call[x].at \notin {"armed", "noted"} /\ call'[x].at # "noted")
    BY <1>19 DEF Admit, Silent, Shaped
  <2> QED
    BY <2>1, <2>2, QuietWhy
<1>20. ASSUME NEW c \in Caller, Enabled(c) PROVE Why' /\ Owes /\ Lasts
  <2>1. UNCHANGED run
    BY <1>20 DEF Enabled
  <2>2. \A x \in Caller : call'[x] = call[x]
                           \/ (call[x].at \notin {"armed", "noted"} /\ call'[x].at # "noted")
    BY <1>20 DEF Enabled, Silent, Shaped, CallShape
  <2> QED
    BY <2>1, <2>2, QuietWhy
<1>21. ASSUME NEW c \in Caller, Connect(c) PROVE Why' /\ Owes /\ Lasts
  <2>1. UNCHANGED run
    BY <1>21 DEF Connect
  <2>2. \A x \in Caller : call'[x] = call[x]
                           \/ (call[x].at \notin {"armed", "noted"} /\ call'[x].at # "noted")
    BY <1>21 DEF Connect, Silent, Shaped, CallShape
  <2> QED
    BY <2>1, <2>2, QuietWhy
<1>22. ASSUME NEW c \in Caller, Attribute(c) PROVE Why' /\ Owes /\ Lasts
  <2>1. UNCHANGED run
    BY <1>22 DEF Attribute
  <2>2. \A x \in Caller : call'[x] = call[x]
                           \/ (call[x].at \notin {"armed", "noted"} /\ call'[x].at # "noted")
    BY <1>22 DEF Attribute, Silent, Shaped, CallShape
  <2> QED
    BY <2>1, <2>2, QuietWhy
<1>23. ASSUME NEW c \in Caller, Ack(c) PROVE Why' /\ Owes /\ Lasts
  <2>1. UNCHANGED run
    BY <1>23 DEF Ack
  <2>2. \A x \in Caller : call'[x] = call[x]
                           \/ (call[x].at \notin {"armed", "noted"} /\ call'[x].at # "noted")
    BY <1>23 DEF Ack, Silent, Shaped, CallShape
  <2> QED
    BY <2>1, <2>2, QuietWhy
<1>24. ASSUME NEW c \in Caller, Note(c) PROVE Why' /\ Owes /\ Lasts
  <2> DEFINE p == call[c].to
             r == [run[p] EXCEPT !.source = Noted(p, c)]
  <2>1. p \in Start /\ p \in Proc /\ At(p) = "serving" /\ run' = [run EXCEPT ![p] = r]
    BY <1>24 DEF Note, CallsRun
  <2>2. r.at = "serving" /\ r.cancelled = run[p].cancelled /\ r.source # None /\ r.expired = run[p].expired
    BY <1>24, <2>1 DEF Note, Noted, Shaped, RunShape
  <2>3. /\ \A x \in Caller \ {c} : call'[x] = call[x]
        /\ call'[c].to = p /\ call'[c].at = "noted"
    BY <1>24 DEF Note, Shaped, CallShape
  <2> HIDE DEF p, r
  <2>4. call[c].to = p
    BY DEF p
  <2>5. \A x \in Caller : call'[x] = call[x]
           \/ (call[x].at \notin {"armed", "noted"} /\ call'[x].at # "noted")
           \/ (call[x].to = p /\ r.cancelled /\ call'[x].at # "noted")
           \/ (call[x].to = p /\ call'[x].to = p /\ call'[x].at = "noted" /\ r.source # None)
    BY <2>2, <2>3, <2>4
  <2>6. /\ run[p].cancelled => r.cancelled
        /\ run[p].source # None => r.source # None
        /\ r.cancelled => r.source # None \/ r.expired
    BY <2>2
  <2> QED
    BY <2>1, <2>2, <2>5, <2>6, ServesWhy
<1>25. ASSUME NEW c \in Caller, Cancel(c) PROVE Why' /\ Owes /\ Lasts
  <2> DEFINE p == call[c].to
             r == [run[p] EXCEPT !.cancelled = TRUE]
  <2>1. p \in Start /\ p \in Proc /\ At(p) = "serving" /\ run' = [run EXCEPT ![p] = r]
    BY <1>25 DEF Cancel, CallsRun
  <2>2. r.at = "serving" /\ r.cancelled /\ r.source = run[p].source /\ r.source # None
    BY <1>25, <2>1 DEF Cancel, Why, Shaped, RunShape
  <2>3. /\ \A x \in Caller \ {c} : call'[x] = call[x]
        /\ call'[c].at # "noted"
    BY <1>25 DEF Cancel, Shaped, Silent
  <2> HIDE DEF p, r
  <2>4. call[c].to = p
    BY DEF p
  <2>5. \A x \in Caller : call'[x] = call[x]
           \/ (call[x].at \notin {"armed", "noted"} /\ call'[x].at # "noted")
           \/ (call[x].to = p /\ r.cancelled /\ call'[x].at # "noted")
           \/ (call[x].to = p /\ call'[x].to = p /\ call'[x].at = "noted" /\ r.source # None)
    BY <2>2, <2>3, <2>4
  <2>6. /\ run[p].cancelled => r.cancelled
        /\ run[p].source # None => r.source # None
        /\ r.cancelled => r.source # None \/ r.expired
    BY <2>2
  <2> HIDE DEF IInv, At, Proc, Caller
  <2> QED
    BY <2>1, <2>2, <2>5, <2>6, ServesWhy
<1>26. ASSUME NEW c \in Caller, CutSession(c) PROVE Why' /\ Owes /\ Lasts
  <2> DEFINE p == call[c].to
             r == IF DropNotes(c) THEN [Asked(p)[p] EXCEPT !.source = Noted(p, c)] ELSE Asked(p)[p]
  <2>1. p \in Start /\ p \in Proc /\ At(p) = "serving"
    BY <1>26 DEF CutSession, CallsRun
  <2>2. Asked(p) \in [Proc -> RunShape] /\ \A q \in Proc \ {p} : Asked(p)[q] = run[q]
    BY <2>1, AskedShape
  <2>3. Asked(p)[p].at = run[p].at /\ Asked(p)[p].source = run[p].source
        /\ Asked(p)[p].cancelled = run[p].cancelled /\ Asked(p)[p].expired = run[p].expired
    BY <2>1 DEF Asked, Shaped, RunShape
  <2>4. run' = [run EXCEPT ![p] = r]
    <3>1. run' = [Asked(p) EXCEPT ![p] = r]
      BY <1>26, <2>1, <2>2 DEF CutSession
    <3> QED
      BY <3>1, <2>1, <2>2 DEF Shaped
  <2>5. r.at = "serving" /\ r.cancelled = run[p].cancelled /\ r.expired = run[p].expired
        /\ (run[p].source # None => r.source # None) /\ (DropNotes(c) => r.source # None)
    BY <2>1, <2>2, <2>3 DEF Noted, RunShape
  <2>6. r.cancelled => r.source # None \/ r.expired
    BY <2>1, <2>5, <2>3 DEF Why, DropNotes
  <2>7. /\ \A x \in Caller \ {c} : call'[x] = call[x]
        /\ \/ call[c].at \notin {"armed", "noted"} /\ call'[c].at # "noted"
           \/ call'[c].to = p /\ call'[c].at = "noted" /\ r.source # None
    <3>1. call' = [call EXCEPT ![c] = Dropped(c)] /\ call[c].at \in {"admitted", "running", "armed"}
      BY <1>26 DEF CutSession
    <3>2. CASE call[c].at = "armed"
      BY <3>1, <3>2, <2>5 DEF Dropped, DropNotes, Shaped, CallShape
    <3>3. CASE call[c].at # "armed"
      BY <3>1, <3>3 DEF Dropped, Silent, Shaped
    <3> QED
      BY <3>2, <3>3
  <2> HIDE DEF p, r
  <2>8. call[c].to = p
    BY DEF p
  <2>9. \A x \in Caller : call'[x] = call[x]
           \/ (call[x].at \notin {"armed", "noted"} /\ call'[x].at # "noted")
           \/ (call[x].to = p /\ r.cancelled /\ call'[x].at # "noted")
           \/ (call[x].to = p /\ call'[x].to = p /\ call'[x].at = "noted" /\ r.source # None)
    BY <2>7, <2>8
  <2>10. /\ run[p].cancelled => r.cancelled
         /\ run[p].source # None => r.source # None
    BY <2>5
  <2> QED
    BY <2>1, <2>4, <2>5, <2>6, <2>9, <2>10, ServesWhy
<1>27. ASSUME NEW p \in Proc, Finish(p) PROVE Why' /\ Owes /\ Lasts
  <2> PICK who \in Owed(p) \cup {None} : run' = [run EXCEPT ![p] = [run[p] EXCEPT !.at = "unlinking", !.source = Noted(p, who)]]
    BY <1>27 DEF Finish
  <2> DEFINE r == [run[p] EXCEPT !.at = "unlinking", !.source = Noted(p, who)]
  <2>1. r.at = "unlinking" /\ (run[p].source # None \/ who # None => r.source # None)
    BY DEF Noted, Shaped, RunShape
  <2>2. p \in Start /\ At(p) = "serving" /\ call' = Gone(p)
    BY <1>27 DEF Finish, Locks
  <2>3. run[p].cancelled => r.source # None \/ run[p].expired
    BY <2>1, <2>2 DEF Why
  <2> HIDE DEF r
  <2>4. r.at # "serving" /\ r.at \notin Coming
    BY <2>1 DEF Coming
  <2>5. run' = [run EXCEPT ![p] = r]
    BY DEF r
  <2> QED
    BY <2>2, <2>3, <2>4, <2>5, GoneWhy
<1>28. ASSUME NEW p \in Proc, Interrupt(p) PROVE Why' /\ Owes /\ Lasts
  <2> PICK who \in Owed(p) \cup {"interrupted"} : run' = [run EXCEPT ![p] = [run[p] EXCEPT !.at = "unlinking", !.cancelled = TRUE, !.source = Noted(p, who)]]
    BY <1>28 DEF Interrupt
  <2> DEFINE r == [run[p] EXCEPT !.at = "unlinking", !.cancelled = TRUE, !.source = Noted(p, who)]
  <2>1. r.at = "unlinking" /\ (run[p].source # None \/ who # None => r.source # None)
    BY DEF Noted, Shaped, RunShape
  <2>2. p \in Start /\ At(p) = "serving" /\ call' = Gone(p)
    BY <1>28 DEF Interrupt, Locks
  <2>3. run[p].cancelled => r.source # None \/ run[p].expired
    BY <2>1, <2>2 DEF Why
  <2> HIDE DEF r
  <2>4. r.at # "serving" /\ r.at \notin Coming
    BY <2>1 DEF Coming
  <2>5. run' = [run EXCEPT ![p] = r]
    BY DEF r
  <2> QED
    BY <2>2, <2>3, <2>4, <2>5, GoneWhy
<1>29. ASSUME NEW p \in Proc, Fail(p) PROVE Why' /\ Owes /\ Lasts
  <2> DEFINE r == [run[p] EXCEPT !.at = "unlinking"]
  <2>1. r.at = "unlinking" /\ r.source = run[p].source
    BY DEF Shaped, RunShape
  <2>2. p \in Start /\ call' = Gone(p) /\ run' = [run EXCEPT ![p] = r]
    BY <1>29 DEF Fail, Goes, Locks
  <2>3. At(p) = "serving" /\ run[p].cancelled => r.source # None \/ run[p].expired
    BY <2>1, <2>2 DEF Why
  <2> HIDE DEF r
  <2>4. r.at # "serving" /\ r.at \notin Coming
    BY <2>1 DEF Coming
  <2> QED
    BY <2>2, <2>3, <2>4, GoneWhy
<1>30. ASSUME NEW p \in Proc, Die(p) PROVE Why' /\ Owes /\ Lasts
  <2>1. run' = [run EXCEPT ![p] = Rest] /\ call' = Gone(p)
    BY <1>30 DEF Die
  <2>2. Rest.at = "idle" /\ ~Rest.cancelled
    BY DEF Rest
  <2> QED
    BY <2>1, <2>2, GoneWhy
<1>31. CASE UNCHANGED vars
  BY <1>31, QuietWhy DEF vars
<1> QED
  BY <1>1, <1>2, <1>3, <1>4, <1>5, <1>6, <1>7, <1>8, <1>9, <1>10, <1>11, <1>12, <1>13, <1>14, <1>15, <1>16, <1>17, <1>18, <1>19, <1>20, <1>21, <1>22, <1>23, <1>24, <1>25, <1>26, <1>27, <1>28, <1>29, <1>30, <1>31 DEF Next, Claims, Runs, Closes, Calls

LEMMA InitWhy == Init => Why
BY ServeAssumption DEF Init, Why, Rest, Silent, At, Coming, Proc, Caller

\* A run that ends because it was cancelled knows who asked, unless it was its deadline (resident.rs 373-376).
THEOREM EndsSayWhy == Spec => SaysWhy
<1>1. IInv /\ Why /\ [Next]_vars => Why'
  BY StepWhy
<1>2. IInv /\ Why /\ [Next]_vars =>
      [\A p \in Start :
          At(p) = "serving" /\ run[p].cancelled /\ run'[p].at = "unlinking"
          => run'[p].source # None \/ run[p].expired]_vars
  BY StepWhy DEF Lasts
<1> QED
  BY <1>1, <1>2, InitWhy, Inductive, PTL DEF Spec, SaysWhy

\* What ClaimedStops rests on, for every step: a stop that was acked stays owed, through a live cut and a dropped
\* handler, until its node is cancelled or no longer serves, and a node once cancelled stays so (stop.rs 86-98).
OwedStops ==
    [][/\ Owes
       /\ \A p \in Start : At(p) = "serving" /\ At(p)' = "serving" /\ run[p].cancelled => run'[p].cancelled]_vars

THEOREM AckedIsOwed == Spec => OwedStops
<1>1. IInv /\ Why /\ [Next]_vars => Why'
  BY StepWhy
<1>2. IInv /\ Why /\ [Next]_vars =>
      [/\ Owes
       /\ \A p \in Start : At(p) = "serving" /\ At(p)' = "serving" /\ run[p].cancelled => run'[p].cancelled]_vars
  BY StepWhy DEF Lasts
<1> QED
  BY <1>1, <1>2, InitWhy, Inductive, PTL DEF Spec, OwedStops

-----------------------------------------------------------------------------
(* The commands at the control socket: the inductive invariant             *)

\* The parts of a command.
CmdParts == {"kind", "at", "ask", "rooted", "says", "admits"}

\* It says that no serve runs, and is not one that has no path to look at.
SaysNone(k) == k.says = "no" \/ (k.says = "down" /\ k.rooted)

Nobody == \A p \in Residents : ~C!Listens(p)

ControlShape ==
    /\ DOMAIN up = Residents
    /\ DOMAIN cmd = Commands /\ \A c \in Commands : DOMAIN cmd[c] = CmdParts
    /\ seen \in [Commands -> [up : SUBSET Admitting, quiet : BOOLEAN]]

\* serve.lock records the serve that is up.
RecordedUp == \A p \in Residents : C!Up(p) => ran = p

\* While a command asks and nobody listens, that was seen.
Asking(c) ==
    /\ SaysNone(cmd[c]) => seen[c].quiet
    /\ cmd[c].at = "recorded" => cmd[c].ask = "services"
    /\ cmd[c].at \notin {"idle", "done"} /\ cmd[c].ask # "stop" /\ Nobody => seen[c].quiet

CInv == ControlShape /\ RecordedUp /\ \A c \in Commands : Asking(c)

\* What a step may make of a command.
May(c) ==
    /\ DOMAIN cmd'[c] = CmdParts
    /\ SaysNone(cmd'[c]) => SaysNone(cmd[c]) \/ seen[c].quiet
    /\ cmd'[c].at = "recorded" => cmd'[c].ask = "services"

LEMMA SeenInv ==
    ASSUME CInv, C!Sees, DOMAIN up' = Residents, RecordedUp', DOMAIN cmd' = Commands, \A c \in Commands : May(c)
    PROVE  CInv'
<1>1. ASSUME NEW c \in Commands
      PROVE  /\ seen'[c] \in [up : SUBSET Admitting, quiet : BOOLEAN]
             /\ seen[c].quiet => seen'[c].quiet
             /\ cmd'[c].at \notin {"idle", "done"} /\ cmd'[c].ask # "stop" /\ Nobody' => seen'[c].quiet
  <2>1. seen[c] \in [up : SUBSET Admitting, quiet : BOOLEAN]
    BY DEF CInv, ControlShape
  <2>2. CASE cmd'[c].at \in {"idle", "done"} \/ cmd'[c].ask = "stop"
    <3>1. seen'[c] = seen[c]
      BY <2>2 DEF C!Sees
    <3> QED BY <2>1, <2>2, <3>1
  <2>3. CASE ~(cmd'[c].at \in {"idle", "done"} \/ cmd'[c].ask = "stop")
    <3> DEFINE more == {p \in Admitting : C!Up(p)'}
               none == seen[c].quiet \/ \A p \in Residents : ~C!Listens(p)'
    <3>1. seen'[c] = [up |-> seen[c].up \cup more, quiet |-> none]
      BY <2>3 DEF C!Sees
    <3>2. more \subseteq Admitting /\ none \in BOOLEAN
      OBVIOUS
    <3>3. (seen[c].quiet => none) /\ (Nobody' => none)
      BY DEF Nobody
    <3> HIDE DEF more, none
    <3> QED BY <2>1, <3>1, <3>2, <3>3
  <2> QED BY <2>2, <2>3
<1>2. seen' = [c \in Commands |-> seen'[c]]
  BY DEF C!Sees
<1>3. ControlShape'
  BY <1>1, <1>2 DEF ControlShape, May
<1>4. ASSUME NEW c \in Commands
      PROVE  Asking(c)'
  BY <1>1, <1>4 DEF CInv, Asking, May
<1> QED BY <1>3, <1>4 DEF CInv

LEMMA MakesMay ==
    ASSUME CInv, NEW c \in Commands, NEW answer, answer = "none" /\ cmd[c].rooted => Nobody,
           cmd[c].at \notin {"idle", "done"}, C!Ends(c, answer)
    PROVE  DOMAIN cmd' = Commands /\ \A x \in Commands : May(x)
<1> DEFINE k == cmd[c]
           m == C!Makes(c, answer)
<1>1. DOMAIN k = CmdParts
  BY DEF CInv, ControlShape
<1>2. /\ DOMAIN m = CmdParts /\ m.ask = k.ask /\ m.rooted = k.rooted /\ (m.at = "recorded" => k.ask = "services")
      /\ m.says \in {k.says, "yes", "stopped", "failed", "live"} \/ (m.says = "down" /\ answer = "none" /\ k.ask # "stop")
  <2>1. CASE k.ask = "services" /\ answer = "ok"
    <3> DEFINE says == IF k.kind = "running" THEN "yes" ELSE k.says
    <3>1. m = [k EXCEPT !.at = "done", !.says = says]
      BY <2>1 DEF C!Makes
    <3>2. says \in {k.says, "yes"}
      OBVIOUS
    <3> HIDE DEF m, k, says
    <3> QED BY <1>1, <3>1, <3>2 DEF CmdParts
  <2>2. CASE k.ask = "services" /\ answer # "ok"
    <3>1. m = [k EXCEPT !.at = "recorded"]
      BY <2>2 DEF C!Makes
    <3> HIDE DEF m, k
    <3> QED BY <1>1, <2>2, <3>1 DEF CmdParts
  <2>3. CASE k.ask = "stop"
    <3> DEFINE says == IF answer = "ok" THEN "stopped" ELSE "failed"
    <3>1. m = [k EXCEPT !.at = "done", !.says = says]
      BY <2>3 DEF C!Makes
    <3>2. says \in {"stopped", "failed"}
      OBVIOUS
    <3> HIDE DEF m, k, says
    <3> QED BY <1>1, <3>1, <3>2 DEF CmdParts
  <2>4. CASE k.ask \notin {"services", "stop"}
    <3> DEFINE at == IF k.kind = "status" THEN "admit" ELSE "done"
               says == IF answer = "ok" THEN "live" ELSE IF answer = "none" THEN "down" ELSE "failed"
    <3>1. m = [k EXCEPT !.at = at, !.says = says]
      BY <2>4 DEF C!Makes
    <3>2. (at \in {"admit", "done"}) /\ (says \in {"live", "failed"} \/ (says = "down" /\ answer = "none"))
      OBVIOUS
    <3> HIDE DEF m, k, at, says
    <3> QED BY <1>1, <2>4, <3>1, <3>2 DEF CmdParts
  <2> QED BY <2>1, <2>2, <2>3, <2>4
<1>3. cmd' = [cmd EXCEPT ![c] = m] /\ DOMAIN cmd = Commands
  BY DEF C!Ends, CInv, ControlShape
<1>4. k.ask # "stop" /\ answer = "none" /\ k.rooted => seen[c].quiet
  BY DEF CInv, Asking
<1>5. ASSUME NEW x \in Commands
      PROVE  May(x)
  <2>1. Asking(x) /\ DOMAIN cmd[x] = CmdParts
    BY DEF CInv, ControlShape
  <2>2. CASE x # c
    <3>1. cmd'[x] = cmd[x]
      BY <1>3, <2>2
    <3> QED BY <2>1, <3>1 DEF May, Asking
  <2>3. CASE x = c
    <3>1. cmd'[x] = m
      BY <1>3, <2>3
    <3> HIDE DEF m
    <3> QED BY <1>2, <1>4, <2>1, <2>3, <3>1 DEF May, Asking, SaysNone
  <2> QED BY <2>2, <2>3
<1> QED BY <1>3, <1>5

\* A command takes a step that says nothing of whether one runs.
LEMMA StepMay ==
    ASSUME CInv, NEW c \in Commands, NEW m, cmd' = [cmd EXCEPT ![c] = m], DOMAIN m = CmdParts,
           SaysNone(m) => SaysNone(cmd[c]) \/ seen[c].quiet,
           m.at = "recorded" => m.ask = "services"
    PROVE  DOMAIN cmd' = Commands /\ \A x \in Commands : May(x)
<1>1. DOMAIN cmd' = Commands /\ DOMAIN cmd = Commands
  BY DEF CInv, ControlShape
<1>2. ASSUME NEW x \in Commands
      PROVE  May(x)
  <2>1. Asking(x) /\ DOMAIN cmd[x] = CmdParts
    BY DEF CInv, ControlShape
  <2>2. CASE x # c
    <3>1. cmd'[x] = cmd[x]
      BY <1>1, <2>2
    <3> QED BY <2>1, <3>1 DEF May, Asking
  <2>3. CASE x = c
    <3>1. cmd'[x] = m
      BY <1>1, <2>3
    <3> QED BY <2>3, <3>1 DEF May
  <2> QED BY <2>2, <2>3
<1> QED BY <1>1, <1>2

\* A serve's step leaves the commands alone.
LEMMA ServesInv ==
    ASSUME CInv, C!Sees, NEW p \in Residents, C!Serves(p)
    PROVE  CInv'
<1>1. UNCHANGED cmd
  BY DEF C!Serves, C!Claim, C!Listen, C!Cancel, C!Crash, C!Comes, C!Unbind, C!Exit, C!Accept, C!Elapse, C!Answer, C!Fire
<1>2. DOMAIN cmd' = Commands /\ \A c \in Commands : May(c)
  BY <1>1 DEF CInv, ControlShape, Asking, May
<1>3. DOMAIN up' = Residents
  BY DEF C!Serves, C!Claim, C!Listen, C!Cancel, C!Crash, C!Comes, C!Unbind, C!Exit, C!Accept, C!Elapse, C!Answer, C!Fire,
         CInv, ControlShape
<1>4. RecordedUp'
  <2>0. DOMAIN up = Residents /\ RecordedUp
    BY DEF CInv, ControlShape
  <2>1. CASE C!Claim(p)
    BY <2>0, <2>1 DEF C!Claim, RecordedUp, C!Up
  <2>2. CASE C!Exit(p)
    BY <2>0, <2>2 DEF C!Exit, RecordedUp, C!Up
  <2>3. CASE ran' = ran /\ \E to \in {"listening", "cancelled", "unbound", "gone"} :
                up' = [up EXCEPT ![p] = to] /\ C!Up(p)
    BY <2>0, <2>3 DEF RecordedUp, C!Up
  <2>4. CASE UNCHANGED <<ran, up>>
    BY <2>0, <2>4 DEF RecordedUp, C!Up
  <2>5. C!Listen(p) \/ C!Cancel(p) \/ C!Crash(p) \/ C!Unbind(p) \/ (\E c \in Commands : C!Fire(p, c)) =>
            ran' = ran /\ (UNCHANGED up \/ \E to \in {"listening", "cancelled", "unbound", "gone"} :
                                                up' = [up EXCEPT ![p] = to] /\ C!Up(p))
    BY DEF C!Listen, C!Cancel, C!Crash, C!Unbind, C!Fire, C!Up
  <2>6. (\E c \in Commands : C!Accept(p, c) \/ C!Elapse(p, c) \/ C!Answer(p, c)) => UNCHANGED <<ran, up>>
    BY DEF C!Accept, C!Elapse, C!Answer
  <2> QED BY <2>1, <2>2, <2>3, <2>4, <2>5, <2>6 DEF C!Serves, C!Comes
<1> QED BY <1>2, <1>3, <1>4, SeenInv

\* A command's step leaves the serves and the record alone.
LEMMA AsksInv ==
    ASSUME CInv, C!Sees, UNCHANGED <<ran, up>>, DOMAIN cmd' = Commands /\ \A x \in Commands : May(x)
    PROVE  CInv'
<1>1. DOMAIN up' = Residents /\ RecordedUp'
  BY DEF CInv, ControlShape, RecordedUp, C!Up
<1> QED BY <1>1, SeenInv

LEMMA QuestionInv == ASSUME CInv, C!Sees, NEW c \in Commands, C!Begin(c) PROVE CInv'
<1>1. PICK kind \in Does[c], aim \in C!Aim, rooted \in BOOLEAN :
         cmd' = [cmd EXCEPT ![c] = [C!Idle EXCEPT !.kind = kind, !.ask = C!Asks(kind), !.rooted = rooted,
                                                  !.at = IF C!Here(aim) THEN "resolve" ELSE "done"]]
  BY DEF C!Begin
<1> DEFINE ask == C!Asks(kind)
           at2 == IF C!Here(aim) THEN "resolve" ELSE "done"
           m == [C!Idle EXCEPT !.kind = kind, !.ask = ask, !.rooted = rooted, !.at = at2]
<1>2. cmd' = [cmd EXCEPT ![c] = m] /\ at2 # "recorded"
  BY <1>1
<1> HIDE DEF ask, at2
<1>3. DOMAIN m = CmdParts /\ m.says = "none" /\ m.at = at2
  BY DEF C!Idle, CmdParts
<1> HIDE DEF m
<1>4. DOMAIN cmd' = Commands /\ \A x \in Commands : May(x)
  BY <1>2, <1>3, StepMay DEF SaysNone
<1> QED BY <1>4, AsksInv DEF C!Begin

LEMMA EndsInv ==
    ASSUME CInv, C!Sees, NEW c \in Commands, NEW answer, answer = "none" /\ cmd[c].rooted => Nobody,
           cmd[c].at \notin {"idle", "done"}, C!Ends(c, answer)
    PROVE  CInv'
<1>1. UNCHANGED <<ran, up>>
  BY DEF C!Ends
<1> QED BY <1>1, MakesMay, AsksInv

\* A command goes on, and says nothing.
LEMMA GoesInv ==
    ASSUME CInv, C!Sees, NEW c \in Commands, NEW to, to # "recorded", cmd' = [cmd EXCEPT ![c].at = to],
           UNCHANGED <<ran, up>>
    PROVE  CInv'
<1> DEFINE m == [cmd[c] EXCEPT !.at = to]
<1>1. DOMAIN cmd[c] = CmdParts /\ Asking(c) /\ DOMAIN cmd = Commands
  BY DEF CInv, ControlShape
<1>2. cmd' = [cmd EXCEPT ![c] = m]
  OBVIOUS
<1>3. DOMAIN m = CmdParts /\ m.at = to /\ SaysNone(m) = SaysNone(cmd[c]) /\ m.ask = cmd[c].ask
  BY <1>1 DEF CmdParts, SaysNone
<1> HIDE DEF m
<1>4. DOMAIN cmd' = Commands /\ \A x \in Commands : May(x)
  BY <1>1, <1>2, <1>3, StepMay DEF Asking
<1> QED BY <1>4, AsksInv

LEMMA ReachInv ==
    ASSUME CInv, C!Sees, NEW c \in Commands, C!Resolve(c) \/ C!Connect(c) \/ C!Check(c) \/ C!Write(c) \/ C!Read(c)
    PROVE  CInv'
<1>1. cmd[c].at \notin {"idle", "done"}
  BY DEF C!Resolve, C!Connect, C!Check, C!Write, C!Read
<1>2. CASE C!Resolve(c)
  <2>1. path = None => Nobody
    BY ControlAssumption DEF Nobody, C!Listens
  <2>2. CASE (cmd[c].rooted => path = None) /\ C!Ends(c, "none")
    BY <1>1, <2>1, <2>2, EndsInv
  <2>3. CASE C!Ends(c, "failed")
    BY <1>1, <2>3, EndsInv
  <2>4. CASE cmd' = [cmd EXCEPT ![c].at = "connect"] /\ UNCHANGED <<ran, path, up>>
    BY <2>4, GoesInv
  <2> QED BY <1>2, <2>2, <2>3, <2>4 DEF C!Resolve
<1>3. CASE C!Connect(c)
  <2>1. CASE (\A p \in Residents : ~C!Listens(p)) /\ C!Ends(c, "none")
    BY <1>1, <2>1, EndsInv DEF Nobody
  <2>2. CASE cmd' = [cmd EXCEPT ![c].at = "check"] /\ UNCHANGED <<ran, path, up>>
    BY <2>2, GoesInv
  <2> QED BY <1>3, <2>1, <2>2 DEF C!Connect
<1>4. CASE C!Check(c)
  BY <1>1, <1>4, EndsInv, GoesInv DEF C!Check
<1>5. CASE C!Write(c)
  BY <1>1, <1>5, EndsInv, GoesInv DEF C!Write
<1>6. CASE C!Read(c)
  BY <1>1, <1>6, EndsInv DEF C!Read
<1> QED BY <1>2, <1>3, <1>4, <1>5, <1>6

LEMMA RecordedInv == ASSUME CInv, C!Sees, NEW c \in Commands, C!Recorded(c) PROVE CInv'
<1>0. cmd[c].at = "recorded" /\ UNCHANGED <<ran, up>> /\ DOMAIN cmd[c] = CmdParts /\ Asking(c)
  BY DEF C!Recorded, CInv, ControlShape
<1>1. PICK lives \in BOOLEAN :
         /\ ran # None /\ C!Up(ran) => lives
         /\ cmd' = [cmd EXCEPT ![c] =
                IF @.kind = "running" THEN [@ EXCEPT !.at = "done", !.says = IF lives THEN "yes" ELSE "no"]
                ELSE [@ EXCEPT !.at = "done", !.admits = IF lives THEN @ ELSE None]]
  BY DEF C!Recorded
<1>2. ~lives => seen[c].quiet
  <2> HAVE ~lives
  <2>1. \A p \in Residents : ~C!Up(p)
    BY <1>1, ControlAssumption DEF CInv, RecordedUp
  <2>2. Nobody
    BY <2>1 DEF Nobody, C!Listens, C!Up
  <2> QED BY <1>0, <2>2 DEF Asking
<1>3. CASE cmd[c].kind = "running"
  <2> DEFINE says == IF lives THEN "yes" ELSE "no"
             m == [cmd[c] EXCEPT !.at = "done", !.says = says]
  <2>1. cmd' = [cmd EXCEPT ![c] = m]
    BY <1>1, <1>3
  <2>2. says = "yes" \/ (says = "no" /\ ~lives)
    OBVIOUS
  <2> HIDE DEF says
  <2>3. DOMAIN m = CmdParts /\ m.at = "done" /\ m.says = says
    BY <1>0 DEF CmdParts
  <2> HIDE DEF m
  <2>4. DOMAIN cmd' = Commands /\ \A x \in Commands : May(x)
    BY <1>2, <2>1, <2>2, <2>3, StepMay DEF SaysNone
  <2> QED BY <1>0, <2>4, AsksInv
<1>4. CASE cmd[c].kind # "running"
  <2>1. PICK admits : cmd' = [cmd EXCEPT ![c] = [cmd[c] EXCEPT !.at = "done", !.admits = admits]]
    BY <1>1, <1>4
  <2> DEFINE m == [cmd[c] EXCEPT !.at = "done", !.admits = admits]
  <2>2. cmd' = [cmd EXCEPT ![c] = m]
    BY <2>1
  <2>3. DOMAIN m = CmdParts /\ m.at = "done" /\ SaysNone(m) = SaysNone(cmd[c])
    BY <1>0 DEF CmdParts, SaysNone
  <2> HIDE DEF m
  <2>4. DOMAIN cmd' = Commands /\ \A x \in Commands : May(x)
    BY <2>2, <2>3, StepMay
  <2> QED BY <1>0, <2>4, AsksInv
<1> QED BY <1>3, <1>4

LEMMA AdmitInv == ASSUME CInv, C!Sees, NEW c \in Commands, C!Admit(c) PROVE CInv'
<1>0. cmd[c].at = "admit" /\ UNCHANGED <<ran, up>> /\ DOMAIN cmd[c] = CmdParts /\ Asking(c)
  BY DEF C!Admit, CInv, ControlShape
<1>1. CASE ran \in Admitting
  <2> DEFINE m == [cmd[c] EXCEPT !.admits = ran, !.ask = "services", !.at = "resolve"]
  <2>1. cmd' = [cmd EXCEPT ![c] = m]
    BY <1>1 DEF C!Admit
  <2>2. DOMAIN m = CmdParts /\ m.at = "resolve" /\ SaysNone(m) = SaysNone(cmd[c])
    BY <1>0 DEF CmdParts, SaysNone
  <2> HIDE DEF m
  <2>3. DOMAIN cmd' = Commands /\ \A x \in Commands : May(x)
    BY <2>1, <2>2, StepMay
  <2> QED BY <1>0, <2>3, AsksInv
<1>2. CASE ran \notin Admitting
  <2>1. cmd' = [cmd EXCEPT ![c] = [cmd[c] EXCEPT !.at = "done"]]
    BY <1>2 DEF C!Admit
  <2> QED BY <1>0, <2>1, GoesInv
<1> QED BY <1>1, <1>2

LEMMA ControlInit == MCInit => CInv
<1> SUFFICES ASSUME MCInit
             PROVE  CInv
  OBVIOUS
<1>1. C!Init
  BY DEF MCInit
<1>2. \A c \in Commands : cmd[c].at = "idle" /\ cmd[c].says = "none" /\ DOMAIN cmd[c] = CmdParts
  BY <1>1 DEF C!Init, C!Idle, CmdParts
<1>3. seen \in [Commands -> [up : SUBSET Admitting, quiet : BOOLEAN]]
  BY <1>1 DEF C!Init
<1>4. ControlShape /\ RecordedUp
  BY <1>1, <1>2, <1>3 DEF C!Init, ControlShape, RecordedUp, C!Up
<1> QED BY <1>2, <1>4 DEF CInv, Asking, SaysNone

LEMMA ControlNext == CInv /\ [MCNext]_all => CInv'
<1> SUFFICES ASSUME CInv, [MCNext]_all
             PROVE  CInv'
  OBVIOUS
<1>1. CASE C!Next
  BY <1>1, ServesInv, QuestionInv, ReachInv, RecordedInv, AdmitInv DEF C!Next, C!Ask
<1>2. CASE UNCHANGED control
  <2>1. UNCHANGED <<ran, path, up, cmd, seen>>
    BY <1>2 DEF control
  <2> QED BY <2>1 DEF CInv, ControlShape, RecordedUp, Asking, Nobody, C!Up, C!Listens
<1> QED BY <1>1, <1>2 DEF MCNext, InServe, InGate, InControl, all

\* However many serves and commands, of whatever builds and sizes: a command that has a path to the socket says that no
\* serve runs only if at some moment while it asked nobody listened, and the question the other verbs put, settled by
\* the recorded pid, says no only then wherever it runs; no reply that fails, is cut short or does not fit is read as
\* that (node_client.rs, home/lock.rs).
THEOREM SaidDownIsDown == MCSpec => []DownIsDown
<1>1. CInv => DownIsDown
  BY DEF CInv, Asking, SaysNone, DownIsDown, C!DownIsDown
<1> QED BY <1>1, ControlInit, ControlNext, PTL DEF MCSpec
=============================================================================
