----------------------------- MODULE FoldProofs -----------------------------
(***************************************************************************)
(* What Fold proves for every set of signed updates, every clock and any   *)
(* number of processes: an inductive invariant, and from it the safety     *)
(* properties of Fold and its refinement of Holdings.                      *)
(***************************************************************************)
EXTENDS Fold, TLAPS

Folding == {"read", "added", "picked", "written", "forgot"}

\* Only the process that has home.lock is past Take, and every process past Arrive has an update.
LockInv ==
    \A p \in Proc :
        /\ at[p] \in Folding => lock = p
        /\ at[p] # "idle" => update[p] \in Signed

\* What the fold read when it took the lock is still what the disk says when it writes, and from the write
\* of devices on the update is the one held.
FreshInv ==
    \A p \in Proc :
        /\ at[p] \in {"read", "added", "picked"} => held[p] = devices
        /\ at[p] \in {"read", "added"} => until[p] = Ends[badge]
        /\ at[p] = "picked" => update[p].number > Number(devices)
        /\ at[p] \in {"written", "forgot"} => devices = update[p]

\* From Add on, what the update revokes is refused.
AddedInv ==
    \A p \in Proc : at[p] \in Folding \ {"read"} => Refusals(update[p], now) \subseteq revoked

\* No finished update is above the one held, and while a newer one is being written all are below it.
FinishedInv ==
    /\ \A u \in finished : u.number <= Number(devices)
    /\ \A p \in Proc : at[p] \in {"written", "forgot"} => \A u \in finished : u.number < Number(devices)

\* The inductive invariant: what the properties need of the lock, of what a fold has read and of what it
\* has done so far.
IInv ==
    /\ TypeOK
    /\ LockInv
    /\ FreshInv
    /\ AddedInv
    /\ FinishedInv
    /\ HeldCovered
    /\ ForkNoticed
    /\ SomeoneToAsk
    /\ Own \notin revoked
    /\ Holder[badge] = Own

-----------------------------------------------------------------------------

\* As time passes an update obliges a machine to refuse less, never more.
LEMMA RefusalsShrink ==
    ASSUME NEW u \in Signed, NEW t \in Nat, NEW later \in Nat, later >= t
    PROVE  Refusals(u, later) \subseteq Refusals(u, t)
<1>1. u.ids \subseteq Id
  BY SignedAssumption DEF UpdateShape
<1> QED
  BY <1>1, NamesAssumption DEF Refusals, RefusedAt, Owed

\* A signed update names entries only, and its number is positive.
LEMMA SignedShape ==
    ASSUME NEW u \in Signed
    PROVE  /\ u # None
           /\ u.number \in Nat
           /\ u.number > 0
           /\ u.ids \subseteq Id
           /\ u.keys \subseteq Key
           /\ u.standings \subseteq Id
BY SignedAssumption DEF UpdateShape

\* What a machine refuses are keys and ids, its own key never among them.
LEMMA RefusalsAreEntries ==
    ASSUME NEW u \in Signed, NEW t \in Nat
    PROVE  Refusals(u, t) \subseteq Entry /\ Own \notin Refusals(u, t)
BY SignedShape DEF Refusals, RefusedAt, Owed, Entry

\* A home that has just joined: no update, no fork, and a standing of its own.
LEMMA InitInv == Init => IInv
<1> SUFFICES ASSUME Init PROVE IInv
  OBVIOUS
<1>1. badge \in Id /\ Holder[badge] = Own
  BY DEF Init
<1>2. TypeOK
  BY <1>1 DEF Init, TypeOK, Steps
<1> QED
  BY <1>1, <1>2 DEF Init, IInv, LockInv, FreshInv, AddedInv, FinishedInv, HeldCovered, ForkNoticed,
     SomeoneToAsk, Folding

\* Every step keeps the invariant, one action at a time and under it one part of the invariant at a time.
LEMMA StepInv == IInv /\ [Next]_vars => IInv'
<1> SUFFICES ASSUME IInv, [Next]_vars PROVE IInv'
  OBVIOUS
<1> USE DEF IInv
<1>1. ASSUME NEW p \in Proc, NEW u \in Signed, NEW k \in {"update", "fork"}, Arrive(p, u, k) PROVE IInv'
  <2>1. TypeOK'
    BY <1>1 DEF Arrive, disk, TypeOK, Steps
  <2>2. LockInv'
    BY <1>1 DEF Arrive, LockInv, Folding, TypeOK
  <2>3. FreshInv'
    BY <1>1 DEF Arrive, disk, FreshInv
  <2>4. AddedInv'
    BY <1>1 DEF Arrive, disk, AddedInv, Folding
  <2>5. FinishedInv'
    BY <1>1 DEF Arrive, disk, FinishedInv
  <2>6. (HeldCovered /\ SomeoneToAsk)'
    BY <1>1 DEF Arrive, disk, HeldCovered, SomeoneToAsk
  <2>7. ForkNoticed'
    BY <1>1 DEF Arrive, disk, ForkNoticed
  <2>8. (Own \notin revoked /\ Holder[badge] = Own)'
    BY <1>1 DEF Arrive, disk
  <2> QED
    BY <2>1, <2>2, <2>3, <2>4, <2>5, <2>6, <2>7, <2>8
<1>2. ASSUME NEW p \in Proc, Leave(p) PROVE IInv'
  <2>1. TypeOK'
    BY <1>2 DEF Leave, Finish, Return, disk, TypeOK, Steps, LockInv
  <2>2. LockInv'
    BY <1>2 DEF Leave, Finish, Return, LockInv, Folding, TypeOK
  <2>3. FreshInv'
    BY <1>2 DEF Leave, Finish, Return, disk, FreshInv
  <2>4. AddedInv'
    BY <1>2 DEF Leave, Finish, Return, disk, AddedInv, Folding
  <2>5. FinishedInv'
    BY <1>2, SignedShape, RefusalsAreEntries, RefusalsShrink, ProcAssumption DEF Leave, Finish, Return,
       disk, FinishedInv, LockInv, Folding, TypeOK, Matters, Newer, Number
  <2>6. (HeldCovered /\ SomeoneToAsk)'
    BY <1>2 DEF Leave, disk, HeldCovered, SomeoneToAsk
  <2>7. ForkNoticed'
    BY <1>2 DEF Leave, Finish, disk, ForkNoticed, Matters, IsFork, Number
  <2>8. (Own \notin revoked /\ Holder[badge] = Own)'
    BY <1>2 DEF Leave, disk
  <2> QED
    BY <2>1, <2>2, <2>3, <2>4, <2>5, <2>6, <2>7, <2>8
<1>3. ASSUME NEW p \in Proc, Take(p) PROVE IInv'
  <2>1. TypeOK'
    BY <1>3, NamesAssumption DEF Take, disk, TypeOK, Steps
  <2>2. LockInv'
    BY <1>3, ProcAssumption DEF Take, LockInv
  <2>3. FreshInv'
    BY <1>3 DEF Take, disk, FreshInv, TypeOK
  <2>4. AddedInv'
    BY <1>3 DEF Take, disk, AddedInv
  <2>5. FinishedInv'
    BY <1>3 DEF Take, disk, FinishedInv
  <2>6. (HeldCovered /\ SomeoneToAsk)'
    BY <1>3 DEF Take, disk, HeldCovered, SomeoneToAsk
  <2>7. ForkNoticed'
    BY <1>3 DEF Take, disk, ForkNoticed
  <2>8. (Own \notin revoked /\ Holder[badge] = Own)'
    BY <1>3 DEF Take, disk
  <2> QED
    BY <2>1, <2>2, <2>3, <2>4, <2>5, <2>6, <2>7, <2>8
<1>4. ASSUME NEW p \in Proc, Add(p) PROVE IInv'
  <2>1. TypeOK'
    BY <1>4, RefusalsAreEntries DEF Add, TypeOK, Steps, LockInv
  <2>2. LockInv'
    BY <1>4 DEF Add, LockInv, Folding
  <2>3. FreshInv'
    BY <1>4 DEF Add, FreshInv
  <2>4. AddedInv'
    BY <1>4 DEF Add, AddedInv
  <2>5. FinishedInv'
    BY <1>4 DEF Add, FinishedInv
  <2>6. (HeldCovered /\ SomeoneToAsk)'
    BY <1>4 DEF Add, HeldCovered, SomeoneToAsk
  <2>7. ForkNoticed'
    BY <1>4 DEF Add, ForkNoticed
  <2>8. (Own \notin revoked /\ Holder[badge] = Own)'
    BY <1>4, RefusalsAreEntries DEF Add, LockInv, TypeOK
  <2> QED
    BY <2>1, <2>2, <2>3, <2>4, <2>5, <2>6, <2>7, <2>8
<1>5. ASSUME NEW p \in Proc, KeepFork(p) PROVE IInv'
  <2>1. TypeOK'
    BY <1>5 DEF KeepFork, Finish, Return, TypeOK, Steps, LockInv
  <2>2. LockInv'
    BY <1>5 DEF KeepFork, Finish, Return, LockInv, Folding, TypeOK
  <2>3. FreshInv'
    BY <1>5 DEF KeepFork, Finish, Return, FreshInv, TypeOK
  <2>4. AddedInv'
    BY <1>5 DEF KeepFork, Finish, Return, AddedInv, Folding, TypeOK
  <2>5. FinishedInv'
    BY <1>5, SignedShape DEF KeepFork, Finish, Return, FinishedInv, FreshInv, LockInv, Folding, TypeOK,
       Newer, Number
  <2>6. (HeldCovered /\ SomeoneToAsk)'
    BY <1>5 DEF KeepFork, HeldCovered, SomeoneToAsk, AddedInv, Folding
  <2>7. ForkNoticed'
    BY <1>5, SignedShape DEF KeepFork, Finish, ForkNoticed, AddedInv, LockInv, Folding
  <2>8. (Own \notin revoked /\ Holder[badge] = Own)'
    BY <1>5 DEF KeepFork
  <2> QED
    BY <2>1, <2>2, <2>3, <2>4, <2>5, <2>6, <2>7, <2>8
<1>6. ASSUME NEW p \in Proc, PickUp(p) PROVE IInv'
  <2>1. TypeOK'
    BY <1>6, SignedShape DEF PickUp, Fit, TypeOK, Steps, LockInv
  <2>2. LockInv'
    BY <1>6 DEF PickUp, LockInv, Folding
  <2>3. FreshInv'
    BY <1>6 DEF PickUp, FreshInv, LockInv, Folding, TypeOK, Newer
  <2>4. AddedInv'
    BY <1>6 DEF PickUp, AddedInv, Folding
  <2>5. FinishedInv'
    BY <1>6 DEF PickUp, FinishedInv
  <2>6. (HeldCovered /\ SomeoneToAsk)'
    BY <1>6 DEF PickUp, HeldCovered, SomeoneToAsk
  <2>7. ForkNoticed'
    BY <1>6 DEF PickUp, ForkNoticed
  <2>8. (Own \notin revoked /\ Holder[badge] = Own)'
    BY <1>6 DEF PickUp, Fit
  <2> QED
    BY <2>1, <2>2, <2>3, <2>4, <2>5, <2>6, <2>7, <2>8
<1>7. ASSUME NEW p \in Proc, WriteDevices(p) PROVE IInv'
  <2>1. TypeOK'
    BY <1>7 DEF WriteDevices, TypeOK, Steps
  <2>2. LockInv'
    BY <1>7 DEF WriteDevices, LockInv, Folding
  <2>3. FreshInv'
    BY <1>7 DEF WriteDevices, FreshInv, LockInv, Folding, TypeOK
  <2>4. AddedInv'
    BY <1>7 DEF WriteDevices, AddedInv, Folding
  <2>5. FinishedInv'
    BY <1>7, SignedShape DEF WriteDevices, FinishedInv, FreshInv, LockInv, TypeOK, Number
  <2>6. (HeldCovered /\ SomeoneToAsk)'
    BY <1>7, SignedShape DEF WriteDevices, HeldCovered, SomeoneToAsk, AddedInv, LockInv, Folding
  <2>7. ForkNoticed'
    BY <1>7, SignedShape DEF WriteDevices, ForkNoticed, FinishedInv, FreshInv, TypeOK, Number
  <2>8. (Own \notin revoked /\ Holder[badge] = Own)'
    BY <1>7 DEF WriteDevices
  <2> QED
    BY <2>1, <2>2, <2>3, <2>4, <2>5, <2>6, <2>7, <2>8
<1>8. ASSUME NEW p \in Proc, ForgetInvitedBy(p) PROVE IInv'
  <2>1. TypeOK'
    BY <1>8 DEF ForgetInvitedBy, TypeOK, Steps
  <2>2. LockInv'
    BY <1>8 DEF ForgetInvitedBy, LockInv, Folding
  <2>3. FreshInv'
    BY <1>8 DEF ForgetInvitedBy, FreshInv
  <2>4. AddedInv'
    BY <1>8 DEF ForgetInvitedBy, AddedInv, Folding
  <2>5. FinishedInv'
    BY <1>8 DEF ForgetInvitedBy, FinishedInv
  <2>6. (HeldCovered /\ SomeoneToAsk)'
    BY <1>8, SignedShape DEF ForgetInvitedBy, HeldCovered, SomeoneToAsk, FreshInv, LockInv
  <2>7. ForkNoticed'
    BY <1>8 DEF ForgetInvitedBy, ForkNoticed
  <2>8. (Own \notin revoked /\ Holder[badge] = Own)'
    BY <1>8 DEF ForgetInvitedBy
  <2> QED
    BY <2>1, <2>2, <2>3, <2>4, <2>5, <2>6, <2>7, <2>8
<1>9. ASSUME NEW p \in Proc, ClearFork(p) PROVE IInv'
  <2>1. TypeOK'
    BY <1>9 DEF ClearFork, Finish, Return, TypeOK, Steps, LockInv
  <2>2. LockInv'
    BY <1>9 DEF ClearFork, Finish, Return, LockInv, Folding, TypeOK
  <2>3. FreshInv'
    BY <1>9 DEF ClearFork, Finish, Return, FreshInv, TypeOK
  <2>4. AddedInv'
    BY <1>9 DEF ClearFork, Finish, Return, AddedInv, Folding, TypeOK
  <2>5. FinishedInv'
    BY <1>9, SignedShape DEF ClearFork, Finish, Return, FinishedInv, FreshInv, LockInv, Folding, TypeOK,
       Number
  <2>6. (HeldCovered /\ SomeoneToAsk)'
    BY <1>9 DEF ClearFork, HeldCovered, SomeoneToAsk
  <2>7. ForkNoticed'
    BY <1>9, SignedShape DEF ClearFork, Finish, ForkNoticed, FinishedInv, FreshInv, LockInv, Number
  <2>8. (Own \notin revoked /\ Holder[badge] = Own)'
    BY <1>9 DEF ClearFork
  <2> QED
    BY <2>1, <2>2, <2>3, <2>4, <2>5, <2>6, <2>7, <2>8
<1>10. ASSUME NEW p \in Proc, Stop(p) PROVE IInv'
  <2>1. TypeOK'
    BY <1>10 DEF Stop, Return, disk, TypeOK, Steps
  <2>2. LockInv'
    BY <1>10 DEF Stop, Return, LockInv, Folding, TypeOK
  <2>3. FreshInv'
    BY <1>10 DEF Stop, Return, disk, FreshInv, TypeOK
  <2>4. AddedInv'
    BY <1>10 DEF Stop, Return, disk, AddedInv, Folding, TypeOK
  <2>5. FinishedInv'
    BY <1>10 DEF Stop, Return, disk, FinishedInv
  <2>6. (HeldCovered /\ SomeoneToAsk)'
    BY <1>10 DEF Stop, disk, HeldCovered, SomeoneToAsk
  <2>7. ForkNoticed'
    BY <1>10 DEF Stop, disk, ForkNoticed
  <2>8. (Own \notin revoked /\ Holder[badge] = Own)'
    BY <1>10 DEF Stop, disk
  <2> QED
    BY <2>1, <2>2, <2>3, <2>4, <2>5, <2>6, <2>7, <2>8
<1>11. ASSUME NEW e \in Entry, RevokeHere(e) PROVE IInv'
  <2>1. TypeOK'
    BY <1>11 DEF RevokeHere, run, TypeOK
  <2>2. LockInv'
    BY <1>11 DEF RevokeHere, run, LockInv
  <2>3. FreshInv'
    BY <1>11 DEF RevokeHere, run, FreshInv
  <2>4. AddedInv'
    BY <1>11 DEF RevokeHere, run, AddedInv
  <2>5. FinishedInv'
    BY <1>11 DEF RevokeHere, run, FinishedInv
  <2>6. (HeldCovered /\ SomeoneToAsk)'
    BY <1>11 DEF RevokeHere, HeldCovered, SomeoneToAsk
  <2>7. ForkNoticed'
    BY <1>11 DEF RevokeHere, ForkNoticed
  <2>8. (Own \notin revoked /\ Holder[badge] = Own)'
    BY <1>11 DEF RevokeHere
  <2> QED
    BY <2>1, <2>2, <2>3, <2>4, <2>5, <2>6, <2>7, <2>8
<1>12. ASSUME NEW s \in Id, TakeRenewal(s) PROVE IInv'
  <2>1. TypeOK'
    BY <1>12 DEF TakeRenewal, run, TypeOK
  <2>2. LockInv'
    BY <1>12 DEF TakeRenewal, run, LockInv
  <2>3. FreshInv'
    BY <1>12, ProcAssumption DEF TakeRenewal, run, FreshInv, LockInv, Folding
  <2>4. AddedInv'
    BY <1>12 DEF TakeRenewal, run, AddedInv
  <2>5. FinishedInv'
    BY <1>12 DEF TakeRenewal, run, FinishedInv
  <2>6. (HeldCovered /\ SomeoneToAsk)'
    BY <1>12 DEF TakeRenewal, HeldCovered, SomeoneToAsk
  <2>7. ForkNoticed'
    BY <1>12 DEF TakeRenewal, ForkNoticed
  <2>8. (Own \notin revoked /\ Holder[badge] = Own)'
    BY <1>12 DEF TakeRenewal
  <2> QED
    BY <2>1, <2>2, <2>3, <2>4, <2>5, <2>6, <2>7, <2>8
<1>13. CASE Tick
  <2>1. TypeOK'
    BY <1>13 DEF Tick, disk, run, TypeOK
  <2>2. LockInv'
    BY <1>13 DEF Tick, run, LockInv
  <2>3. FreshInv'
    BY <1>13 DEF Tick, disk, run, FreshInv
  <2>4. AddedInv'
    BY <1>13, RefusalsShrink DEF Tick, disk, run, AddedInv, LockInv, Folding, TypeOK
  <2>5. FinishedInv'
    BY <1>13 DEF Tick, disk, run, FinishedInv
  <2>6. (HeldCovered /\ SomeoneToAsk)'
    BY <1>13, RefusalsShrink DEF Tick, disk, HeldCovered, SomeoneToAsk, TypeOK
  <2>7. ForkNoticed'
    BY <1>13, RefusalsShrink DEF Tick, disk, ForkNoticed, TypeOK
  <2>8. (Own \notin revoked /\ Holder[badge] = Own)'
    BY <1>13 DEF Tick, disk
  <2> QED
    BY <2>1, <2>2, <2>3, <2>4, <2>5, <2>6, <2>7, <2>8
<1>14. CASE UNCHANGED vars
  BY <1>14 DEF vars, disk, run, TypeOK, LockInv, FreshInv, AddedInv, FinishedInv, HeldCovered, ForkNoticed,
     SomeoneToAsk
<1> QED
  BY <1>1, <1>2, <1>3, <1>4, <1>5, <1>6, <1>7, <1>8, <1>9, <1>10, <1>11, <1>12, <1>13, <1>14 DEF Next

-----------------------------------------------------------------------------

\* The invariant holds in every state of every behaviour.
LEMMA Inductive == Spec => []IInv
<1>1. Init => IInv
  BY InitInv
<1>2. IInv /\ [Next]_vars => IInv'
  BY StepInv
<1> QED
  BY <1>1, <1>2, PTL DEF Spec

\* Every variable of a home keeps its type.
THEOREM TypeCorrect == Spec => []TypeOK
BY Inductive, PTL DEF IInv

\* At every moment, stops between two writes included, all that the update held and the fork kept revoke
\* is in the file the gate reads.
THEOREM AlwaysCovered == Spec => []HeldCovered
BY Inductive, PTL DEF IInv

\* A finished fold of another cut with the held one's number has left a fork on disk and its revocations
\* refused.
THEOREM AlwaysNoticed == Spec => []ForkNoticed
BY Inductive, PTL DEF IInv

\* A home that has lost its invited-by holds a list of devices to ask.
THEOREM AlwaysSomeone == Spec => []SomeoneToAsk
BY Inductive, PTL DEF IInv

-----------------------------------------------------------------------------

\* Each step of a fold is a step of Holdings or leaves all it speaks of as it was.
LEMMA StepContract == IInv /\ [Next]_vars => [Contract!Next]_(Contract!holdings)
<1> SUFFICES ASSUME IInv, [Next]_vars PROVE Contract!Next \/ UNCHANGED Contract!holdings
  OBVIOUS
<1> USE DEF IInv, Contract!holdings, Contract!Next
<1>1. ASSUME NEW p \in Proc, NEW u \in Signed, NEW k \in {"update", "fork"}, Arrive(p, u, k)
      PROVE  UNCHANGED Contract!holdings
  BY <1>1 DEF Arrive, disk
<1>2. ASSUME NEW p \in Proc, Leave(p) \/ Take(p) \/ ForgetInvitedBy(p) \/ Stop(p)
      PROVE  UNCHANGED Contract!holdings
  BY <1>2 DEF Leave, Take, ForgetInvitedBy, Stop, disk
<1>3. ASSUME NEW p \in Proc, Add(p) PROVE Contract!Refuse
  BY <1>3, RefusalsAreEntries DEF Add, LockInv, TypeOK, Contract!Refuse
<1>4. ASSUME NEW p \in Proc, KeepFork(p) PROVE Contract!Keep \/ UNCHANGED Contract!holdings
  <2>1. update[p] \in Signed /\ Refusals(update[p], now) \subseteq revoked
    BY <1>4 DEF KeepFork, LockInv, AddedInv, Folding
  <2> QED
    BY <1>4, <2>1 DEF KeepFork, Contract!Keep, Contract!Refusals, Contract!RefusedAt, Contract!Owed,
       Refusals, RefusedAt, Owed
<1>5. ASSUME NEW p \in Proc, PickUp(p) PROVE Contract!Renew \/ UNCHANGED Contract!holdings
  <2>1. update[p] \in Signed /\ until[p] = Ends[badge]
    BY <1>5 DEF PickUp, LockInv, FreshInv
  <2> QED
    BY <1>5, <2>1, SignedShape DEF PickUp, Fit, Contract!Renew
<1>6. ASSUME NEW p \in Proc, WriteDevices(p) PROVE Contract!Hold
  <2>1. /\ update[p] \in Signed
        /\ update[p].number > Number(devices)
        /\ Refusals(update[p], now) \subseteq revoked
    BY <1>6 DEF WriteDevices, LockInv, FreshInv, AddedInv, Folding
  <2> QED
    BY <1>6, <2>1, SignedShape DEF WriteDevices, Contract!Hold, Number, Contract!Number, Contract!Refusals,
       Contract!RefusedAt, Contract!Owed, Refusals, RefusedAt, Owed
<1>7. ASSUME NEW p \in Proc, ClearFork(p) PROVE Contract!Drop \/ UNCHANGED Contract!holdings
  <2>1. update[p] \in Signed /\ devices = update[p]
    BY <1>7 DEF ClearFork, LockInv, FreshInv
  <2> QED
    BY <1>7, <2>1, SignedShape DEF ClearFork, Contract!Drop, Contract!Carries, Contract!Owed, Carries, Owed
<1>8. ASSUME NEW e \in Entry, RevokeHere(e) PROVE Contract!Refuse
  BY <1>8 DEF RevokeHere, Contract!Refuse
<1>9. ASSUME NEW s \in Id, TakeRenewal(s) PROVE Contract!Renew
  BY <1>9 DEF TakeRenewal, Contract!Renew
<1>10. CASE Tick
  BY <1>10 DEF Tick, disk, TypeOK, Contract!Wait
<1>11. CASE UNCHANGED vars
  BY <1>11 DEF vars, disk
<1> QED
  BY <1>1, <1>2, <1>3, <1>4, <1>5, <1>6, <1>7, <1>8, <1>9, <1>10, <1>11 DEF Next

\* Whatever the processes of a machine do to each other and wherever they stop, its files move as Holdings
\* says.
THEOREM FoldRefinesHoldings == Spec => HoldsContract
<1>1. Init => Contract!Init
  BY DEF Init, Contract!Init
<1>2. IInv /\ [Next]_vars => [Contract!Next]_(Contract!holdings)
  BY StepContract
<1> QED
  BY <1>1, <1>2, Inductive, PTL DEF Spec, HoldsContract, Contract!Spec
=============================================================================
