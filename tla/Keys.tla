--------------------------------- MODULE Keys ---------------------------------
(***************************************************************************)
(* This machine's key file and the file of the root kept beside it: who    *)
(* makes them, how each is locked, and how each is opened (identity.rs,    *)
(* touch.rs, passphrase.rs, root/lock.rs).  A command reads a file, asks   *)
(* the person, and only then takes home.lock and writes; the key store     *)
(* reads the file again for the write, and opens it by the lock it was     *)
(* given (external: keystore::KeyFile).                                    *)
(***************************************************************************)
EXTENDS Naturals, Sequences

CONSTANTS
    Proc,      \* the commands that run
    Key,       \* the keys this machine may have
    Phrase,    \* passphrases
    None

VARIABLES
    file,    \* machine/key: whose key, the passphrase that opens it, whether a touch does
    root,    \* root.key, if a root is kept here: the same two
    proc     \* each command

vars == <<file, root, proc>>

NoFile == [key |-> None, pass |-> None, touch |-> FALSE]
NoRoot == [kept |-> FALSE, pass |-> None, touch |-> FALSE]

Sealed(f) == f.pass # None \/ f.touch

LockVerbs == {"passphrase", "passphrase --remove", "touch-id", "touch-id --remove"}
RootVerbs == {"root passphrase", "root touch-id", "root touch-id --remove"}
Intents   == {"persisted", "if present"}

\* A command: what it is for, how far it is, the file as it read it, whether a root was kept then, the writes left to
\* do, the key it made or acts as.
Rest == [verb |-> None, at |-> "idle", read |-> NoFile, keeps |-> FALSE, acts |-> << >>, key |-> None]

Init ==
    /\ file \in {NoFile} \cup [key : Key, pass : {None} \cup Phrase, touch : BOOLEAN]
    /\ root = NoRoot
    /\ proc = [p \in Proc |-> Rest]

-----------------------------------------------------------------------------
(* A change of locks: the writes of it, in order                           *)

\* A write is a lock put on or taken off, and what opens the file for it: its being plain, a passphrase, a touch.
Make(l, phrase)      == [op |-> "make", with |-> None, lock |-> l, phrase |-> phrase]
Put(l, with, phrase) == [op |-> "put", with |-> with, lock |-> l, phrase |-> phrase]
TakeOff(l, with)     == [op |-> "take", with |-> with, lock |-> l, phrase |-> None]

Has(f, l) == IF l = "pass" THEN f.pass # None ELSE f.touch

\* Set or change the passphrase. A key under touch-id alone is opened by it, which stays beside a kept root only.
SetPassphrase(f, keeps, new) ==
    IF f.key = None THEN <<Make("pass", new)>>
    ELSE IF ~Sealed(f) THEN <<Put("pass", "plain", new)>>
    ELSE IF f.pass # None THEN <<Put("pass", f.pass, new)>>
    ELSE <<Put("pass", "touch", new)>> \o (IF keeps THEN << >> ELSE <<TakeOff("touch", new)>>)

\* Never where a root is kept and touch-id would be left alone.
RemovePassphrase(f, keeps) ==
    IF f.pass = None \/ (f.touch /\ keeps) THEN << >> ELSE <<TakeOff("pass", f.pass)>>

\* Beside a kept root a passphrase goes on first and stays; elsewhere touch-id replaces it.
SetTouchId(f, keeps, new) ==
    IF f.key = None THEN IF keeps THEN <<Make("pass", new), Put("touch", new, None)>> ELSE <<Make("touch", None)>>
    ELSE IF ~Sealed(f) THEN IF keeps THEN <<Put("pass", "plain", new), Put("touch", new, None)>>
                            ELSE <<Put("touch", "plain", None)>>
    ELSE IF f.pass # None THEN <<Put("touch", f.pass, None)>> \o (IF keeps THEN << >> ELSE <<TakeOff("pass", f.pass)>>)
    ELSE IF keeps THEN <<Put("pass", "touch", new)>> ELSE << >>

RemoveTouchId(f) ==
    IF ~f.touch THEN << >> ELSE <<TakeOff("touch", IF f.pass # None THEN f.pass ELSE "touch")>>

\* A root always opens with its passphrase, and every change of its locks is opened by it.
RootLock(verb, f, new) ==
    IF verb = "root passphrase" THEN <<Put("pass", f.pass, new)>>
    ELSE IF verb = "root touch-id" THEN <<Put("touch", f.pass, None)>>
    ELSE IF f.touch THEN <<TakeOff("touch", f.pass)>> ELSE << >>

Acts(verb, f, keeps, new) ==
    CASE verb = "passphrase" -> SetPassphrase(f, keeps, new)
      [] verb = "passphrase --remove" -> RemovePassphrase(f, keeps)
      [] verb = "touch-id" -> SetTouchId(f, keeps, new)
      [] verb = "touch-id --remove" -> RemoveTouchId(f)
      [] verb \in RootVerbs -> RootLock(verb, f, new)

Aimed(verb) == IF verb \in RootVerbs THEN root ELSE file

\* Whether the file, as it is now, opens for a write of it. A file is made only where there is none.
Opens(f, w) ==
    CASE w.with = None -> f = NoFile
      [] w.with = "plain" -> f # NoFile /\ ~Sealed(f)
      [] w.with = "touch" -> f.touch
      [] w.with \in Phrase -> f.pass = w.with

Locked(f, w) ==
    IF w.lock = "pass" THEN [f EXCEPT !.pass = IF w.op = "take" THEN None ELSE w.phrase]
                       ELSE [f EXCEPT !.touch = w.op # "take"]

-----------------------------------------------------------------------------
(* Changing a lock                                                         *)

At(p, step) == proc[p].at = step
HomeLocked == \E p \in Proc : At(p, "writing")

\* The file is read, with no lock held. Setting touch-id and removing a passphrase look for a kept root now.
Begin(p, verb) ==
    /\ At(p, "idle")
    /\ verb \in RootVerbs => root.kept
    /\ proc' = [proc EXCEPT ![p] = [Rest EXCEPT !.verb = verb, !.at = "asking", !.read = Aimed(verb), !.keeps = root.kept]]
    /\ UNCHANGED <<file, root>>

\* The person gives the current lock and the new one; setting a passphrase looks for a kept root only now. With nothing
\* to change, or where the rule refuses it, nothing more is done.
Answer(p, new) ==
    /\ At(p, "asking") /\ proc[p].verb \in LockVerbs \cup RootVerbs
    /\ LET keeps == IF proc[p].verb = "passphrase" THEN root.kept ELSE proc[p].keeps
           acts  == Acts(proc[p].verb, proc[p].read, keeps, new)
       IN  proc' = [proc EXCEPT ![p] = IF acts = << >> THEN Rest
                                       ELSE [@ EXCEPT !.at = "waiting", !.keeps = keeps, !.acts = acts]]
    /\ UNCHANGED <<file, root>>

\* home.lock, for the write alone.
Take(p) ==
    /\ At(p, "waiting") /\ ~HomeLocked
    /\ proc' = [proc EXCEPT ![p].at = "writing"]
    /\ UNCHANGED <<file, root>>

\* The next write, on the file as it is now.
Write(p) ==
    /\ At(p, "writing")
    /\ LET w == Head(proc[p].acts)
       IN  /\ Opens(Aimed(proc[p].verb), w)
           /\ IF proc[p].verb \in RootVerbs THEN root' = Locked(root, w) /\ UNCHANGED file
              ELSE /\ \E k \in IF w.op = "make" THEN Key ELSE {file.key} : file' = [Locked(file, w) EXCEPT !.key = k]
                   /\ UNCHANGED root
           /\ proc' = [proc EXCEPT ![p] = IF Len(@.acts) = 1 THEN Rest ELSE [@ EXCEPT !.acts = Tail(proc[p].acts)]]

\* A prompt that was not answered, a write that refused, a kill: what was written stays.
Quit(p) ==
    /\ ~At(p, "idle")
    /\ proc' = [proc EXCEPT ![p] = Rest]
    /\ UNCHANGED <<file, root>>

-----------------------------------------------------------------------------
(* Opening, making and replacing the key                                   *)

\* A verb that acts as this machine reads the file; one that serves is to make the key where there is none.
Use(p, intent) ==
    /\ At(p, "idle")
    /\ proc' = [proc EXCEPT ![p] = [Rest EXCEPT !.verb = intent, !.read = file,
          !.at = IF file # NoFile THEN "opening" ELSE IF intent = "persisted" THEN "minting" ELSE "acting",
          !.key = IF file = NoFile /\ intent = "if present" THEN "throwaway" ELSE None]]
    /\ UNCHANGED <<file, root>>

\* A plain file gave its key when it was read, and the passphrase opens what was read.
Opened(p) ==
    /\ At(p, "opening") /\ (~Sealed(proc[p].read) \/ proc[p].read.pass # None)
    /\ proc' = [proc EXCEPT ![p].at = "acting", ![p].key = proc[p].read.key]
    /\ UNCHANGED <<file, root>>

\* A touch reads the file again; another key than the one whose header was checked is refused (a Quit).
Touched(p) ==
    /\ At(p, "opening") /\ proc[p].read.touch /\ file.touch /\ file.key = proc[p].read.key
    /\ proc' = [proc EXCEPT ![p].at = "acting", ![p].key = file.key]
    /\ UNCHANGED <<file, root>>

\* A key is minted plain, only where there is none still, with no lock held: by a serve, by bare `join`, and from an
\* invite that carries one.
Mint(p) ==
    /\ At(p, "minting") /\ file = NoFile
    /\ \E k \in Key :
          /\ file' = [NoFile EXCEPT !.key = k]
          /\ proc' = [proc EXCEPT ![p].at = IF @ = "minting" /\ proc[p].verb = "join" THEN "pasting" ELSE "acting",
                                  ![p].key = k]
    /\ UNCHANGED root

\* Bare `join` prints this machine's key, made if there is none, and waits for the invite.
Join(p) ==
    /\ At(p, "idle") /\ file = NoFile
    /\ proc' = [proc EXCEPT ![p] = [Rest EXCEPT !.verb = "join", !.at = "minting"]]
    /\ UNCHANGED <<file, root>>

\* Mutant: the key is replaced whatever lock it has been put under since.
PasteAny(p) ==
    /\ At(p, "pasting") /\ ~HomeLocked
    /\ file.key = proc[p].key
    /\ \E k \in Key \ {file.key} : file' = [NoFile EXCEPT !.key = k]
    /\ proc' = [proc EXCEPT ![p] = Rest]
    /\ UNCHANGED root

\* An invite that carries another key replaces the one this run made, if it is that one still, and plain.
Paste(p) ==
    /\ At(p, "pasting") /\ ~HomeLocked
    /\ ~Sealed(file) /\ file.key = proc[p].key
    /\ \E k \in Key \ {file.key} : file' = [NoFile EXCEPT !.key = k]
    /\ proc' = [proc EXCEPT ![p] = Rest]
    /\ UNCHANGED root

\* leave --new-key: never where a root is kept. The new key may have a passphrase.
Replace ==
    /\ ~HomeLocked /\ file # NoFile /\ ~root.kept
    /\ \E k \in Key \ {file.key}, phrase \in {None} \cup Phrase : file' = [key |-> k, pass |-> phrase, touch |-> FALSE]
    /\ UNCHANGED <<root, proc>>

\* The first invite mints a root, a restore brings one back, `root forget` removes it: each under home.lock.
RootComes ==
    /\ ~HomeLocked /\ ~root.kept
    /\ \E phrase \in Phrase : root' = [kept |-> TRUE, pass |-> phrase, touch |-> FALSE]
    /\ UNCHANGED <<file, proc>>

RootGoes ==
    /\ ~HomeLocked /\ root.kept
    /\ root' = NoRoot
    /\ UNCHANGED <<file, proc>>

Next ==
    \/ \E p \in Proc :
          \/ \E verb \in LockVerbs \cup RootVerbs : Begin(p, verb)
          \/ \E new \in Phrase : Answer(p, new)
          \/ \E intent \in Intents : Use(p, intent)
          \/ Take(p) \/ Write(p) \/ Quit(p) \/ Opened(p) \/ Touched(p) \/ Mint(p) \/ Join(p) \/ Paste(p)
    \/ Replace \/ RootComes \/ RootGoes

Spec == Init /\ [][Next]_vars

-----------------------------------------------------------------------------
(* Properties                                                              *)

KeyFile == [key : Key \cup {None}, pass : Phrase \cup {None}, touch : BOOLEAN]

TypeOK ==
    /\ file \in KeyFile /\ (file.key = None => file = NoFile)
    /\ root \in [kept : BOOLEAN, pass : Phrase \cup {None}, touch : BOOLEAN]
    /\ root.kept <=> root.pass # None
    /\ \A p, q \in Proc : At(p, "writing") /\ At(q, "writing") => p = q

\* A sealed key has no lock left only because its owner removed one: a change of locks cut short, two changes at once
\* and a `join` that waits leave it sealed (identity.rs 299-311, 878-886).
StaysSealed ==
    [][file.key # None /\ file'.key = file.key /\ Sealed(file) /\ ~Sealed(file')
       => \E p \in Proc : At(p, "writing") /\ proc[p].verb \in {"passphrase --remove", "touch-id --remove"}]_vars

\* A run acts as the machine whose key file it read, and under a throwaway only where there was none, however the file
\* changes while the person is asked (identity.rs 25-27, touch.rs 434-436).
ActsAs ==
    \A p \in Proc : At(p, "acting") =>
        IF proc[p].key = "throwaway" THEN proc[p].read = NoFile /\ proc[p].verb = "if present"
        ELSE proc[p].read = NoFile \/ proc[p].key = proc[p].read.key

\* The key is replaced by name only: by `leave --new-key`, or by an invite pasted into the run that made it, as long as
\* nobody has locked it (identity.rs 18-25, 878-886).
ReplacedByName ==
    [][file.key # None /\ file'.key # file.key
       => Replace \/ (~Sealed(file) /\ \E p \in Proc : At(p, "pasting") /\ proc[p].key = file.key)]_vars

\* Where a root is kept the key keeps a passphrase beside touch-id: no lock verb leaves touch-id alone there
\* (identity.rs 299-305; a root that arrives beside such a key is another matter).
TwoLockRule ==
    [][root.kept /\ file.pass # None /\ file'.key = file.key /\ file'.touch => file'.pass # None]_vars

=============================================================================
