------------------------------- MODULE Watched -------------------------------
(***************************************************************************)
(* The two lists a serve keeps in memory, so that a stream of a key it     *)
(* knows nothing of costs no slot and no read: the keys whose renewal this *)
(* home holds (Known, serve/renewal.rs), and the keys it saves as one      *)
(* machine (Devices, serve/lookup.rs).  Each is read again when a stamp    *)
(* changed; the stamps are taken file by file, before the files are read   *)
(* one by one, and no lock is held.  What of the book's `me` cannot be     *)
(* read is left out of it (contacts/store.rs), and nobody is told.         *)
(***************************************************************************)
EXTENDS Naturals, Sequences

CONSTANTS
    List,      \* the lists: "known" and "saved", or one of them
    Key,       \* the keys of machines
    MaxWrite,  \* bound: how often a file changes
    MaxFault,  \* bound: how often a file cannot be looked at or read
    None

VARIABLES
    which,   \* the list this is about
    file,    \* what each file holds
    stamp,   \* each file's stamp: another after every write
    at,      \* how far a refresh is: the files it has looked at, then those it has read
    looked,  \* the stamps it took
    got,     \* what it read
    seen,    \* the stamps kept with the list
    live,    \* the list
    used,    \* the writes and the faults so far
    short    \* history: whether what is being read, and the list kept, leave out a part that could not be read

vars == <<which, file, stamp, at, looked, got, seen, live, used, short>>

\* What a file may hold: this home's root and the standing it signed; the keys of a list, of a book; that root revoked.
Holds ==
    [pin      |-> {None, "ours"},
     badge    |-> {None, "ours"},
     devices  |-> {None} \cup SUBSET Key,
     revoked  |-> {None, "ours"},
     contacts |-> {None} \cup SUBSET Key]

\* The order the stamps are taken in, and the order the files are read in; the book is read under a pin that is not
\* revoked, and the revocations it is checked against are not stamped for it.
Stamped == [known |-> <<"pin", "badge", "devices", "revoked">>, saved |-> <<"contacts", "pin", "devices">>]
Reads   == [known |-> <<"revoked", "pin", "badge", "devices">>, saved |-> <<"contacts", "pin", "revoked", "devices">>]

Used(l) == {Reads[l][i] : i \in DOMAIN Reads[l]}
Keys(v) == IF v = None THEN {} ELSE v

\* The root this home trusts: its pin, unless that root is revoked here.
Signet(f) == f.pin = "ours" /\ f.revoked = None

\* A device of a root, or a home that holds one, lists the update's keys; any other home lists none.
KnownList(f) == IF Signet(f) /\ f.badge = "ours" THEN Keys(f.devices) ELSE {}

\* The book's machines, and `me`, which is the list under the pin.
SavedList(f) == Keys(f.contacts) \cup (IF Signet(f) THEN Keys(f.devices) ELSE {})

Listed(l, f) == IF l = "known" THEN KnownList(f) ELSE SavedList(f)

Absent == 0
Unknown == 1

Init ==
    /\ which \in List
    /\ file \in [Used(which) -> {None}]
    /\ stamp = [f \in Used(which) |-> Unknown]
    /\ at = [step |-> "looking", next |-> 1]
    /\ looked = << >> /\ got = file
    /\ seen = << >> /\ live = {}
    /\ used = [writes |-> 0, faults |-> 0]
    /\ short = [read |-> FALSE, kept |-> FALSE]

\* What a look at a file finds: that it is not there, its stamp, or nothing when it could not be looked at.
Look(f) == IF file[f] = None THEN Absent ELSE stamp[f]

-----------------------------------------------------------------------------
\* A verb or an exchange writes a file, or removes it.
Write ==
    /\ used.writes < MaxWrite
    /\ \E f \in Used(which) : \E v \in Holds[f] \ {file[f]} :
          /\ f = "revoked" => v # None
          /\ file' = [file EXCEPT ![f] = v]
          /\ stamp' = [stamp EXCEPT ![f] = @ + 1]
    /\ used' = [used EXCEPT !.writes = @ + 1]
    /\ UNCHANGED <<which, at, looked, got, seen, live, short>>

\* Every second, and once before the node serves.
Refresh ==
    /\ at.step = "idle"
    /\ at' = [step |-> "looking", next |-> 1]
    /\ looked' = << >>
    /\ UNCHANGED <<which, file, stamp, got, seen, live, used, short>>

Stamp ==
    /\ at.step = "looking" /\ at.next <= Len(Stamped[which])
    /\ \E s \in {Look(Stamped[which][at.next]), Unknown} :
          /\ s = Unknown => used.faults < MaxFault
          /\ looked' = Append(looked, s)
          /\ used' = IF s = Unknown THEN [used EXCEPT !.faults = @ + 1] ELSE used
    /\ at' = [at EXCEPT !.next = @ + 1]
    /\ UNCHANGED <<which, file, stamp, got, seen, live, short>>

\* Nothing changed, and everything could be looked at: what was listed stands.
Compare ==
    /\ at.step = "looking" /\ at.next > Len(Stamped[which])
    /\ at' = IF looked = seen /\ \A i \in DOMAIN looked : looked[i] # Unknown
               THEN [step |-> "idle", next |-> 1] ELSE [step |-> "reading", next |-> 1]
    /\ short' = [short EXCEPT !.read = FALSE]
    /\ UNCHANGED <<which, file, stamp, looked, got, seen, live, used>>

Read ==
    /\ at.step = "reading" /\ at.next <= Len(Reads[which])
    /\ got' = [got EXCEPT ![Reads[which][at.next]] = file[Reads[which][at.next]]]
    /\ at' = [at EXCEPT !.next = @ + 1]
    /\ UNCHANGED <<which, file, stamp, looked, seen, live, used, short>>

\* The list is kept with the stamps taken before it was read.
Keep ==
    /\ at.step = "reading" /\ at.next > Len(Reads[which])
    /\ live' = Listed(which, got)
    /\ seen' = looked
    /\ short' = [short EXCEPT !.kept = short.read]
    /\ at' = [step |-> "idle", next |-> 1]
    /\ UNCHANGED <<which, file, stamp, looked, got, used>>

\* A read whose failure is heard of: all of the first list, and of the second the book alone. The list of devices is
\* read only where what was read before it says so.
Heard(f) ==
    IF which = "known" THEN f = "devices" => Signet(got) /\ got.badge = "ours" ELSE f = "contacts"

\* Mutant: a failed read is not tried again until a file changes.
UnreadableMarked ==
    /\ at.step = "reading" /\ at.next <= Len(Reads[which]) /\ Heard(Reads[which][at.next]) /\ used.faults < MaxFault
    /\ used' = [used EXCEPT !.faults = @ + 1]
    /\ seen' = looked
    /\ at' = [step |-> "idle", next |-> 1]
    /\ UNCHANGED <<which, file, stamp, looked, got, live, short>>

\* A file that cannot be read: the list stays, and so do the stamps it was read under.
Unreadable ==
    /\ at.step = "reading" /\ at.next <= Len(Reads[which]) /\ Heard(Reads[which][at.next]) /\ used.faults < MaxFault
    /\ used' = [used EXCEPT !.faults = @ + 1]
    /\ at' = [step |-> "idle", next |-> 1]
    /\ UNCHANGED <<which, file, stamp, looked, got, seen, live, short>>

\* A pin, the revocations or the list that cannot be read while the book is opened: there is no `me`, as where none is.
Swallow ==
    /\ which = "saved" /\ at.step = "reading" /\ at.next \in 2 .. Len(Reads[which]) /\ used.faults < MaxFault
    /\ LET f == Reads[which][at.next]
       IN /\ (f = "revoked" => got.pin = "ours") /\ (f = "devices" => Signet(got))
          /\ got' = [got EXCEPT ![IF f = "revoked" THEN "pin" ELSE f] = None]
    /\ used' = [used EXCEPT !.faults = @ + 1]
    /\ short' = [short EXCEPT !.read = TRUE]
    /\ at' = [at EXCEPT !.next = @ + 1]
    /\ UNCHANGED <<which, file, stamp, looked, seen, live>>

Next == Write \/ Refresh \/ Stamp \/ Compare \/ Read \/ Keep \/ Unreadable \/ Swallow

\* A refresh follows the one before, and ends.
Fairness == WF_vars(Refresh \/ Stamp \/ Compare \/ Read \/ Keep)

Spec == Init /\ [][Next]_vars /\ Fairness

-----------------------------------------------------------------------------
(* Properties                                                              *)

\* The stamps as they are now.
Now == [i \in DOMAIN Stamped[which] |-> Look(Stamped[which][i])]

\* A list that would not be read again has every key the files list: no key is refused that they stand for. (It may
\* have one more: a file that was made after it was looked at, read, and removed again; a root that was revoked.) It is
\* said of a list no part of which went unread in silence. serve/renewal.rs 93-115, serve/lookup.rs 151-190.
NoneMissing == seen = Now /\ ~short.kept => Listed(which, file) \subseteq live

\* What the code says of every list: "A book that cannot be read keeps what was read before, and is read again at the
\* next refresh" (serve/lookup.rs 152-153). The pin and the list of devices, which are files the book is read from
\* (173-174), do not keep it: a fault of theirs leaves `me` empty under the new stamps, until a file changes.
KeptWhole == seen = Now => Listed(which, file) \subseteq live
=============================================================================
