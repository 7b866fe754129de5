------------------------------- MODULE People -------------------------------
(***************************************************************************)
(* The address book and who edits it: `contact add` and `contact rm`, a    *)
(* dial that learns a person's root from one of their machines, and the    *)
(* share that gives a link to a name (contacts.rs, contacts/store.rs,      *)
(* learn.rs, commands/learning.rs, commands/contact/, commands/share.rs).  *)
(* Every command opens the book afresh; a step that writes holds           *)
(* home.lock, and nothing waits on a person while it is held.              *)
(***************************************************************************)
CONSTANTS
    Person,  \* the names a person may be saved under
    Label,   \* the names a machine of theirs may have
    Key,     \* the keys typed or shown: machines' and roots', which look alike
    Root,    \* those that are roots
    Mine,    \* the keys in the list of your devices, which every open derives as me/
    Yours,   \* your own root, the pin
    Link,    \* the links this machine may give: each is also the share that gives it
    Proc,    \* the commands that may run at once
    None

VARIABLES
    book,  \* <home>/contacts.toml: for each person their machines, root, learned mark and the roots seen
    given, \* each link: the key it is bound to, as one machine or as a root (a fleet), and where it stands
    lock,  \* which command has home.lock while it makes two writes under it
    run    \* each command: where it is, and what it read

vars == <<book, given, lock, run>>

Nobody == [dev |-> [l \in Label |-> None], root |-> None, from |-> None, seen |-> [l \in Label |-> None]]
Idle == [at |-> "idle", p |-> None, l |-> None, old |-> None, new |-> None]

Init ==
    /\ book = [p \in Person |-> Nobody]
    /\ given = [x \in Link |-> [at |-> "none", holder |-> None, kind |-> "none"]]
    /\ lock = None
    /\ run = [i \in Proc |-> Idle]

-----------------------------------------------------------------------------
(* The book                                                                *)

\* The names that hold a key: <<p, None>> is the person, by their root.
Names(b, k) ==
    {n \in Person \X Label : b[n[1]].dev[n[2]] = k} \cup {<<p, None>> : p \in {q \in Person : b[q].root = k}}

\* saved_at: some name holds the key, in the book or in the list of your devices.
SavedAt(b, k) == Names(b, k) # {} \/ k \in Mine

\* What a machine argument names that the book saves as a contact's. A key typed bare is read as the name that holds it,
\* unless it is a root; a bare person is one machine only when one is saved: each is one of these.
Machines(b) ==
    {[key |-> b[n[1]].dev[n[2]], p |-> n[1], l |-> n[2]] : n \in {x \in Person \X Label : b[x[1]].dev[x[2]] # None}}

\* The keys a name stands for in the ledger.
Holders(b, p, l) ==
    (IF l = None THEN {b[p].dev[m] : m \in Label} \cup {b[p].root} ELSE {b[p].dev[l]}) \ {None}

Live(x) == given[x].at = "live"
LiveTo(keys) == {x \in Link : Live(x) /\ given[x].holder \in keys}
FleetTo(root) == {x \in LiveTo({root}) : given[x].kind = "fleet"}

WithRoot(b, p, r, from) == [b EXCEPT ![p].root = r, ![p].from = from]

\* save: only in an empty slot, and only a key no name holds; the same root again takes the learned mark off.
Saved(b, p, l, k) ==
    LET held == IF l = None THEN b[p].root ELSE b[p].dev[l]
    IN  IF held = None /\ ~SavedAt(b, k)
        THEN IF l = None THEN WithRoot(b, p, k, None) ELSE [b EXCEPT ![p].dev[l] = k]
        ELSE IF l = None /\ held = k THEN WithRoot(b, p, k, None) ELSE b

\* remove: a machine goes with the root it last showed; a root learned from it stays.
Removed(b, p, l) ==
    IF l = None THEN [b EXCEPT ![p] = Nobody] ELSE [b EXCEPT ![p].dev[l] = None, ![p].seen[l] = None]

\* What the next open of the file refuses: a learned mark with no root to mark, a root seen by a machine not saved.
Decodes(b) ==
    \A p \in Person : /\ b[p].from # None => b[p].root # None
                      /\ \A l \in Label : b[p].seen[l] # None => b[p].dev[l] # None

\* see_root: only a machine the book still holds remembers what it showed.
Seen(b, p, l, r) == IF b[p].dev[l] # None THEN [b EXCEPT ![p].seen[l] = r] ELSE b

\* learn: only an empty slot, and only a key no name here holds.
Learned(b, p, l, r) == IF b[p].root # None \/ SavedAt(b, r) THEN b ELSE WithRoot(b, p, r, l)

Goes(i, at) == run' = [run EXCEPT ![i].at = at]
Ends(i) == run' = [run EXCEPT ![i] = Idle]

-----------------------------------------------------------------------------
(* A dial, and what its machine shows                                      *)

\* The machine the verb dials is a contact's, and its answer, read once a stream is admitted, is a standing that
\* vouches for its key under some root. Any other answer, or none in time, teaches nothing.
Show(i) ==
    /\ run[i].at = "idle"
    /\ \E m \in Machines(book), r \in Root :
          /\ m.key \notin Mine
          /\ run' = [run EXCEPT ![i] = [at |-> "shown", p |-> m.p, l |-> m.l, old |-> None, new |-> r]]
    /\ UNCHANGED <<book, given, lock>>

SeenBefore(i) == book[run[i].p].seen[run[i].l] = run[i].new

\* Found::of: an empty slot for a root no name holds is offered.
Offered(i) ==
    /\ ~SeenBefore(i)
    /\ book[run[i].p].root = None
    /\ ~SavedAt(book, run[i].new)

\* Told after the node is closed, as the book reads now: quiet, a warning or a notice is remembered; an offer at a
\* terminal waits for its answer.
Tell(i) ==
    /\ run[i].at = "shown"
    /\ IF SeenBefore(i) THEN Ends(i)
       ELSE \/ Goes(i, "remembering")
            \/ Offered(i) /\ Goes(i, "offered")
    /\ UNCHANGED <<book, given, lock>>

\* Only y or yes saves.
Answer(i) ==
    /\ run[i].at = "offered"
    /\ \E at \in {"learning", "remembering"} : Goes(i, at)
    /\ UNCHANGED <<book, given, lock>>

Remember(i) ==
    /\ run[i].at = "remembering" /\ lock = None
    /\ book' = Seen(book, run[i].p, run[i].l, run[i].new)
    /\ Ends(i)
    /\ UNCHANGED <<given, lock>>

\* Under the lock the slot may have filled, or another name taken the key: then only the memory is saved.
Learn(i) ==
    /\ run[i].at = "learning" /\ lock = None
    /\ LET r == run[i]
       IN  book' = Seen(Learned(book, r.p, r.l, r.new), r.p, r.l, r.new)
    /\ Ends(i)
    /\ UNCHANGED <<given, lock>>

-----------------------------------------------------------------------------
(* contact add                                                             *)

AddMachine(p, l, k) ==
    /\ lock = None
    /\ book' = Saved(book, p, l, k)
    /\ book' # book
    /\ UNCHANGED <<given, lock, run>>

\* What is saved for the person is read first; another root there is replaced only at a terminal, and only by one no
\* name holds.
AddRoot(i, p, r) ==
    /\ run[i].at = "idle"
    /\ LET old == book[p].root
       IN  /\ old \notin {None, r} => ~SavedAt(book, r)
           /\ run' = [run EXCEPT ![i] = [at |-> IF old \in {None, r} THEN "adding" ELSE "typing",
                                         p |-> p, l |-> None, old |-> old, new |-> r]]
    /\ UNCHANGED <<book, given, lock>>

\* A slot that filled meanwhile refuses.
SaveRoot(i) ==
    /\ run[i].at = "adding" /\ lock = None
    /\ book' = Saved(book, run[i].p, None, run[i].new)
    /\ Ends(i)
    /\ UNCHANGED <<given, lock>>

\* The new root's token does not match, the terminal goes, or the command is killed.
GiveUp(i) ==
    /\ run[i].at \in {"typing", "offered", "shown", "remembering", "saving"}
    /\ Ends(i)
    /\ lock' = IF lock = i THEN None ELSE lock
    /\ UNCHANGED <<book, given>>

\* The name that holds the new root may only be this person's own root.
Replaceable(b, p, r) == r \notin Mine /\ Names(b, r) \subseteq {<<p, None>>}

\* Mutant: the root the person read is not looked at again.
RevokeOldUnread(i) ==
    /\ run[i].at = "typing" /\ lock = None
    /\ LET r == run[i]
       IN  IF book[r.p].root # None /\ Replaceable(book, r.p, r.new)
           THEN /\ given' = [x \in Link |-> IF x \in FleetTo(r.old)
                                            THEN [given[x] EXCEPT !.at = "ended"] ELSE given[x]]
                /\ Goes(i, "saving") /\ lock' = i
           ELSE Ends(i) /\ UNCHANGED <<given, lock>>
    /\ UNCHANGED book

\* Typed: under the lock the root saved must be the one that was shown. The live links bound to it as a root are read
\* again and revoked, and synced, before the book is written; one bound to the same key as a machine's is not among them.
RevokeOld(i) ==
    /\ run[i].at = "typing" /\ lock = None
    /\ LET r == run[i]
       IN  IF book[r.p].root = r.old /\ Replaceable(book, r.p, r.new)
           THEN /\ given' = [x \in Link |-> IF x \in FleetTo(r.old) THEN [given[x] EXCEPT !.at = "ended"] ELSE given[x]]
                /\ Goes(i, "saving") /\ lock' = i
           ELSE Ends(i) /\ UNCHANGED <<given, lock>>
    /\ UNCHANGED book

SaveReplaced(i) ==
    /\ run[i].at = "saving"
    /\ book' = WithRoot(book, run[i].p, run[i].new, None)
    /\ Ends(i) /\ lock' = None
    /\ UNCHANGED given

-----------------------------------------------------------------------------
(* contact rm                                                              *)

\* A contact with live links, of either kind, refuses.
Rm(p, l) ==
    /\ lock = None
    /\ LiveTo(Holders(book, p, l)) = {}
    /\ book' = Removed(book, p, l)
    /\ UNCHANGED <<given, lock, run>>

-----------------------------------------------------------------------------
(* share, revoke                                                           *)

\* The recipient is resolved once, from the book as it reads: a person is the root saved for them, never your own.
ShareWith(x, p, l) ==
    /\ given[x].at = "none"
    /\ LET k == IF l = None THEN book[p].root ELSE book[p].dev[l]
       IN  /\ k # None /\ ~(l = None /\ k = Yours)
           /\ given' = [given EXCEPT ![x] = [at |-> "bound", holder |-> k, kind |-> IF l = None THEN "fleet" ELSE "machine"]]
    /\ UNCHANGED <<book, lock, run>>

\* The key is unlocked and the link signed, then its row is appended under the lock: the book is not read again.
Sign(x) ==
    /\ given[x].at = "bound" /\ lock = None
    /\ given' = [given EXCEPT ![x].at = "live"]
    /\ UNCHANGED <<book, lock, run>>

\* Revoked, past its end, or never made.
EndLink(x) ==
    /\ given[x].at \in {"bound", "live"}
    /\ given' = [given EXCEPT ![x].at = "ended"]
    /\ UNCHANGED <<book, lock, run>>

Runs(i) ==
    \/ Show(i) \/ Tell(i) \/ Answer(i) \/ Remember(i) \/ Learn(i)
    \/ SaveRoot(i) \/ GiveUp(i) \/ RevokeOld(i) \/ SaveReplaced(i)

Next ==
    \/ \E i \in Proc : Runs(i)
    \/ \E i \in Proc, p \in Person, r \in Root : AddRoot(i, p, r)
    \/ \E p \in Person, l \in Label, k \in Key : AddMachine(p, l, k)
    \/ \E p \in Person, l \in Label \cup {None} : Rm(p, l)
    \/ \E x \in Link, p \in Person, l \in Label \cup {None} : ShareWith(x, p, l)
    \/ \E x \in Link : Sign(x) \/ EndLink(x)

Spec == Init /\ [][Next]_vars

-----------------------------------------------------------------------------
(* Properties                                                              *)

\* One key has one name here, whatever commands saved or learned it at once (contact/add.rs 14).
OneName ==
    \A k \in Key : (\A m, n \in Names(book, k) : m = n) /\ (k \in Mine => Names(book, k) = {})

\* Every book a command saves is one the next command opens: what it writes depends on a machine another may have
\* removed while this one dialed it or asked (contacts/store.rs 148-149, 168-171: "no state the book writes").
BookOpens == Decodes(book)

\* A root saved for a person changes into another only as the person typed it over the very root they were shown: never
\* by a machine that showed one, and never over a root saved while they typed (contact/add.rs 213-224, learn.rs 16-18).
ReplacedAsShown ==
    [][book' # book => \A p \in Person :
          LET old == book[p].root new == book'[p].root
          IN  old # None /\ new # None /\ new # old =>
                 \E i \in Proc : run[i].at = "saving" /\ run[i].p = p /\ run[i].old = old /\ run[i].new = new]_vars

\* A key no name holds any more has no live link at the moment its name goes: removing a contact refuses over live
\* links, and replacing a root ends them, those made while the person typed too. A replaced root's key may have been a
\* machine's name before: the links bound to it as that machine stay, and nothing else (contact/rm.rs 3-5, add.rs 285-298).
LeavesNoLink ==
    [][book' # book => \A k \in Key : Names(book, k) # {} /\ Names(book', k) = {} =>
          \A x \in Link : given[x].holder = k /\ given'[x].at = "live" =>
              given[x].kind # "fleet" /\ \E i \in Proc : run[i].at = "saving" /\ run[i].old = k]_vars

\* What contact/rm.rs 3-5 says that refusal is for: no live link is held by a key no name here finds. A share that read
\* the name before it was removed, and signs after, leaves one.
StillNamed == \A x \in Link : Live(x) => Names(book, given[x].holder) # {}
=============================================================================
