------------------------------- MODULE Links -------------------------------
(***************************************************************************)
(* The links this machine signs with its own key: `share` reads what the   *)
(* service is, signs, and records a row in <home>/links before it prints   *)
(* (share.rs, service_state.rs, grants.rs); `serve` admits a link while    *)
(* its row is there and for what it was made for, and a one-use link once  *)
(* (grants.rs, serve/scheme.rs); a new key puts the old key's rows aside   *)
(* (identity/replace.rs).  What revokes a link is in Gate.                 *)
(***************************************************************************)
EXTENDS Naturals, FiniteSets

CONSTANTS
    Link,     \* the links that may be made: each is also the share that makes it
    Once,     \* those made with --once, for anyone
    Bound,    \* those bound to a device or a fleet; the others are for anyone
    Key,      \* the keys this machine may have
    Target,   \* what the service may be
    Never,    \* the targets whose engine must never face an open gate
    PruneAt,  \* PRUNE_AT
    None

ASSUME LinksAssumption ==
    /\ Once \cup Bound \subseteq Link /\ Once \cap Bound = {}
    /\ Never \subseteq Target /\ PruneAt \in Nat
    /\ None \notin Link \cup Key \cup Target

Delegable == Link \ (Once \cup Bound)

VARIABLES
    key,      \* the key stored at machine/key
    saved,    \* what serve.toml says the service is
    lock,     \* who has home.lock
    link,     \* each link and the share that makes it
    expired,  \* the links past their end
    ledger,   \* <home>/links: its rows, whether it ends in a line cut short, whether it can be read
    spent,    \* <home>/links.used
    serve,    \* the serve that runs, and what its gate keeps
    admitted, \* history: whether each link was admitted, 2 for a one-use link admitted again
    split     \* history: a replacement of the key stopped before it put the rows aside

vars == <<key, saved, lock, link, expired, ledger, spent, serve, admitted, split>>
home == <<key, saved, ledger, spent, split>>

Unmade == [at |-> "none", key |-> None, made |-> None, basis |-> "none", kept |-> {}]
Off == [on |-> FALSE, key |-> None, bound |-> None, rows |-> {}, used |-> {}, due |-> FALSE, changed |-> FALSE, spending |-> None]

Init ==
    /\ key = None /\ lock = None
    /\ saved \in Target
    /\ link = [l \in Link |-> Unmade]
    /\ expired = {}
    /\ ledger = [rows |-> {}, torn |-> FALSE, readable |-> TRUE]
    /\ spent = {}
    /\ serve = Off
    /\ admitted = [l \in Link |-> 0]
    /\ split = FALSE

At(l) == link[l].at
Goes(l, at) == link' = [link EXCEPT ![l].at = at]

\* The key, made on first use; a key is never one this machine had before.
Spoken == {key} \cup {link[l].key : l \in Link}
Stored == IF key # None THEN {key} ELSE Key \ Spoken

\* The ledger is written: its stamp is another.
Writes(rows, torn) ==
    /\ ledger' = [ledger EXCEPT !.rows = rows, !.torn = torn]
    /\ serve' = [serve EXCEPT !.changed = serve.on]

-----------------------------------------------------------------------------
(* share                                                                   *)

Refuses(l, target) == target \in Never /\ l \in Delegable

\* What the service is: of the serve that runs, else what is saved for the next.
Ask(l) ==
    /\ At(l) = "none"
    /\ LET target == IF serve.on THEN serve.bound ELSE saved
       IN  link' = [link EXCEPT ![l] = [@ EXCEPT !.at = IF Refuses(l, target) THEN "over" ELSE "asked",
                                                 !.made = target, !.basis = IF serve.on THEN "live" ELSE "next"]]
    /\ UNCHANGED <<home, lock, expired, serve, admitted>>

\* A serve it read is still the one that runs, or nothing is signed; a next start may make the key.
Sign(l) ==
    /\ At(l) = "asked"
    /\ IF link[l].basis = "gone" THEN Goes(l, "over") /\ UNCHANGED key
       ELSE \E k \in Stored :
              /\ key' = k
              /\ link' = [link EXCEPT ![l].at = "signed", ![l].key = k]
    /\ UNCHANGED <<saved, ledger, spent, split, lock, expired, serve, admitted>>

Take(l) ==
    /\ At(l) = "signed" /\ lock = None
    /\ lock' = l
    /\ Goes(l, "locked")
    /\ UNCHANGED <<home, expired, serve, admitted>>

Same(l) == key = link[l].key /\ link[l].basis # "gone"

Expired(rows) == rows \cap expired

\* Under the lock the stored key and the pid are read again; then the ledger, for its expired rows.
Recheck(l) ==
    /\ At(l) = "locked"
    /\ IF Same(l) /\ ledger.readable
       THEN /\ link' = [link EXCEPT ![l].at = IF Cardinality(Expired(ledger.rows)) >= PruneAt
                                              THEN "pruning" ELSE "writing",
                                    ![l].kept = ledger.rows \ expired]
            /\ UNCHANGED lock
       ELSE Goes(l, "over") /\ lock' = None
    /\ UNCHANGED <<home, expired, serve, admitted>>

\* One atomic rewrite; a line that does not parse is kept, and ends its line.
Prune(l) ==
    /\ At(l) = "pruning"
    /\ Writes(link[l].kept, FALSE)
    /\ Goes(l, "writing")
    /\ UNCHANGED <<key, saved, spent, split, lock, expired, admitted>>

\* Mutant: the row joins a line a crash cut short, and neither reads.
AppendJoined(l) ==
    /\ At(l) = "writing"
    /\ Writes(IF ledger.torn THEN ledger.rows ELSE ledger.rows \cup {l}, FALSE)
    /\ Goes(l, "recorded")
    /\ UNCHANGED <<key, saved, spent, split, lock, expired, admitted>>

\* The row starts a line of its own and is synced.
AppendRow(l) ==
    /\ At(l) = "writing"
    /\ Writes(ledger.rows \cup {l}, FALSE)
    /\ Goes(l, "recorded")
    /\ UNCHANGED <<key, saved, spent, split, lock, expired, admitted>>

\* The write fails, or the process is killed in it: a line may be cut short.
AppendStops(l) ==
    /\ At(l) = "writing"
    /\ Writes(ledger.rows, TRUE)
    /\ Goes(l, "over") /\ lock' = None
    /\ UNCHANGED <<key, saved, spent, split, expired, admitted>>

\* home.lock is let go, then the link is printed or saved.
Prints(l) ==
    /\ At(l) = "recorded"
    /\ Goes(l, "printed")
    /\ lock' = IF lock = l THEN None ELSE lock
    /\ UNCHANGED <<home, expired, serve, admitted>>

\* Killed, or refused by what comes after: a row may be there for a link nobody holds.
Die(l) ==
    /\ At(l) \notin {"none", "printed", "over"}
    /\ Goes(l, "over")
    /\ lock' = IF lock = l THEN None ELSE lock
    /\ UNCHANGED <<home, expired, serve, admitted>>

-----------------------------------------------------------------------------
(* The gate of a serve                                                     *)

\* What a read of the ledger finds, and the uses its rows still need remembered. Unreadable: no row, and no stamp.
Read(s) ==
    IF ledger.readable
    THEN [s EXCEPT !.rows = ledger.rows, !.used = @ \cap ledger.rows \cap Once, !.due = FALSE, !.changed = FALSE]
    ELSE [s EXCEPT !.rows = {}, !.due = FALSE, !.changed = TRUE]

\* One stat per debounce; a file whose stamp is the same is not read again.
Refresh(s) == IF ~s.due THEN s ELSE IF s.changed THEN Read(s) ELSE [s EXCEPT !.due = FALSE]

\* The gate is built: links.used is read once, and the ledger.
Start ==
    /\ ~serve.on /\ lock = None
    /\ \E k \in Stored :
          /\ key' = k
          /\ serve' = Read([Off EXCEPT !.on = TRUE, !.key = k, !.bound = saved,
                                       !.used = spent])
    /\ UNCHANGED <<saved, lock, link, expired, ledger, spent, split, admitted>>

\* It ends, or is killed: no share that read it is still talking of the one that runs.
Stop ==
    /\ serve.on
    /\ serve' = Off
    /\ link' = [l \in Link |-> IF link[l].basis = "live" THEN [link[l] EXCEPT !.basis = "gone"] ELSE link[l]]
    /\ UNCHANGED <<home, lock, expired, admitted>>

Debounced ==
    /\ serve.on /\ ~serve.due
    /\ serve' = [serve EXCEPT !.due = TRUE]
    /\ UNCHANGED <<home, lock, link, expired, admitted>>

\* What nauthy's gate asks first (external): rooted at this machine's key, not ended.
Passes(l) == At(l) = "printed" /\ link[l].key = serve.key /\ l \notin expired

Admits(bound, made) == made = bound \/ (made = None /\ bound \notin Never)

Issued(s, l) == l \in s.rows /\ Admits(s.bound, link[l].made)

Counted(l) == [admitted EXCEPT ![l] = IF l \in Once /\ @ = 1 THEN 2 ELSE 1]

\* A link that admits until it ends.
Present(l) ==
    /\ serve.on /\ serve.spending = None /\ Passes(l) /\ l \notin Once
    /\ LET s == Refresh(serve)
       IN  serve' = s /\ admitted' = IF Issued(s, l) THEN Counted(l) ELSE admitted
    /\ UNCHANGED <<home, lock, link, expired>>

\* A one-use link that is not spent: its use is appended and synced before anything is admitted.
PresentOnce(l) ==
    /\ serve.on /\ serve.spending = None /\ Passes(l) /\ l \in Once
    /\ LET s == Refresh(serve)
       IN  serve' = IF Issued(s, l) /\ l \notin s.used THEN [s EXCEPT !.spending = l] ELSE s
    /\ UNCHANGED <<home, lock, link, expired, admitted>>

Spend(l) ==
    /\ serve.spending = l /\ l \notin spent
    /\ spent' = spent \cup {l}
    /\ UNCHANGED <<key, saved, ledger, split, lock, link, expired, serve, admitted>>

\* The append fails: the link is refused, and may be asked again.
SpendFails(l) ==
    /\ serve.spending = l /\ l \notin spent
    /\ serve' = [serve EXCEPT !.spending = None]
    /\ UNCHANGED <<key, saved, ledger, spent, split, lock, link, expired, admitted>>

AdmitOnce(l) ==
    /\ serve.spending = l /\ l \in spent
    /\ serve' = [serve EXCEPT !.spending = None, !.used = @ \cup {l}]
    /\ admitted' = Counted(l)
    /\ UNCHANGED <<home, lock, link, expired>>

-----------------------------------------------------------------------------
(* What else the home lives through                                        *)

\* leave --new-key: no serve runs. The new key is renamed into place, then the rows are put aside; it may stop
\* between the two.
NewKey(k) ==
    /\ lock = None /\ ~serve.on /\ key # None /\ k \notin Spoken
    /\ key' = k
    /\ \E stops \in BOOLEAN :
          /\ split' = (stops /\ ledger.rows # {})
          /\ ledger' = IF stops THEN ledger ELSE [rows |-> {}, torn |-> FALSE, readable |-> TRUE]
    /\ UNCHANGED <<saved, lock, spent, link, expired, serve, admitted>>

\* serve.toml gives the name another target; the serve that runs keeps the one it bound.
Retarget ==
    /\ \E t \in Target \ {saved} : saved' = t
    /\ UNCHANGED <<key, ledger, spent, split, lock, link, expired, serve, admitted>>

Expire(l) ==
    /\ At(l) \in {"printed", "over"} /\ l \notin expired
    /\ expired' = expired \cup {l}
    /\ UNCHANGED <<home, lock, link, serve, admitted>>

\* The file is made unreadable, or loose, or put right.
Chmod ==
    /\ ledger' = [ledger EXCEPT !.readable = ~@]
    /\ serve' = [serve EXCEPT !.changed = serve.on]
    /\ UNCHANGED <<key, saved, spent, split, lock, link, expired, admitted>>

Shares(l) ==
    Ask(l) \/ Sign(l) \/ Take(l) \/ Recheck(l) \/ Prune(l) \/ AppendRow(l) \/ AppendStops(l) \/ Prints(l) \/ Die(l)

Next ==
    \/ \E l \in Link : Shares(l) \/ PresentOnce(l) \/ Spend(l) \/ SpendFails(l) \/ AdmitOnce(l) \/ Expire(l) \/ Present(l)
    \/ \E k \in Key : NewKey(k)
    \/ Start \/ Stop \/ Debounced \/ Retarget \/ Chmod

Spec == Init /\ [][Next]_vars

-----------------------------------------------------------------------------
(* Properties                                                              *)

\* Every variable holds what it may.
TypeOK ==
    /\ key \in Key \cup {None} /\ saved \in Target /\ lock \in Link \cup {None}
    /\ \A l \in Link : link[l].key \in Key \cup {None} /\ link[l].made \in Target \cup {None}
    /\ ledger.rows \subseteq Link /\ spent \subseteq Once
    /\ serve.used \subseteq Once /\ serve.spending \in Once \cup {None}

\* A one-use link is admitted once, whatever is restarted, killed, unreadable or failed between (grants.rs
\* 426-434).
OnlyOnce == \A l \in Once : admitted[l] <= 1

\* A link somebody holds is in the ledger for as long as it lives and this machine has the key it is rooted at: no
\* crash, prune or other share loses its row (grants.rs 72-80). And the ledger names no link of another key, unless a
\* replacement of the key stopped half way.
RowsTrue ==
    /\ \A l \in Link : At(l) = "printed" /\ l \notin expired /\ link[l].key = key => l \in ledger.rows
    /\ split \/ \A l \in ledger.rows : link[l].key = key

\* What the gate goes by is what the file says, unless the file has changed since it was read or cannot be read
\* (grants.rs 419-425).
GateKnows ==
    serve.on /\ ~serve.changed => serve.rows = ledger.rows /\ ledger.readable

\* What the files of links say, and what the gate makes of them, is what this machine gave.
LinksTrue == TypeOK /\ OnlyOnce /\ RowsTrue /\ GateKnows
=============================================================================
