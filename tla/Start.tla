------------------------------- MODULE Start --------------------------------
(***************************************************************************)
(* How a `serve` comes up (main.rs, commands/serve.rs, serve/single.rs):   *)
(* it takes the home, reads serve.toml once, makes its inbox, makes or     *)
(* reads the machine's key, records the root it admits, binds, and only    *)
(* then saves what it was told; beside it another start, the commands that *)
(* edit serve.toml, and the links given here.                              *)
(*                                                                         *)
(* home.lock is held only across one of these steps.  What happens once it *)
(* serves is in Serve and Services; who may hold a pin, in Home.           *)
(***************************************************************************)
EXTENDS Entries

CONSTANTS
    Typed,    \* the lists of lines a start may be typed
    Opened,   \* the names it may open with --public
    Edited,   \* the lists another command, or a hand, may leave in serve.toml
    Relay,    \* the relays a start may be pointed at
    Root,     \* the roots it may admit with --admit
    Proc

VARIABLES
    file,   \* <home>/serve.toml: the list, the relay
    key,    \* whether <home>/machine/key is there
    inbox,  \* whether the inbox is
    holder, \* who holds serve.lock
    record, \* what serve.lock says: who serves, which root it admits
    run,    \* each start
    last    \* history: the list a start saved last, and where each of its entries led

vars == <<file, key, inbox, holder, record, run, last>>

Nothing == [by |-> None, admit |-> None]

Idle == [at |-> "idle", cwd |-> None, typed |-> {}, open |-> {}, flag |-> None, admit |-> None, first |-> None,
         entries |-> {}, bound |-> {}, engines |-> {}, relay |-> None, said |-> {}]

Init ==
    /\ file = [list |-> None, relay |-> None]
    /\ key = FALSE /\ inbox = FALSE
    /\ holder = None /\ record = Nothing
    /\ run = [p \in Proc |-> Idle]
    /\ last = [list |-> None, bound |-> {}]

At(p) == run[p].at
Step(p, r) == run' = [run EXCEPT ![p] = r]

\* It ends, and nothing it holds stays: the lock empties its record as it is let go.
LetsGo(p) ==
    /\ Step(p, Idle)
    /\ holder' = IF holder = p THEN None ELSE holder
    /\ record' = IF holder = p THEN Nothing ELSE record

\* A start as it was typed: where, its services, the names it opens, its relay, the root it admits.
Command(cwd, entries, open, flag, root) ==
    [Idle EXCEPT !.at = "held", !.cwd = cwd, !.typed = entries, !.open = open, !.flag = flag, !.admit = root]

\* serve.lock is taken, and this process recorded in it with no root, under home.lock. A start that finds it held says
\* how to add what it was typed, and leaves everything as it was; a mistyped list exits before anything is taken.
Take(p) ==
    /\ At(p) = "idle" /\ holder = None
    /\ holder' = p
    /\ record' = [by |-> p, admit |-> None]
    /\ \E typed \in Typed, cwd \in Cwd, open \in SUBSET Opened, flag \in Relay \cup {None}, root \in Root \cup {None} :
          LET entries == {ServiceEntry(line) : line \in typed}
          IN  ~Mistyped(entries) /\ Step(p, Command(cwd, entries, open, flag, root))
    /\ UNCHANGED <<file, key, inbox, last>>

\* serve.toml is read once. Named entries are made absolute where they were typed.
Started(r, list) == IF r.typed # {} THEN {Saved(e, r.cwd) : e \in r.typed} ELSE Bare(list)

\* The services are settled, the links they would refuse are said, then the inbox is made.
Claim(p) ==
    /\ At(p) = "held"
    /\ LET entries == Started(run[p], file.list)
       IN  IF Refused \in entries THEN LetsGo(p) /\ UNCHANGED inbox
           ELSE /\ Step(p, [run[p] EXCEPT !.at = "claimed", !.first = file, !.entries = entries])
                /\ inbox' = (inbox \/ \E e \in entries : e.scheme = "recv" /\ Out(e) = "inbox")
                /\ UNCHANGED <<holder, record>>
    /\ UNCHANGED <<file, key, last>>

\* The key is read, or made on first use.
Keyed(p) ==
    /\ At(p) = "claimed"
    /\ key' = TRUE
    /\ Step(p, [run[p] EXCEPT !.at = "keyed"])
    /\ UNCHANGED <<file, inbox, holder, record, last>>

\* The root it admits is recorded under home.lock; a root refused for what it is, or for the pin held, ends the start.
Admit(p) ==
    /\ At(p) = "keyed"
    /\ Step(p, [run[p] EXCEPT !.at = "admitting"])
    /\ record' = [record EXCEPT !.admit = run[p].admit]
    /\ UNCHANGED <<file, key, inbox, holder, last>>

\* The flag given, else what the one read of serve.toml held.
Reach(r) == IF r.flag # None THEN r.flag ELSE r.first.relay

\* Each name it opens must be bound, to an engine that may face anyone.
Proven(r, engines) == \A n \in r.open : \E x \in engines : x.name = n /\ x.engine \notin {"owner", "sshd", "recv"}

\* The routes bind, each entry by its own arm, and the open ones are proved, or the start ends.
Bind(p) ==
    /\ At(p) = "admitting"
    /\ LET r == run[p]
           engines == {[name |-> e.name, engine |-> Engine(e, r.open)] : e \in r.entries}
       IN  IF (\A e \in r.entries : Binds(e)) /\ Proven(r, engines)
           THEN /\ Step(p, [r EXCEPT !.at = "bound", !.engines = engines, !.relay = Reach(r),
                                     !.bound = {Leads(e, r.cwd) : e \in r.entries}])
                /\ UNCHANGED <<holder, record>>
           ELSE LetsGo(p)
    /\ UNCHANGED <<file, key, inbox, last>>

\* What a named list drops of the one recorded: a list that cannot be read, or none, drops nothing that is said.
Replaced(r, list) ==
    IF r.typed = {} \/ list = None \/ Refused \in Bare(list) THEN {} ELSE {e \in Bare(list) : e \notin r.entries}

\* Once it serves: the root it admits, and what it said its list dropped.
Serving(r, said) == [Idle EXCEPT !.at = "serving", !.admit = r.admit, !.said = said]

\* Mutant: the file is written as the start read it, with what it was told.
SaveOver(p) ==
    /\ At(p) = "bound"
    /\ LET r == run[p]
       IN  /\ file' = [list |-> IF r.typed # {} THEN r.entries ELSE r.first.list,
                       relay |-> IF r.flag # None THEN r.flag ELSE r.first.relay]
           /\ Step(p, Serving(r, Replaced(r, file.list)))
           /\ last' = IF r.typed # {} THEN [list |-> r.entries, bound |-> r.bound] ELSE last
    /\ UNCHANGED <<key, inbox, holder, record>>

\* One write under home.lock, over the file as it is by now: only what was typed is saved, and what that drops is said.
Save(p) ==
    /\ At(p) = "bound"
    /\ LET r == run[p]
       IN  /\ file' = [list |-> IF r.typed # {} THEN r.entries ELSE file.list,
                       relay |-> IF r.flag # None THEN r.flag ELSE file.relay]
           /\ Step(p, Serving(r, Replaced(r, file.list)))
           /\ last' = IF r.typed # {} THEN [list |-> r.entries, bound |-> r.bound] ELSE last
    /\ UNCHANGED <<key, inbox, holder, record>>

\* A stop, or any failure on the way: the key's passphrase, a socket, the transport.
Stop(p) ==
    /\ At(p) # "idle"
    /\ LetsGo(p)
    /\ UNCHANGED <<file, key, inbox, last>>

\* Killed: the flock goes with the process, the record stays.
Die(p) ==
    /\ At(p) # "idle" /\ holder = p
    /\ Step(p, Idle) /\ holder' = None
    /\ UNCHANGED <<file, key, inbox, record, last>>

\* Another command, or a hand, under home.lock: `service add` and `rm`, an edit of the file.
Edit ==
    /\ \E list \in Edited \cup {file.list}, relay \in Relay \cup {file.relay} :
          file' = [list |-> list, relay |-> relay]
    /\ UNCHANGED <<key, inbox, holder, record, run, last>>

Starts(p) ==
    \/ Take(p) \/ Claim(p) \/ Keyed(p) \/ Admit(p) \/ Bind(p) \/ Save(p) \/ Stop(p) \/ Die(p)

Next == (\E p \in Proc : Starts(p)) \/ Edit

Spec == Init /\ [][Next]_vars

-----------------------------------------------------------------------------
(* Properties                                                              *)

GivenBack(e) == ServiceEntry(AsTyped(e)) = e

\* A line that is printed back to be typed gives the very entry it was printed for: what a refused second start says
\* to add is what it was typed (commands/serve.rs 402-434, serve.rs 244-264). It does not for an inbox that is named
\* recv and whose directory has an = in its path.
TypedBack ==
    \A p \in Proc : \A e \in run[p].typed :
        ~(e.name = "recv" /\ e.scheme = "recv" /\ HoldsEquals(e.arg)) => GivenBack(e)

\* What serve.rs 244-247 says of every entry: "What a line that hands an entry back to the person prints, so the command
\* it shows is the shortest that works". recv:/a=b is shorter, and is refused (203-213).
PrintedWorks == \A p \in Proc : \A e \in run[p].typed : GivenBack(e)

\* What `join` asks of serve.lock is true: while it is held it names the root the run's gate admits, once the gate is
\* built, and none before, whatever a run that was killed left recorded (home/lock.rs 271-278).
RecordTrue ==
    holder # None =>
        record = [by |-> holder,
                  admit |-> IF At(holder) \in {"admitting", "bound", "serving"} THEN run[holder].admit ELSE None]

\* A bare start serves what the file it read holds, over the relay that same read held, whatever is written to it
\* between; and when the file holds the list a named start saved it serves what that one did, whatever directory each
\* was started in (serving.rs 27-29, main.rs 970-976, commands/serve.rs 449-451).
ResumesSame ==
    \A p \in Proc :
        At(p) = "bound" =>
            /\ run[p].flag = None => run[p].relay = run[p].first.relay
            /\ run[p].typed = {} => run[p].entries = Bare(run[p].first.list)
            /\ run[p].typed = {} /\ run[p].first.list # None /\ run[p].first.list = last.list =>
                  run[p].bound = last.bound

\* Saving loses nothing: what was not typed stays as another command left it while the start came up, and each entry a
\* named list drops from the file it writes over is said (commands/serve.rs 630-645, transport.rs 115-120).
SavesAsTyped ==
    [][\A p \in Proc :
          At(p) = "bound" /\ At(p)' = "serving" =>
             /\ run[p].flag = None => file'.relay = file.relay
             /\ run[p].typed = {} => file'.list = file.list
             /\ run[p].typed # {} /\ file.list # None /\ Refused \notin Bare(file.list) =>
                  Bare(file.list) \ Bare(file'.list) \subseteq run'[p].said]_vars
=============================================================================
