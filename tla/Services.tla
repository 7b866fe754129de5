------------------------------ MODULE Services ------------------------------
(***************************************************************************)
(* What a machine serves: the services and the off rows of                 *)
(* <home>/serve.toml, the commands that edit them under home.lock          *)
(* (service add, rm, on, off; serve_toml.rs, serve/serving.rs), and a      *)
(* `serve` from its claim to its end, which reads the file through one     *)
(* watcher: gives service only as it starts, takes it away live.           *)
(*                                                                         *)
(* The relay and the resolver the file also holds are left out.            *)
(***************************************************************************)
CONSTANTS
    Name,     \* the names of services
    Target,   \* what a name may serve
    Default,  \* what a home that recorded no list serves: a list
    None

VARIABLES
    file,   \* <home>/serve.toml
    serve,  \* the serve that runs here
    off,    \* history: the names turned off by hand and not given back since
    added   \* history: the names `service add` said the next start serves, and nobody took back since

vars == <<file, serve, off, added>>

\* A list gives its names a target each.
List == [Name -> Target \cup {None}]
Nothing == [n \in Name |-> None]
Names(list) == {n \in Name : list[n] # None}

\* "foreign" reads as TOML and lists what is no service, or one name twice.
Kinds == {"absent", "good", "foreign", "damaged", "unreadable"}
Absent == [kind |-> "absent", list |-> None, off |-> {}]

Off == [at |-> "off", started |-> Nothing, named |-> FALSE, list |-> None, off |-> {}, usable |-> TRUE,
        seen |-> FALSE, statted |-> FALSE]

Init ==
    /\ file = Absent
    /\ serve = Off
    /\ off = {} /\ added = {}

\* What a bare start serves of a list: the default when none was recorded.
Bare(list) == IF list = None THEN Default ELSE list

\* What the services are read as, and who cannot be read: a read of an absent file holds nothing.
Readable == file.kind \in {"absent", "good", "foreign"}
Listed == Bare(file.list)

-----------------------------------------------------------------------------
(* The edits, each one read and one write under home.lock                  *)

\* The file is written, when it changed: its stamp is another.
Writes(list, rows) ==
    IF file.kind = "good" /\ file.list = list /\ file.off = rows THEN UNCHANGED <<file, serve>>
    ELSE /\ file' = [kind |-> "good", list |-> list, off |-> rows]
         /\ serve' = [serve EXCEPT !.seen = FALSE, !.statted = FALSE]

Editable == file.kind \in {"absent", "good"}

\* service add: refused whole when one name is listed with another target. A listed name stays as it is, on or off.
Add(typed) ==
    LET fresh == Names(typed) \ Names(Listed)
    IN  /\ Editable
        /\ \A n \in Names(typed) : Listed[n] \in {None, typed[n]}
        /\ IF fresh = {} THEN UNCHANGED <<file, serve>>
           ELSE Writes([n \in Name |-> IF n \in fresh THEN typed[n] ELSE Listed[n]], file.off)
        /\ added' = added \cup fresh
        /\ UNCHANGED off

\* service rm: refused whole when one is not listed. An off row goes with its name.
Remove(names) ==
    /\ Editable /\ names \subseteq Names(Listed)
    /\ Writes([n \in Name |-> IF n \in names THEN None ELSE Listed[n]], file.off \ names)
    /\ off' = off \ names
    /\ added' = added \ names

\* service on, service off: of a listed name only. Neither changes the list.
TurnOn(n) ==
    /\ Editable /\ n \in Names(Listed) /\ n \in file.off
    /\ Writes(file.list, file.off \ {n})
    /\ off' = off \ {n}
    /\ UNCHANGED added

TurnOff(n) ==
    /\ Editable /\ n \in Names(Listed) /\ n \notin file.off
    /\ Writes(file.list, file.off \cup {n})
    /\ off' = off \cup {n}
    /\ added' = added \ {n}

\* A hand, a disk: the file goes, is spoiled, or comes back as it was.
Spoil(kind) ==
    /\ kind # file.kind
    /\ file' = IF kind = "absent" THEN Absent ELSE [file EXCEPT !.kind = kind]
    /\ serve' = [serve EXCEPT !.seen = FALSE, !.statted = FALSE]
    /\ off' = IF kind = "absent" THEN {} ELSE off
    /\ added' = {}

-----------------------------------------------------------------------------
(* A start                                                                 *)

\* The claim: one read, which settles what this run starts with. Nothing is written yet.
Claim(typed) ==
    /\ serve.at = "off" /\ Readable
    /\ typed = Nothing => file.kind # "foreign"
    /\ serve' = [at |-> "claimed", started |-> IF typed = Nothing THEN Listed ELSE typed, named |-> typed # Nothing,
                 list |-> file.list, off |-> file.off, usable |-> file.kind # "foreign",
                 seen |-> file.kind # "absent", statted |-> FALSE]
    /\ UNCHANGED <<file, off, added>>

\* A named start turns on only the names it adds; over a list that cannot be used, none.
TurnedOn(list) == IF file.kind = "foreign" THEN {} ELSE Names(list) \ Names(Listed)

\* Its routes bound, a named start records its list in place of the one the file holds by now.
Record ==
    /\ serve.at = "claimed"
    /\ IF ~Readable THEN serve' = Off /\ UNCHANGED <<file, off, added>>
       ELSE IF ~serve.named THEN serve' = [serve EXCEPT !.at = "recorded"] /\ UNCHANGED <<file, off, added>>
       ELSE LET rows == file.off \ TurnedOn(serve.started)
            IN  /\ file' = [kind |-> "good", list |-> serve.started, off |-> rows]
                /\ serve' = [serve EXCEPT !.at = "recorded",
                                          !.seen = @ /\ file = file', !.statted = FALSE]
                /\ off' = off \ (Names(serve.started) \ Names(Listed))
                /\ added' = added \cap Names(serve.started)

Stop ==
    /\ serve.at # "off"
    /\ serve' = Off
    /\ UNCHANGED <<file, off, added>>

-----------------------------------------------------------------------------
(* The watcher                                                             *)

\* Mutant: a read that finds no file holds nothing.
TakesAbsent(s, statted) ==
    CASE file.kind \in {"absent", "good"} -> [s EXCEPT !.list = file.list, !.off = file.off, !.usable = TRUE, !.seen = TRUE]
      [] file.kind \in {"foreign", "damaged"} -> [s EXCEPT !.seen = statted]
      [] file.kind = "unreadable" -> s

\* Only a read of a good file that is there replaces what is held. Contents that are refused are marked with the
\* stamp the stat gave; anything else is tried again.
Takes(s, statted) ==
    CASE file.kind = "good" -> [s EXCEPT !.list = file.list, !.off = file.off, !.usable = TRUE, !.seen = TRUE]
      [] file.kind \in {"foreign", "damaged"} -> [s EXCEPT !.seen = statted]
      [] file.kind \in {"absent", "unreadable"} -> s

\* What it wrote, or found, is read at once, and what it serves is fixed: then the first stream.
Serving ==
    /\ serve.at = "recorded"
    /\ serve' = [(IF file.kind = "absent" THEN serve ELSE Takes(serve, TRUE)) EXCEPT !.at = "serving"]
    /\ UNCHANGED <<file, off, added>>

\* A debounce after the last, the file is statted, by whoever asks: absent, or the stamp it has seen, ends it.
Stat ==
    /\ serve.at = "serving" /\ ~serve.seen
    /\ file.kind # "absent"
    /\ serve' = [serve EXCEPT !.at = "reading", !.statted = TRUE]
    /\ UNCHANGED <<file, off, added>>

Read ==
    /\ serve.at = "reading"
    /\ serve' = [Takes(serve, serve.statted) EXCEPT !.at = "serving", !.statted = FALSE]
    /\ UNCHANGED <<file, off, added>>

\* What the gate refuses: what is off, and what the list no longer runs.
Refuses(n) == n \in serve.off \/ (serve.usable /\ n \notin Names(Bare(serve.list)))

Serves(n) == serve.at \in {"serving", "reading"} /\ n \in Names(serve.started) /\ ~Refuses(n)

\* What the file holds that waits for the next start: a name added, or given another target.
Waits(n) == serve.usable /\ Bare(serve.list)[n] \notin {None, serve.started[n]}

Next ==
    \/ \E typed \in List : Add(typed) \/ Claim(typed)
    \/ \E names \in SUBSET Name \ {{}} : Remove(names)
    \/ \E n \in Name : TurnOn(n) \/ TurnOff(n)
    \/ \E kind \in Kinds : Spoil(kind)
    \/ Record \/ Serving \/ Stop \/ Stat \/ Read

Spec == Init /\ [][Next]_vars

-----------------------------------------------------------------------------
(* Properties                                                              *)

\* Every variable holds what it may.
TypeOK ==
    /\ file \in [kind : Kinds, list : List \cup {None}, off : SUBSET Name]
    /\ serve \in [at : {"off", "claimed", "recorded", "serving", "reading"}, started : List, named : BOOLEAN,
                  list : List \cup {None}, off : SUBSET Name, usable : BOOLEAN, seen : BOOLEAN, statted : BOOLEAN]
    /\ off \subseteq Name /\ added \subseteq Name

\* A start serves nothing that was turned off by hand and not given back: by `service on`, by its removal, by a named
\* start that lists it anew, or with the whole file (serving.rs 320-326).
OffStays == [][serve.at = "recorded" /\ serve'.at = "serving" /\ file.kind = "good" => \A n \in off : ~Serves(n)']_vars

\* A running serve gives back a service it refused only as it reads a good file that lists it and has it on: never
\* for a file that went missing or was spoiled, however the read races that (serve_toml.rs 13-17, 627-634).
GivenByFile ==
    [][\A n \in Name :
         serve.at \in {"serving", "reading"} /\ ~Serves(n) /\ Serves(n)' =>
            file.kind = "good" /\ n \in Names(Listed) \ file.off]_vars

\* When nothing waits and the file is the one it read, a restart would change nothing: each name is served now as
\* the next bare start would serve it (serve_toml.rs 19-24, 267-270).
RestartSame ==
    serve.at = "serving" /\ serve.seen /\ file.kind = "good" /\ (\A n \in Name : ~Waits(n)) =>
        \A n \in Name :
            /\ Serves(n) <=> n \in Names(Listed) \ file.off
            /\ Serves(n) => serve.started[n] = Listed[n]

\* What `service add` said is served when serve next starts is served by a bare start, when nobody took it away since
\* (service/edit.rs 122: `Added {name}; it is served when swoosh serve next starts.`).
AddedIsServed == [][serve.at = "recorded" /\ serve'.at = "serving" /\ ~serve.named =>
                        \A n \in added \cap Names(serve.started) : Serves(n)']_vars
=============================================================================
