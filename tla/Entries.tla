------------------------------ MODULE Entries -------------------------------
(***************************************************************************)
(* What a person types to serve: a service entry, from the line typed to   *)
(* the route it binds, and what a link made for a name may reach           *)
(* (serve.rs, serve/scheme.rs, serve/serving.rs).                          *)
(*                                                                         *)
(* A line is cut where its first = and its first : are: a name, a scheme   *)
(* and what follows it.  An argument is one of the few the code tells      *)
(* apart: nothing, a path typed relative, a directory, one with an = in    *)
(* its name, a site, a page of it, a site of another kind, an address.     *)
(***************************************************************************)
EXTENDS Naturals, FiniteSets

CONSTANTS
    Cwd,  \* the directories a shell may be in, absolute
    None

Schemes == {"ping", "speed", "sshd", "recv", "proxy", "tcp", "unix", "file", "fifo", "stdin", "echo"}

\* The schemes whose argument is a path on this machine.
PathSchemes == {"recv", "unix", "file", "fifo"}

BuiltIn == {<<"ping", "ping">>, <<"speed", "speed">>, <<"ssh", "sshd">>}

Entry(name, scheme, arg) == [name |-> name, scheme |-> scheme, arg |-> arg]

DefaultServices == {Entry(b[1], b[2], "") : b \in {x \in BuiltIn : x[1] # "ssh"}}

Refused == Entry(None, "refused", "")

\* The one name rule folds a name's case, and refuses one it does not allow.
Fold(name) == IF name = "DB" THEN "db" ELSE name
IsName(name) == name \notin {"control.stop", "-h"}

\* A proxy's URL is one http origin: no path, no query, never empty. One that does not parse passes here.
IsOrigin(url) == url \in {"site", "unparsed"}

\* A directory whose path holds an =.
HoldsEquals(arg) == arg = "/a=b"

\* A typed line has no name, or no target: a word alone is ("bare", word), a port alone ("port", n). A line with no name
\* is cut at an = its argument holds, and what is left of it there (recv:/a) is no name; a proxy's URL is read whole.
ServiceEntry(line) ==
    IF line.scheme = "proxy" /\ ~IsOrigin(line.arg) THEN Refused
    ELSE IF line.name # None THEN IF IsName(line.name) THEN [line EXCEPT !.name = Fold(@)] ELSE Refused
    ELSE IF line.scheme # "proxy" /\ HoldsEquals(line.arg) THEN Refused
    ELSE CASE line.scheme \in {"proxy", "recv"} -> [line EXCEPT !.name = line.scheme]
           [] line.scheme = "bare" ->
                 LET word == Fold(line.arg)
                 IN  IF ~IsName(word) \/ word = "proxy" THEN Refused
                     ELSE IF \E b \in BuiltIn : b[1] = word
                          THEN Entry(word, (CHOOSE b \in BuiltIn : b[1] = word)[2], "")
                          ELSE [line EXCEPT !.arg = word]
           [] OTHER -> line

\* The line an entry is printed as, to be typed again.
AsTyped(entry) ==
    CASE <<entry.name, entry.scheme>> \in BuiltIn /\ entry.arg = "" -> Entry(None, "bare", entry.name)
      [] entry.name = entry.scheme /\ entry.scheme \in {"proxy", "recv"} -> [entry EXCEPT !.name = None]
      [] OTHER -> entry

Twice(entries) == \E e, f \in entries : e # f /\ e.name = f.name

\* Typed services that cannot be one list: a usage error, before anything is read.
Mistyped(entries) == Twice(entries) \/ \E e \in entries : e.name = None \/ e.scheme = "port"

\* As the list saves it: a path is made absolute; recv: with none is the inbox, never the current directory.
Saved(entry, cwd) ==
    IF entry.scheme \in PathSchemes /\ entry.arg \in {"", "here"} /\ ~(entry.scheme = "recv" /\ entry.arg = "")
    THEN [entry EXCEPT !.arg = cwd] ELSE entry

\* What a bare start reads of the list a home recorded: a line that is no service, or one name twice, refuses it all.
Bare(list) ==
    IF list = None THEN DefaultServices
    ELSE LET entries == {ServiceEntry(line) : line \in list}
         IN  IF Twice(entries) \/ \E e \in entries : e.name = None THEN {Refused} ELSE entries

-----------------------------------------------------------------------------
(* What binds an entry                                                     *)

Exact == {"ping", "speed", "sshd", "stdin", "echo"}

\* swoosh's engines take no argument, a proxy needs its origin to parse, tightbeam's grammar reads the rest.
Binds(entry) ==
    /\ entry.scheme \in Schemes
    /\ entry.scheme \in Exact => entry.arg = ""
    /\ entry.scheme = "proxy" => entry.arg = "site"

\* The engine under a name: an open diagnostic is the metered one, any other has the owner's limits.
Engine(entry, open) ==
    IF entry.scheme \in {"ping", "speed"} THEN (IF entry.name \in open THEN "metered" ELSE "owner") ELSE entry.scheme

\* A receive service's directory: the inbox, which the start makes, or the one it names.
Out(entry) == IF entry.arg = "" THEN "inbox" ELSE entry.arg

\* Where an entry leads when it is bound by a process in a directory.
Leads(entry, cwd) == IF entry.scheme \in PathSchemes /\ entry.arg = "here" THEN [entry EXCEPT !.arg = cwd] ELSE entry

=============================================================================
