------------------------------- MODULE Serve -------------------------------
(***************************************************************************)
(* The processes that want one home's serve.lock: every `serve`, from its  *)
(* claim to its teardown, and a command that replaces this machine's key   *)
(* (serve/single.rs, home/lock.rs, commands/serve.rs); and the calls that  *)
(* ask a running one to stop, over the wire (serve/stop.rs) and over its   *)
(* socket (serve/resident.rs, node_client.rs).                             *)
(*                                                                         *)
(* Time is kept as what the code compares: how old the gate's last stat of *)
(* `revoked` is, and how long the first round still holds control.stop.    *)
(***************************************************************************)
EXTENDS Naturals

CONSTANTS
    Start,     \* the processes that run `swoosh serve`
    Changer,   \* the processes that replace this machine's key
    Device,    \* the devices that call control.stop
    Local,     \* the commands that stop the serve of this home over its socket
    Debounce,  \* STAT_DEBOUNCE, in ticks
    None

Proc == Start \cup Changer
Caller == Device \cup Local

ASSUME ServeAssumption ==
    /\ Start \cap Changer = {} /\ Device \cap Local = {}
    /\ None \notin Proc \cup Caller \cup {"interrupted"}
    /\ Debounce \in Nat \ {0}

VARIABLES
    homeLock,   \* who has home.lock
    serveLock,  \* who has serve.lock
    record,     \* whose pid serve.lock records
    leaf,       \* whether the runtime directory of this home is there
    socket,     \* who bound the socket that is in it
    spoiled,    \* history: a process died, or gave up, without removing what it had made
    revoked,    \* the devices <home>/revoked refuses
    run,        \* each process
    call        \* each call

vars == <<homeLock, serveLock, record, leaf, socket, spoiled, revoked, run, call>>
files == <<record, leaf, socket, spoiled>>

Rest == [at |-> "idle", found |-> None, cached |-> {}, age |-> 0,
         heard |-> {}, wait |-> 0, round |-> "none",
         cancelled |-> FALSE, expired |-> FALSE, source |-> None]

Silent == [at |-> "none", to |-> None, late |-> FALSE]

Init ==
    /\ homeLock = None /\ serveLock = None
    /\ record = None /\ leaf = FALSE /\ socket = None /\ spoiled = FALSE
    /\ revoked = {}
    /\ run = [p \in Proc |-> Rest]
    /\ call = [c \in Caller |-> Silent]

At(p) == run[p].at
Goes(p, at) == run' = [run EXCEPT ![p].at = at]

-----------------------------------------------------------------------------
(* The claim                                                               *)

TakeHome(p) ==
    /\ At(p) = "idle" /\ homeLock = None
    /\ homeLock' = p
    /\ Goes(p, "home")
    /\ UNCHANGED <<serveLock, files, revoked, call>>

\* Mutant: what the last holder recorded stays.
TakeServeKept(p) ==
    /\ At(p) = "home" /\ serveLock = None
    /\ serveLock' = p
    /\ Goes(p, "taken")
    /\ UNCHANGED <<homeLock, files, revoked, call>>

\* serve.lock is taken without waiting, and emptied.
TakeServe(p) ==
    /\ At(p) = "home" /\ serveLock = None
    /\ serveLock' = p
    /\ record' = None
    /\ Goes(p, "taken")
    /\ UNCHANGED <<homeLock, leaf, socket, spoiled, revoked, call>>

\* Refused: another process has it. A key replacement says no more; a serve reads who, with no lock.
Lose(p) ==
    /\ At(p) = "home" /\ serveLock # None
    /\ run' = [run EXCEPT ![p] = IF p \in Start THEN [@ EXCEPT !.at = "lost", !.found = serveLock] ELSE Rest]
    /\ homeLock' = IF p \in Start THEN p ELSE None
    /\ UNCHANGED <<serveLock, files, revoked, call>>

\* `already running (pid)`, or `this machine's key is being replaced` when nobody is recorded.
Tell(p) ==
    /\ At(p) = "lost"
    /\ run' = [run EXCEPT ![p] = Rest]
    /\ homeLock' = None
    /\ UNCHANGED <<serveLock, files, revoked, call>>

\* A serve records its pid before it lets home.lock go. A key replacement records nothing.
Record(p) ==
    /\ At(p) = "taken"
    /\ record' = IF p \in Start THEN p ELSE record
    /\ Goes(p, IF p \in Start THEN "recorded" ELSE "emptying")
    /\ homeLock' = None
    /\ UNCHANGED <<serveLock, leaf, socket, spoiled, revoked, call>>

MakeLeaf(p) ==
    /\ At(p) = "recorded"
    /\ leaf' = TRUE
    /\ Goes(p, "leaf")
    /\ UNCHANGED <<homeLock, serveLock, record, socket, spoiled, revoked, call>>

Listens(p) == socket = p /\ At(p) \in {"claimed", "serving"}

\* The probe answers ENOENT or ECONNREFUSED: nobody listens at the path, so what is there is reclaimed.
Bind(p) ==
    /\ At(p) = "leaf" /\ \A q \in Start : ~Listens(q)
    /\ socket' = p
    /\ Goes(p, "claimed")
    /\ UNCHANGED <<homeLock, serveLock, record, leaf, spoiled, revoked, call>>

\* An insecure directory, a socket that answers, a bind that fails: only serve.lock is given back.
GiveUp(p) ==
    /\ At(p) \in {"recorded", "leaf"}
    /\ Goes(p, "emptying")
    /\ spoiled' = (spoiled \/ leaf)
    /\ UNCHANGED <<homeLock, serveLock, record, leaf, socket, revoked, call>>

-----------------------------------------------------------------------------
(* The run                                                                 *)

\* The gate is built and the exposer bound, with control.stop held.
Run(p) ==
    /\ At(p) = "claimed"
    /\ run' = [run EXCEPT ![p].at = "serving", ![p].cached = revoked, ![p].age = 0, ![p].round = "asking"]
    /\ UNCHANGED <<homeLock, serveLock, files, revoked, call>>

\* An exchange of p folds the revocation of d.
HearOf(p, d) ==
    /\ At(p) = "serving" /\ d \notin revoked
    /\ revoked' = revoked \cup {d}
    /\ run' = [run EXCEPT ![p].heard = IF run[p].round = "asking" THEN @ \cup {d} ELSE @]
    /\ UNCHANGED <<homeLock, serveLock, files, call>>

\* Mutant: control.stop opens as soon as the round has ended.
RoundEndsAtOnce(p) ==
    /\ At(p) = "serving" /\ run[p].round = "asking"
    /\ run' = [run EXCEPT ![p].round = "waiting"]
    /\ UNCHANGED <<homeLock, serveLock, files, revoked, call>>

\* The first round ends: one that asked a device waits out one debounce, one that asked none heard nothing.
RoundEnds(p) ==
    /\ At(p) = "serving" /\ run[p].round = "asking"
    /\ \E asked \in BOOLEAN :
          /\ run[p].heard # {} => asked
          /\ run' = [run EXCEPT ![p].round = "waiting", ![p].wait = IF asked THEN Debounce ELSE 0]
    /\ UNCHANGED <<homeLock, serveLock, files, revoked, call>>

\* Mutant: only a round that brought something new opens it.
OpenNewer(p) ==
    /\ At(p) = "serving" /\ run[p].round = "waiting" /\ run[p].wait = 0 /\ run[p].heard # {}
    /\ run' = [run EXCEPT ![p].round = "over"]
    /\ UNCHANGED <<homeLock, serveLock, files, revoked, call>>

Open(p) ==
    /\ At(p) = "serving" /\ run[p].round = "waiting" /\ run[p].wait = 0
    /\ run' = [run EXCEPT ![p].round = "over"]
    /\ UNCHANGED <<homeLock, serveLock, files, revoked, call>>

IsOpen(p) == run[p].round = "over"

Older(r) == [r EXCEPT !.age = IF @ < Debounce THEN @ + 1 ELSE @, !.wait = IF @ > 0 THEN @ - 1 ELSE 0]

Tick ==
    /\ \E p \in Start : At(p) = "serving" /\ run[p] # Older(run[p])
    /\ run' = [p \in Proc |-> IF At(p) = "serving" THEN Older(run[p]) ELSE run[p]]
    /\ UNCHANGED <<homeLock, serveLock, files, revoked, call>>

\* The devices p's gate refuses, asked now: the file is statted again once the last stat is a debounce old.
Refused(p) == IF run[p].age >= Debounce THEN revoked ELSE run[p].cached
Asked(p) == [run EXCEPT ![p].cached = Refused(p), ![p].age = IF @ >= Debounce THEN 0 ELSE @]

-----------------------------------------------------------------------------
(* Stopping it                                                             *)

\* The gate admits a device, then asks whether control.stop is enabled before anything is answered.
Admit(c, p) ==
    /\ c \in Device /\ call[c] = Silent
    /\ At(p) = "serving" /\ ~run[p].cancelled
    /\ run' = Asked(p)
    /\ call' = IF c \in Refused(p) THEN call
               ELSE [call EXCEPT ![c] = [Silent EXCEPT !.at = "admitted", !.to = p, !.late = IsOpen(p)]]
    /\ UNCHANGED <<homeLock, serveLock, files, revoked>>

Enabled(c) ==
    /\ c \in Device /\ call[c].at = "admitted"
    /\ call' = [call EXCEPT ![c] = IF IsOpen(call[c].to) THEN [@ EXCEPT !.at = "running"] ELSE Silent]
    /\ UNCHANGED <<homeLock, serveLock, files, revoked, run>>

\* A local command connects to whoever listens at the path, and only then reads whom serve.lock records.
Connect(c) ==
    /\ c \in Local /\ call[c] = Silent
    /\ \E p \in Start :
          /\ Listens(p) /\ At(p) = "serving" /\ ~run[p].cancelled
          /\ call' = [call EXCEPT ![c] = [Silent EXCEPT !.at = "admitted", !.to = p]]
    /\ UNCHANGED <<homeLock, serveLock, files, revoked, run>>

Attribute(c) ==
    /\ c \in Local /\ call[c].at = "admitted"
    /\ call' = [call EXCEPT ![c] = IF record = call[c].to THEN [@ EXCEPT !.at = "running"] ELSE Silent]
    /\ UNCHANGED <<homeLock, serveLock, files, revoked, run>>

\* The ack is written first. From here the stop is owed, whatever becomes of the stream or of the handler.
Ack(c) ==
    /\ call[c].at = "running"
    /\ call' = [call EXCEPT ![c].at = "armed"]
    /\ UNCHANGED <<homeLock, serveLock, files, revoked, run>>

Noted(p, who) == IF run[p].source = None THEN who ELSE run[p].source

\* Mutant: the node is cancelled first.
NoteLate(c) ==
    /\ call[c].at = "armed"
    /\ call' = [call EXCEPT ![c].at = "noted"]
    /\ run' = [run EXCEPT ![call[c].to].cancelled = TRUE]
    /\ UNCHANGED <<homeLock, serveLock, files, revoked>>

\* The caller closes, the grace ends, or the handler is dropped: the source is noted, then the node cancelled.
Note(c) ==
    /\ call[c].at = "armed"
    /\ call' = [call EXCEPT ![c].at = "noted"]
    /\ run' = [run EXCEPT ![call[c].to].source = Noted(call[c].to, c)]
    /\ UNCHANGED <<homeLock, serveLock, files, revoked>>

Cancel(c) ==
    /\ call[c].at = "noted"
    /\ call' = [call EXCEPT ![c] = Silent]
    /\ run' = [run EXCEPT ![call[c].to].cancelled = TRUE]
    /\ UNCHANGED <<homeLock, serveLock, files, revoked>>

\* Mutant: a handler stops the node when it returns, and only then.
DroppedUnarmed(c) == Silent

\* What a handler dropped before its stop fires still does: one that has acked stops the node all the same.
Dropped(c) ==
    IF call[c].at = "armed" THEN [call[c] EXCEPT !.at = "noted"] ELSE Silent

DropNotes(c) == call[c].at = "armed"

\* The live cut: a sweep ends the session of a device that is revoked by now.
CutSession(c) ==
    /\ c \in Device /\ call[c].at \in {"admitted", "running", "armed"}
    /\ LET p == call[c].to
       IN  /\ c \in Refused(p)
           /\ run' = IF DropNotes(c) THEN [Asked(p) EXCEPT ![p].source = Noted(p, c)] ELSE Asked(p)
    /\ call' = [call EXCEPT ![c] = Dropped(c)]
    /\ UNCHANGED <<homeLock, serveLock, files, revoked>>

\* The deadline notes nothing.
Expire(p) ==
    /\ At(p) = "serving"
    /\ run' = [run EXCEPT ![p].cancelled = TRUE, ![p].expired = TRUE]
    /\ UNCHANGED <<homeLock, serveLock, files, revoked, call>>

\* Everything p served goes with it. A caller it had answered nothing reads the end of its stream, and says
\* that p stopped: it did.
Gone(p) == [c \in Caller |-> IF call[c].to = p THEN Silent ELSE call[c]]

\* The handlers that have acked and not yet noted who stops p: dropped now, each may do so.
Owed(p) == {c \in Caller : call[c].to = p /\ call[c].at = "armed"}

\* The exposer or the listener sees the cancel; an error of either, or a signal, ends the run too.
Finish(p) ==
    /\ At(p) = "serving" /\ run[p].cancelled
    /\ \E who \in Owed(p) \cup {None} :
          /\ Owed(p) \cap Device # {} => who # None
          /\ run' = [run EXCEPT ![p].at = "unlinking", ![p].source = Noted(p, who)]
    /\ call' = Gone(p)
    /\ UNCHANGED <<homeLock, serveLock, files, revoked>>

Interrupt(p) ==
    /\ At(p) = "serving"
    /\ \E who \in Owed(p) \cup {"interrupted"} :
          run' = [run EXCEPT ![p].at = "unlinking", ![p].cancelled = TRUE, ![p].source = Noted(p, who)]
    /\ call' = Gone(p)
    /\ UNCHANGED <<homeLock, serveLock, files, revoked>>

\* A start that fails after its claim, or a run that fails, gives back all it holds; nothing says it was stopped.
Fail(p) ==
    /\ At(p) \in {"claimed", "serving"}
    /\ Goes(p, "unlinking")
    /\ call' = Gone(p)
    /\ UNCHANGED <<homeLock, serveLock, files, revoked>>

-----------------------------------------------------------------------------
(* The teardown                                                            *)

\* Only the socket it bound itself.
Unlink(p) ==
    /\ At(p) = "unlinking"
    /\ socket' = IF socket = p THEN None ELSE socket
    /\ Goes(p, "removing")
    /\ UNCHANGED <<homeLock, serveLock, record, leaf, spoiled, revoked, call>>

\* rmdir: only when it is empty.
RemoveLeaf(p) ==
    /\ At(p) = "removing"
    /\ leaf' = (socket # None)
    /\ spoiled' = (socket # None)
    /\ Goes(p, "emptying")
    /\ UNCHANGED <<homeLock, serveLock, record, socket, revoked, call>>

Empty(p) ==
    /\ At(p) = "emptying"
    /\ record' = None
    /\ Goes(p, "unlocking")
    /\ UNCHANGED <<homeLock, serveLock, leaf, socket, spoiled, revoked, call>>

Unlock(p) ==
    /\ At(p) = "unlocking"
    /\ serveLock' = None
    /\ run' = [run EXCEPT ![p] = Rest]
    /\ UNCHANGED <<homeLock, files, revoked, call>>

\* A process that dies without unwinding: its locks go, what it made stays.
Die(p) ==
    /\ At(p) # "idle"
    /\ homeLock' = IF homeLock = p THEN None ELSE homeLock
    /\ serveLock' = IF serveLock = p THEN None ELSE serveLock
    /\ spoiled' = (spoiled \/ serveLock = p)
    /\ run' = [run EXCEPT ![p] = Rest]
    /\ call' = Gone(p)
    /\ UNCHANGED <<record, leaf, socket, revoked>>

Claims(p) ==
    TakeHome(p) \/ TakeServe(p) \/ Lose(p) \/ Tell(p) \/ Record(p) \/ MakeLeaf(p) \/ Bind(p) \/ GiveUp(p) \/ Run(p)

Runs(p) == RoundEnds(p) \/ Open(p) \/ Expire(p) \/ (\E d \in Device : HearOf(p, d))

Closes(p) == Finish(p) \/ Interrupt(p) \/ Fail(p) \/ Unlink(p) \/ RemoveLeaf(p) \/ Empty(p) \/ Unlock(p)

Calls(c) ==
    \/ \E p \in Start : Admit(c, p)
    \/ Enabled(c) \/ Connect(c) \/ Attribute(c) \/ Ack(c) \/ Note(c) \/ Cancel(c) \/ CutSession(c)

Next ==
    \/ \E p \in Proc : Claims(p) \/ Runs(p) \/ Closes(p) \/ Die(p)
    \/ \E c \in Caller : Calls(c)
    \/ Tick

GoesOn(p) == RoundEnds(p) \/ Open(p) \/ Finish(p)

\* Time passes; what is cancelled is torn down; a round ends within its bound; a handler waits ACK_GRACE at most.
Fairness ==
    /\ WF_vars(Tick)
    /\ \A p \in Start : WF_vars(GoesOn(p))
    /\ \A c \in Caller : WF_vars(Note(c) \/ Cancel(c))

Spec == Init /\ [][Next]_vars /\ Fairness

-----------------------------------------------------------------------------
(* Properties                                                              *)

Phases == {"idle", "home", "lost", "taken", "recorded", "leaf", "claimed", "serving",
           "unlinking", "removing", "emptying", "unlocking"}

\* Every variable holds what it may; whoever is past the claim and short of the end has serve.lock.
TypeOK ==
    /\ {homeLock, serveLock, record, socket} \subseteq Proc \cup {None}
    /\ leaf \in BOOLEAN /\ spoiled \in BOOLEAN /\ revoked \subseteq Device
    /\ \A p \in Proc :
          /\ At(p) \in Phases
          /\ run[p].age \in 0 .. Debounce /\ run[p].wait \in 0 .. Debounce
          /\ run[p].heard \subseteq revoked /\ run[p].cached \subseteq revoked
          /\ At(p) \notin {"idle", "home", "lost"} <=> serveLock = p

\* The rendezvous is the resident's own for as long as it runs, and a home nobody serves, where no process was
\* killed, keeps no socket, no directory and no pid (single.rs 13-16).
Tidy ==
    /\ \A p \in Start : At(p) \in {"claimed", "serving"} => socket = p /\ leaf
    /\ serveLock = None /\ ~spoiled => socket = None /\ ~leaf /\ record = None

\* A start that is refused names the process that has the lock, or none: never one that died before
\* (single.rs 45-49).
NamesHolder == \A p \in Start : At(p) = "lost" => record \in {run[p].found, None}

\* One serve of a home at a time, and what it leaves in the file system is its own.
OneServe == TypeOK /\ Tidy /\ NamesHolder

\* A device the first round revoked stops nothing on a call it makes once control.stop is open
\* (commands/serve.rs 1046-1052).
StopHeld ==
    \A c \in Device :
        call[c].at \in {"running", "armed", "noted"} /\ call[c].late => c \notin run[call[c].to].heard

\* A run that ends because it was cancelled knows who asked, unless it was its deadline (resident.rs 373-376).
SaysWhy ==
    [][\A p \in Start :
         At(p) = "serving" /\ run[p].cancelled /\ run'[p].at = "unlinking"
         => run'[p].source # None \/ run[p].expired]_vars

\* A caller told that the node stops is told the truth, a live cut between the ack and the stop included
\* (stop.rs 86-98).
ClaimedStops ==
    \A p \in Start : (\E c \in Caller : call[c].at = "armed" /\ call[c].to = p) ~> At(p) # "serving"

\* A node that goes on running can be stopped by a device in the end, whatever its first round finds (stop.rs 131-133).
StopOpens == \A p \in Start : At(p) = "serving" ~> IsOpen(p) \/ At(p) # "serving"
=============================================================================
