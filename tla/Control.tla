------------------------------ MODULE Control ------------------------------
(***************************************************************************)
(* The commands that ask a home's running `serve` over its control socket  *)
(* (node_client.rs, serve/socket.rs): `stop`, `service`, the serving line  *)
(* of `status`, and the question "does one run?" that `join`, `leave`,     *)
(* `revoke` and the root's acts put before a line they print               *)
(* (home/lock.rs, serve_running). One connection per question: the socket  *)
(* is found, connected to, its listener's pid compared with the one        *)
(* serve.lock records, the request written, one reply read.                *)
(*                                                                         *)
(* How a serve claims its home and comes down is in Serve; here it is up   *)
(* from the moment its pid is recorded until serve.lock is given back.     *)
(***************************************************************************)
EXTENDS Naturals, FiniteSets

CONSTANTS
    Proc,       \* the serves of this home
    Foreign,    \* those of another build, whose frames have another version
    Large,      \* those whose list of services does not fit in a frame
    Admitting,  \* those started with --admit
    Cmd,        \* the commands
    Does,       \* the kinds of question each may ask
    Slots,      \* MAX_CONTROL_CONNS
    None

VARIABLES
    record,  \* whose pid serve.lock records
    socket,  \* who bound what is at the socket's path
    run,     \* each serve
    conn,    \* the connection each command has
    cmd,     \* each command
    seen     \* history: which --admit serves were up, and whether nobody listened, while each command asks

vars == <<record, socket, run, conn, cmd, seen>>

NoConn == [to |-> None, at |-> "none", asked |-> FALSE, out |-> "none"]
Idle == [kind |-> "none", at |-> "idle", ask |-> "none", rooted |-> TRUE, says |-> "none", admits |-> None]

Init ==
    /\ record = None /\ socket = None
    /\ run = [p \in Proc |-> "new"]
    /\ conn = [c \in Cmd |-> NoConn]
    /\ cmd = [c \in Cmd |-> Idle]
    /\ seen = [c \in Cmd |-> [up |-> {}, quiet |-> FALSE]]

Listens(p) == run[p] = "listening" /\ socket = p
Up(p) == run[p] \in {"recorded", "listening", "cancelled", "unbound"}

-----------------------------------------------------------------------------
(* The serve                                                               *)

\* serve.lock is free: its record is emptied and this pid written, under home.lock.
Claim(p) ==
    /\ run[p] = "new" /\ \A q \in Proc : ~Up(q)
    /\ record' = p
    /\ run' = [run EXCEPT ![p] = "recorded"]
    /\ UNCHANGED <<socket, conn, cmd>>

\* A socket nobody listens at is reclaimed.
Listen(p) ==
    /\ run[p] = "recorded"
    /\ socket' = p
    /\ run' = [run EXCEPT ![p] = "listening"]
    /\ UNCHANGED <<record, conn, cmd>>

Held(p) == {c \in Cmd : conn[c].to = p /\ conn[c].at \in {"accepted", "replied"}}

\* A slot is taken before the accept, so a connection past the last one stays queued.
Accept(p, c) ==
    /\ run[p] = "listening" /\ Cardinality(Held(p)) < Slots
    /\ conn[c].to = p /\ conn[c].at = "queued"
    /\ conn' = [conn EXCEPT ![c].at = "accepted"]
    /\ UNCHANGED <<record, socket, run, cmd>>

\* Nothing was read in READ_TIMEOUT: the connection is closed with no reply.
Elapse(p, c) ==
    /\ Up(p) /\ c \in Held(p) /\ conn[c].at = "accepted" /\ ~conn[c].asked
    /\ conn' = [conn EXCEPT ![c].at = "closed"]
    /\ UNCHANGED <<record, socket, run, cmd>>

\* A list that does not fit is said to a detail request; a status or a menu that does not fit is not
\* written at all.
DetailReply(p) == IF p \in Large THEN "error" ELSE "data"
MenuReply(p) == IF p \in Large THEN "none" ELSE "data"

Reply(p, ask) ==
    CASE p \in Foreign -> "error"
      [] p \notin Foreign /\ ask = "stop" -> "ack"
      [] p \notin Foreign /\ ask = "detail" -> DetailReply(p)
      [] p \notin Foreign /\ ask \in {"status", "services"} -> MenuReply(p)

\* The reply is written whole, or cut where its own deadline passes.
Answer(p, c) ==
    /\ Up(p) /\ c \in Held(p) /\ conn[c].at = "accepted" /\ conn[c].asked
    /\ \E out \in {Reply(p, cmd[c].ask), "part"} :
          /\ out = "part" => Reply(p, cmd[c].ask) # "none"
          /\ conn' = [conn EXCEPT ![c].at = "replied", ![c].out = out]
    /\ UNCHANGED <<record, socket, run, cmd>>

\* After the reply, however its write ended: a stop cancels the run, and the connection is dropped.
Fire(p, c) ==
    /\ Up(p) /\ c \in Held(p) /\ conn[c].at = "replied"
    /\ conn' = [conn EXCEPT ![c].at = "closed"]
    /\ run' = IF cmd[c].ask = "stop" /\ p \notin Foreign /\ run[p] = "listening"
              THEN [run EXCEPT ![p] = "cancelled"] ELSE run
    /\ UNCHANGED <<record, socket, cmd>>

\* Ctrl-C, a deadline, a stop over the wire.
Cancel(p) ==
    /\ run[p] = "listening"
    /\ run' = [run EXCEPT ![p] = "cancelled"]
    /\ UNCHANGED <<record, socket, conn, cmd>>

Hung(p) ==
    [c \in Cmd |-> IF conn[c].to = p /\ conn[c].at # "none" THEN [conn[c] EXCEPT !.at = "closed"] ELSE conn[c]]

Unbind(p) ==
    /\ run[p] = "cancelled"
    /\ run' = [run EXCEPT ![p] = "unbound"]
    /\ socket' = IF socket = p THEN None ELSE socket
    /\ conn' = Hung(p)
    /\ UNCHANGED <<record, cmd>>

\* The record is emptied before serve.lock goes.
Exit(p) ==
    /\ run[p] = "unbound"
    /\ run' = [run EXCEPT ![p] = "gone"]
    /\ record' = None
    /\ UNCHANGED <<socket, conn, cmd>>

\* A crash leaves the socket's file and the record.
Crash(p) ==
    /\ Up(p)
    /\ run' = [run EXCEPT ![p] = "gone"]
    /\ conn' = Hung(p)
    /\ UNCHANGED <<record, socket, cmd>>

-----------------------------------------------------------------------------
(* One question                                                            *)

Asks(kind) ==
    CASE kind = "stop" -> "stop" [] kind = "view" -> "detail"
      [] kind = "status" -> "status" [] kind = "running" -> "services"

\* What `stop` was given: nothing, the name the list gives this machine, that of another of your
\* devices, which is dialed (Serve and Dial have that), or any other text, which is refused.
Aim == {"nothing", "own", "device", "other"}
Here(aim) == aim \in {"nothing", "own"}

\* A command run where no runtime root is known (XDG_RUNTIME_DIR unset or relative) has no path to the socket.
Begin(c) ==
    /\ cmd[c].at = "idle"
    /\ \E kind \in Does[c], aim \in Aim, rooted \in BOOLEAN :
          /\ kind # "stop" => Here(aim)
          /\ cmd' = [cmd EXCEPT ![c] = [Idle EXCEPT !.kind = kind, !.ask = Asks(kind), !.rooted = rooted,
                                                   !.at = IF Here(aim) THEN "resolve" ELSE "done"]]
    /\ UNCHANGED <<record, socket, run, conn>>

\* Mutant: a resident that cannot be read is taken for none.
MakesAbsent(c, answer) ==
    [cmd[c] EXCEPT !.at = "done", !.says = IF answer = "ok" THEN "live" ELSE "down"]

\* What the command makes of the answer: "ok", "none" when nobody listened, "failed". Does one run?
\* Any failure is settled by the recorded pid.
Makes(c, answer) ==
    LET k == cmd[c]
    IN  IF k.ask = "services"
        THEN IF answer = "ok" THEN [k EXCEPT !.at = "done", !.says = IF k.kind = "running" THEN "yes" ELSE @]
             ELSE [k EXCEPT !.at = "recorded"]
        ELSE IF k.ask = "stop"
        THEN [k EXCEPT !.at = "done", !.says = IF answer = "ok" THEN "stopped" ELSE "failed"]
        ELSE [k EXCEPT !.at = IF k.kind = "status" THEN "admit" ELSE "done",
                       !.says = IF answer = "ok" THEN "live" ELSE IF answer = "none" THEN "down" ELSE "failed"]

Ends(c, answer) ==
    /\ cmd' = [cmd EXCEPT ![c] = Makes(c, answer)]
    /\ UNCHANGED <<record, socket, run>>

\* The path: none to derive, and nothing at it, are no resident; what this user does not own in full is not trusted.
Resolve(c) ==
    /\ cmd[c].at = "resolve"
    /\ UNCHANGED conn
    /\ \/ (cmd[c].rooted => socket = None) /\ Ends(c, "none")
       \/ cmd[c].rooted /\ Ends(c, "failed")
       \/ /\ cmd[c].rooted /\ socket # None
          /\ cmd' = [cmd EXCEPT ![c].at = "connect"]
          /\ UNCHANGED <<record, socket, run>>

Connect(c) ==
    /\ cmd[c].at = "connect"
    /\ \/ /\ \A p \in Proc : ~Listens(p)
          /\ UNCHANGED conn
          /\ Ends(c, "none")
       \/ \E p \in Proc :
          /\ Listens(p)
          /\ conn' = [conn EXCEPT ![c] = [NoConn EXCEPT !.to = p, !.at = "queued"]]
          /\ cmd' = [cmd EXCEPT ![c].at = "check"]
          /\ UNCHANGED <<record, socket, run>>

\* The listener's pid, from the kernel, against the record as it is now.
Check(c) ==
    /\ cmd[c].at = "check"
    /\ \/ /\ record # conn[c].to
          /\ Ends(c, "failed")
          /\ conn' = [conn EXCEPT ![c].at = "closed"]
       \/ /\ record = conn[c].to
          /\ cmd' = [cmd EXCEPT ![c].at = "write"]
          /\ UNCHANGED <<record, socket, run, conn>>

\* Mutant: a request that could not be written is followed by the read, whose end counts.
WriteAnyway(c) ==
    /\ cmd[c].at = "write"
    /\ conn' = [conn EXCEPT ![c].asked = TRUE]
    /\ cmd' = [cmd EXCEPT ![c].at = "read"]
    /\ UNCHANGED <<record, socket, run>>

\* A write the other end no longer takes is a failure, never an end that confirms.
Write(c) ==
    /\ cmd[c].at = "write"
    /\ \/ /\ conn[c].at = "closed"
          /\ UNCHANGED conn
          /\ Ends(c, "failed")
       \/ /\ conn[c].at # "closed"
          /\ conn' = [conn EXCEPT ![c].asked = TRUE]
          /\ cmd' = [cmd EXCEPT ![c].at = "read"]
          /\ UNCHANGED <<record, socket, run>>

\* A stop is confirmed by its whole Ack, or by an end with no byte before it.
Confirms(c) == conn[c].out = "ack" \/ (conn[c].at = "closed" /\ conn[c].out = "none")

Complete(c) == conn[c].out = "data"

\* A reply still unread when the other end went may be lost with it, and the wait has its deadline.
Read(c) ==
    /\ cmd[c].at = "read"
    /\ \/ /\ IF cmd[c].ask = "stop" THEN Confirms(c) ELSE Complete(c)
          /\ Ends(c, "ok")
       \/ Ends(c, "failed")
    /\ conn' = [conn EXCEPT ![c].at = IF @ \in {"queued", "closed"} THEN "closed" ELSE @]

-----------------------------------------------------------------------------
(* What a command says                                                     *)

\* Does one run? The recorded pid's process lives, or one that has its number now.
Recorded(c) ==
    /\ cmd[c].at = "recorded"
    /\ \E lives \in BOOLEAN :
          /\ record = None => ~lives
          /\ record # None /\ Up(record) => lives
          /\ cmd' = [cmd EXCEPT ![c] =
                IF @.kind = "running" THEN [@ EXCEPT !.at = "done", !.says = IF lives THEN "yes" ELSE "no"]
                ELSE [@ EXCEPT !.at = "done", !.admits = IF lives THEN @ ELSE None]]
    /\ UNCHANGED <<record, socket, run, conn>>

\* The status line: the root the record says is admitted, then whether one runs.
Admit(c) ==
    /\ cmd[c].at = "admit"
    /\ cmd' = [cmd EXCEPT ![c] =
          IF record \in Admitting THEN [@ EXCEPT !.admits = record, !.ask = "services", !.at = "resolve"]
          ELSE [@ EXCEPT !.at = "done"]]
    /\ conn' = [conn EXCEPT ![c] = NoConn]
    /\ UNCHANGED <<record, socket, run>>

Ask(c) == Begin(c) \/ Resolve(c) \/ Connect(c) \/ Check(c) \/ Write(c) \/ Read(c) \/ Recorded(c) \/ Admit(c)

Comes(p) == Unbind(p) \/ Exit(p)

Serves(p) ==
    \/ Claim(p) \/ Listen(p) \/ Cancel(p) \/ Crash(p) \/ Comes(p)
    \/ \E c \in Cmd : Accept(p, c) \/ Elapse(p, c) \/ Answer(p, c) \/ Fire(p, c)

Sees ==
    seen' = [c \in Cmd |->
        IF cmd'[c].at \in {"idle", "done"} \/ cmd'[c].ask = "stop" THEN seen[c]
        ELSE [up |-> seen[c].up \cup {p \in Admitting : Up(p)'},
              quiet |-> seen[c].quiet \/ \A p \in Proc : ~Listens(p)']]

Next ==
    /\ (\E p \in Proc : Serves(p)) \/ (\E c \in Cmd : Ask(c))
    /\ Sees

Fires(p) == \E c \in Cmd : Fire(p, c)

\* A connection's task writes its reply and then fires (resident.rs, reply_then_fire), and a cancelled run comes down.
Fairness ==
    \A p \in Proc :
        /\ WF_vars(Comes(p) /\ Sees)
        /\ WF_vars(Fires(p) /\ Sees)

Spec == Init /\ [][Next]_vars /\ Fairness

-----------------------------------------------------------------------------
(* Properties                                                              *)

\* A serve that listens is not said to be absent: `status` and `service` say down, unless run where no runtime root is
\* known, and the question the other verbs put says no, wherever they run, only if at some moment while it was asked none
\* listened. A reply that fails, is cut short or does not fit, and a listener that is not the recorded one, are never
\* read as an absent serve (node_client.rs 69-73, home/lock.rs 313-325).
DownIsDown ==
    \A c \in Cmd : cmd[c].says = "no" \/ (cmd[c].says = "down" /\ cmd[c].rooted) => seen[c].quiet

\* A stop that was reported is of a serve that does stop: the connection ended before a byte of its
\* reply only because the serve was going, and a request it never read is never reported.
StoppedStops ==
    \A p \in Proc : (\E c \in Cmd : cmd[c].says = "stopped" /\ conn[c].to = p) ~> run[p] = "gone"

\* What `status` says is admitted was admitted by a serve that ran while it asked.
AdmitShown ==
    \A c \in Cmd : cmd[c].at = "done" /\ cmd[c].admits # None => cmd[c].admits \in seen[c].up
=============================================================================
