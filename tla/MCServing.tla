------------------------------ MODULE MCServing ------------------------------
(***************************************************************************)
(* What starts, admits and stops on a machine that serves: the claim and   *)
(* the stop of serve (Serve), the gate (Gate), and the commands at the     *)
(* control socket (Control), each with the fairness of its own             *)
(* specification.  They share no state: a behaviour is one of `part`, with *)
(* the variables of the others as they start.                              *)
(***************************************************************************)
EXTENDS Serve

CONSTANTS
    Parts,               \* the parts to check
    s1, s2, x1, d1, l1,  \* two serves, a key replacement, a device, a local command; a link
    r1, own,             \* a root, this machine's key
    p1, p2, c1, c2,      \* two serves, two commands
    Residents, Foreign, Large, Admitting, Commands, Does, Slots  \* for Control

ASSUME ControlAssumption == None \notin Residents

VARIABLES
    part,
    pinFile, refused, gateServe, pin, denied, session,
    ran, path, up, conn, cmd, seen

gate    == <<pinFile, refused, gateServe, pin, denied, session>>
control == <<ran, path, up, conn, cmd, seen>>
all     == <<part, vars, gate, control>>

G == INSTANCE Gate WITH
    Root <- {r1}, Device <- {d1}, Link <- {l1}, Own <- own,
    file <- pinFile, revoked <- refused, serve <- gateServe

C == INSTANCE Control WITH
    Proc <- Residents, Cmd <- Commands, record <- ran, socket <- path, run <- up

\* One command asks any question, the other stops.
MCDoes == [x \in {c1, c2} |-> IF x = c1 THEN {"stop", "view", "status", "running"} ELSE {"stop"}]

-----------------------------------------------------------------------------
MCInit == part \in Parts /\ Init /\ G!Init /\ (part # "gate" => pinFile = None) /\ C!Init

InServe(A)   == part = "serve" /\ A /\ UNCHANGED <<part, gate, control>>
InGate(A)    == part = "gate" /\ A /\ UNCHANGED <<part, vars, control>>
InControl(A) == part = "control" /\ A /\ UNCHANGED <<part, vars, gate>>

MCNext == InServe(Next) \/ InGate(G!Next) \/ InControl(C!Next)

\* The fairness of each part. As one part runs, weak fairness of steps of several is that of each.
MCFairness ==
    /\ WF_all(InServe(Tick) \/ InGate(G!Sweep) \/ InControl(C!Comes(p1) /\ C!Sees))
    /\ WF_all(InServe(GoesOn(s1)) \/ InGate(G!PinDue) \/ InControl(C!Comes(p2) /\ C!Sees))
    /\ WF_all(InServe(GoesOn(s2)) \/ InGate(G!DeniedDue) \/ InControl(C!Fires(p1) /\ C!Sees))
    /\ WF_all(InServe(Note(d1) \/ Cancel(d1)) \/ InControl(C!Fires(p2) /\ C!Sees))
    /\ WF_all(InServe(Note(l1) \/ Cancel(l1)))

MCSpec == MCInit /\ [][MCNext]_all /\ MCFairness

-----------------------------------------------------------------------------
(* Properties                                                              *)

\* Gate's: a session that the files never stand for again is ended and stays ended (gate.rs 73-81).
Untrusted == []G!TypeOK /\ G!Untrusted

\* Control's: a serve that listens is told as none only to one that knows no runtime root (node_client.rs 69-73); and a
\* stop that was reported is of a serve that does stop.
DownIsDown   == C!DownIsDown
StoppedStops == C!StoppedStops

\* What `status` says is admitted was admitted by a serve that ran while it asked (status/report.rs 234-236): not so.
AdmitShown == C!AdmitShown
==============================================================================
