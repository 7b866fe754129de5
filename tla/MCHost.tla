------------------------------- MODULE MCHost -------------------------------
(***************************************************************************)
(* What one home keeps, and what may go wrong with it between the commands *)
(* and the serve of that home: the links it gives (Links), the list of     *)
(* services (Services), the key file (Keys), the address book (People), a  *)
(* start's arguments (Start), the lists a serve keeps of files it watches  *)
(* (Watched), and what a dial presents (Dial).  They share no state: a     *)
(* behaviour is one of `part`, with the variables of the others as they    *)
(* start.                                                                  *)
(***************************************************************************)
EXTENDS Links

CONSTANTS
    Parts,                                                  \* the parts to check
    a1, t1,                                                 \* a name of a service, a target
    ServiceNames, Serveable, First,                              \* for Services
    Locking, Owned, Phrases,                                \* for Keys
    Persons, Labels, Saveable, Shown, MyMachines, YourRoot,
    Given, Editing,                                         \* for People
    Dirs, Lines, Openable, Edits, Relays, Admitted, Starting, \* for Start
    Met, MaxWrite, MaxFault,                                \* for Watched
    Roots, Throw, Books, Dialed, Me, MaxTime                \* for Dial

ASSUME HostAssumption == MaxTime \in Nat /\ None \notin {"ours", "none"}

\* What a home that recorded no list serves is a list.
ASSUME ServicesAssumption == First \in [ServiceNames -> Serveable \cup {None}]

\* A key and a passphrase are none of the words the model uses beside them.
ASSUME KeysAssumption ==
    /\ None \notin Owned \cup Phrases \cup {"plain", "touch", "throwaway"}
    /\ "throwaway" \notin Owned
    /\ Phrases \cap {"plain", "touch"} = {}

\* Roots look like keys; what is shown, named or edited is never the absence of it.
ASSUME PeopleAssumption == Shown \subseteq Saveable /\ None \notin Saveable \cup Labels \cup Editing

VARIABLES
    part,
    listed, serving, off, added,                            \* Services
    keyFile, kept, asking,                                  \* Keys
    book, given, bookLock, naming,                          \* People
    started, keyed, inbox, holder, record, starts, last,    \* Start
    which, file, stamp, at, looked, got, seen, live, used, short, \* Watched
    now, dialHome, dialBook, dial                           \* Dial

services == <<listed, serving, off, added>>
keys     == <<keyFile, kept, asking>>
people   == <<book, given, bookLock, naming>>
start    == <<started, keyed, inbox, holder, record, starts, last>>
watched  == <<which, file, stamp, at, looked, got, seen, live, used, short>>
dialing  == <<now, dialHome, dialBook, dial>>
all      == <<part, vars, services, keys, people, start, watched, dialing>>

-----------------------------------------------------------------------------
\* The list a home that recorded none serves.
SomeFirst == [n \in ServiceNames |-> IF n = a1 THEN t1 ELSE None]

S == INSTANCE Services WITH
    Name <- ServiceNames, Target <- Serveable, Default <- First,
    file <- listed, serve <- serving

K == INSTANCE Keys WITH
    Proc <- Locking, Key <- Owned, Phrase <- Phrases,
    file <- keyFile, root <- kept, proc <- asking

P == INSTANCE People WITH
    Person <- Persons, Label <- Labels, Key <- Saveable, Root <- Shown, Mine <- MyMachines, Yours <- YourRoot,
    Link <- Given, Proc <- Editing,
    lock <- bookLock, run <- naming

W == INSTANCE Watched WITH List <- {"known", "saved"}, Key <- Met

\* For Start: what a start may be typed, and what another command may leave in the file.
E == INSTANCE Entries WITH Cwd <- Dirs

SomeLines == {{}, {E!Entry(None, "bare", "ping")}, {E!Entry("ssh", "tcp", "addr"), E!Entry(None, "recv", "here")},
          {E!Entry("DB", "proxy", "site")}, {E!Entry("ping", "ping", ""), E!Entry("db", "port", "")},
          {E!Entry(None, "proxy", "page")}, {E!Entry("recv", "recv", "/a=b")}, {E!Entry(None, "recv", "/a=b")}}

SomeEdits ==
    {{E!Entry("db", "file", "c1")}, {E!Entry("db", "unix", "c1"), E!Entry(None, "bare", "db")}}

T == INSTANCE Start WITH
    Cwd <- Dirs, Typed <- Lines, Opened <- Openable, Edited <- Edits, Relay <- Relays, Root <- Admitted,
    Proc <- Starting,
    file <- started, key <- keyed, run <- starts

\* A line typed is a name, a scheme and an argument; a directory is absolute; and nothing typed is the absence of it.
ASSUME StartAssumption ==
    /\ \A typed \in Lines : \A line \in typed : line = T!Entry(line.name, line.scheme, line.arg)
    /\ Dirs \cap {"", "here"} = {}
    /\ None \notin Starting \cup {"db", "ping", "speed", "ssh", "proxy", "recv"}
    /\ \A typed \in Lines, cwd \in Dirs : {T!Saved(T!ServiceEntry(line), cwd) : line \in typed} # None

\* For Dial: the address books, and what a person may type for the machine.
Row(p, l, k) == [person |-> p, label |-> l, key |-> k]
Peer(form, p, l, k, to) == [form |-> form, person |-> p, label |-> l, key |-> k, link |-> to]
LinkFor(n, for, end) == [node |-> n, for |-> for, end |-> end]

SomeBooks ==
    {[rows |-> {Row("me", "nas", "d1"), Row("alice", "a", "a1")}, roots |-> {"ra"}],
     [rows |-> {Row("alice", "a", "a1"), Row("alice", "b", "a2")}, roots |-> {"ra"}]}

SomeDialed ==
    {Peer("named", "me", "nas", None, None), Peer("named", "alice", None, None, None),
     Peer("named", "me", None, None, None), Peer("key", None, None, "ra", None),
     Peer("key", None, None, "d1", None), Peer("root", None, None, "ra", None),
     Peer("link", None, None, None, LinkFor("d1", "anyone", 1)),
     Peer("link", None, None, None, LinkFor("a1", "r1", 2))}

SomeRoots == {"r1", "r2"}

D == INSTANCE Dial WITH
    Root <- Roots, Typed <- Dialed,
    home <- dialHome, book <- dialBook, run <- dial

-----------------------------------------------------------------------------
\* A part that does not run starts in one way only.
MCInit ==
    /\ part \in Parts
    /\ Init /\ (part # "links" => saved = t1)
    /\ S!Init
    /\ K!Init /\ (part # "keys" => keyFile = K!NoFile)
    /\ P!Init
    /\ T!Init
    /\ W!Init /\ (part # "watched" => which = "known")
    /\ D!Init /\ (part # "dial" => dialHome.key = None /\ dialBook = CHOOSE x \in Books : TRUE)

MCNext ==
    \/ part = "links" /\ Next
       /\ UNCHANGED <<part, services, keys, people, start, watched, dialing>>
    \/ part = "services" /\ S!Next
       /\ UNCHANGED <<part, vars, keys, people, start, watched, dialing>>
    \/ part = "keys" /\ K!Next
       /\ UNCHANGED <<part, vars, services, people, start, watched, dialing>>
    \/ part = "people" /\ P!Next
       /\ UNCHANGED <<part, vars, services, keys, start, watched, dialing>>
    \/ part = "start" /\ T!Next
       /\ UNCHANGED <<part, vars, services, keys, people, watched, dialing>>
    \/ part = "watched" /\ W!Next
       /\ UNCHANGED <<part, vars, services, keys, people, start, dialing>>
    \/ part = "dial" /\ D!Next
       /\ UNCHANGED <<part, vars, services, keys, people, start, watched>>

MCSpec == MCInit /\ [][MCNext]_all

-----------------------------------------------------------------------------
(* Properties                                                              *)

\* What a start, a command or a hand said is served (Services); what the owner asked of the key (Keys); what the person
\* was shown of the book (People); what a start was typed (Start).
ServesAsSaid ==
    /\ [](part = "services" => S!TypeOK /\ S!RestartSame)
    /\ S!OffStays /\ S!GivenByFile
KeyByOwner ==
    /\ [](part = "keys" => K!TypeOK /\ K!ActsAs)
    /\ K!StaysSealed /\ K!ReplacedByName
BookHolds ==
    /\ [](part = "people" => P!OneName /\ P!BookOpens)
    /\ P!ReplacedAsShown /\ P!LeavesNoLink
StartsAsTyped ==
    /\ [](part = "start" => T!TypedBack /\ T!RecordTrue /\ T!ResumesSame)
    /\ T!SavesAsTyped

\* LinksTrue is Links's: the ledger, the uses and the gate. A list that would not be read again misses no key the files
\* list (Watched); what a dial presents, whatever changes while it is prepared (Dial).
NoneMissing   == W!NoneMissing
PresentsRight == D!PresentsRight

\* What a doc or a comment says, and the code does not do: of `contact rm` (People), of two locks (Keys), of
\* `service add` (Services), of the second slot (Dial), of a book that cannot be read (Watched),
\* of a line that is printed to be typed (Start).
StillNamed    == P!StillNamed
TwoLockRule   == K!TwoLockRule
AddedIsServed == S!AddedIsServed
SlotsOwn      == D!SlotsOwn
KeptWhole     == W!KeptWhole
PrintedWorks  == T!PrintedWorks
=============================================================================
