# swoosh: a verification project

swoosh (`src/`) lets a person's machines reach each other by key. A person's own machines are *devices of
one root*: a signing key, whose owner lists the live devices, revokes the lost ones, and renews
their standings. There is no server. Every list and every revocation travels from device to device, is
folded into a directory of plain files by several processes at once, and decides whom a running `swoosh
serve` admits. This project models that, checks it with TLC, and proves with TLAPS what matters most for
every number of machines, processes and lists.

Line numbers below are of `src/src/`. `PROJECT.json` holds the map from each definition to its lines, and
the list of hazards.

## 1. Inventory

| part | state it keeps | operations | what is hard | what makes it correct |
|---|---|---|---|---|
| update and fold (`roster.rs`, `roster/fold.rs`, `roster/artifact.rs`) | `devices`, `devices.conflict`, and, through others, `revoked`, `key.cert`, `invited-by` | `fold`, `fold_fork` | several file writes, each atomic, with stops between; several processes; a clock that ends ids meanwhile | what is held is refused; the number held never falls; a fork is seen and stays until it is carried; someone is left to ask |
| exchange (`sync.rs`) | the stream; `synced` | `exchange`, `offer`, `answer`, `round`, `once` | homes read without a lock and used messages later; breaks, time limits, two forks passing both ways | each answer is true of both homes; both sides end; everyone hears |
| revocation file (`revoked.rs`) | `revoked` and its witness | `open`, `add` | many writers; must fail closed | grows only; never this machine's own key |
| joining (`joining.rs`) | `key.cert`, `root.pub`, `invited-by` | `join`, `take_renewal`, `leave` | stops between files | a standing only extends; never a device of the wrong root |
| standing (`standing.rs`, `badge.rs`) | none: it reads the files of the home | `read`, `classify` | must make sense of what every stop leaves | one standing per set of files, damage told from unfinished work |
| root acts (`root.rs`, `root_key.rs`) | `root.key`, the act's `Book` | `mint`, `present`, `renew`, `rekey`, `revoke_device`, `sign_standing`, `commit`, `offer` | a prompt between reading and cutting; copies of one root | a cut carries all that was revoked; an act whose ground moved writes nothing |
| root files (`root/backup.rs`, `restore.rs`, `retire.rs`, `forget.rs`, `lock.rs`) | the copy in a directory | `backup`, `restore`, `retire`, `forget` | crash between steps, the copy changing meanwhile | never no root; never an older list over a newer |
| home and locks (`home.rs`, `home/lock.rs`) | `home.lock`, `serve.lock` | `HomeWrite::take`, `ServeLock::take`, `record`, `admitting` | who waits for whom | one change at a time; one resident |
| resident serve (`serve.rs`, `serve/single.rs`, `serve/resident.rs`, `serve/socket.rs`) | the runtime directory, the socket, the stop source | `acquire`, the socket's commands, the stops | two starts at once, crashed residents | one resident per home; its own socket only is removed |
| first round and remote stop (`serve/stop.rs`, `bin/swoosh/commands/serve.rs`) | whether `control.stop` is open | `sync_rounds`, `Stop`, `FirstRound` | a gate that answers from an old stat; a handler dropped after its ack | no stop before the first round's revocations count; an acked stop happens |
| gate and ledger (`gate.rs`, `grants.rs`) | cached pin, ledger rows, uses spent | `current`, `cuts`, `trusts`, `is_issued` | debounced reads of files others write | stale for a bounded time only; a one-use link admits once |
| served services (`serve_toml.rs`) | `serve.toml` as last read | `refresh`, `is_enabled` | file replaced between stat and read | deleting a file never opens a service |
| pick-up of a renewal (`renewal.rs`, `serve/renewal.rs`) | cached rows of the list | `pick_up`, `after_round`, `Known::refresh` | fetched without a lock, taken later | only this machine's, only later, never revoked |
| address book, lookup (`contacts.rs`, `contacts/store.rs`, `serve/lookup.rs`) | names; `me` derived from `devices` | open, save, lookup | derived state | `me` is the list held |
| links (`grants.rs`, `share.rs`) | `links`, `links.used` | `share`, `is_issued`, `spend` | a one-use link through restarts; the key replaced under the ledger | a link admits what it was made for, a one-use link once |
| keys (`identity.rs`, `touch.rs`, `passphrase.rs`) | `machine/key`, its locks; `root.key`'s | `lock`, `replace`, `replace_made` | a prompt between the read and the write; a root that comes meanwhile | the key stays sealed, and is replaced only by name |
| dialing (`reaching.rs`, `credential.rs`, `main.rs`) | none: it reads the home | `resolve`, `slots`, `renew_before_dial`, the verb and what runs beside it | each read at its own moment | presents the standing that helps and no other; ends |
| control socket (`serve/socket.rs`, `node_client.rs`, `stop.rs`, `status/report.rs`) | the connection | `stop`, `service`, `status`, `serve_running` | a serve that starts or goes while it is asked | a command says a serve is down, or stops, only when it is so |
| text of links and invites, transports, forwarding verbs | one-shot values | | encoding, I/O | out of scope here (section 8) |

How they meet: a root act *commits* a cut into its own home through `fold` and *offers* it to the devices it
lists; a `serve` *answers* exchanges and *dials* a round at start and every hour; a dialing command exchanges
once when its list is stale; each exchange folds under `home.lock` and reads the home without it; the gate
reads `revoked` and the pin from the same home. A `serve` caches what it reads under stamps (the gate, the
ledger, `serve.toml`, the lists of renewals and names) while commands change the files; a command asks the
serve of its home over the socket, and other machines over the wire.

## 2. Modules

| module | models |
|---|---|
| `Update` | an update as data: number, standings, revoked ids and keys; what it obliges a machine to refuse (`Owed`, `RefusedAt`), whether one carries another (`Carries`) |
| `Holdings` | abstract: what one machine promises about what it holds. Six one-line steps |
| `Fold` | one home: the files, `home.lock`, and `fold`/`fold_fork` write by write, in several processes that may stop anywhere; the other writers of the same files |
| `FoldProofs` | theorems of `Fold` |
| `Exchange` | many homes: cuts, dialers, servers, the messages between them, faults. A fold is one step here |
| `ExchangeProofs` | theorems of `Exchange` |
| `Round` | one round of exchanges: the queue, the replies, and the devices a take leaves behind. An exchange is three steps here |
| `RoundProofs` | theorems of `Round`, and of `Renewal` as `MCReaching` has it |
| `Book` | a root act's working records as data: bringing them forward from the lists a home holds (`Forward`), what a cut takes from them (`Cut`), when one is needed (`Lacks`) |
| `BookProofs` | lemmas about `Book`'s operators |
| `RootAct` | root acts on several homes and copies of one root: find, block, prompt, unlock, sign, `again`, commit, fold, with the homes hearing lists meanwhile. A fold is one step here |
| `RootActProofs` | theorems of `RootAct` |
| `Standing` | the files of a home as data, and what they make this machine to a root (`StandingOf`): one standing, or one of six kinds of damage |
| `Home` | the verbs that give a home its standing and take it away, file by file, with several commands and a serve at once on one home, and stops between two files |
| `HomeProofs` | theorems of `Home` |
| `Serve` | the processes that want one home's `serve.lock`, from the claim to the teardown; the first round and the hold of `control.stop`; the calls that stop a serve, over the wire and over the socket; kills |
| `ServeProofs` | theorems of `Serve`, and of `Control` as `MCServing` has it |
| `Gate` | the two debounced reads of the gate, what it admits, and the sweep that ends sessions |
| `Control` | what a command at the control socket concludes, against serves that start, answer, stop and die |
| `Links` | `share`, the ledger, one-use links and the file of uses, the key replaced under them, a serve's cached read |
| `Services` | `serve.toml`'s list and off rows, the commands that edit it, and what a running serve takes of them |
| `Entries`, `Start` | what a start was typed, as data; and a start from its claim to the one write that saves it |
| `Watched` | the two lists a serve keeps of files it watches, stamps and reads file by file |
| `Renewal` | a standing from the root's list, through an exchange or the pick-up route, to this machine |
| `Keys` | the key file and the root's beside it: how each is made, locked, opened and replaced |
| `People` | the address book: add, replace, rm, learning, and links given to a name |
| `Dial` | one dialing command: resolve, key, credentials, the pick-up before it and the questions after |
| `HostProofs` | theorems of `Links`, `Services`, `Keys`, `People`, `Start`, `Watched` and `Dial`, as `MCHost` has them |
| `MCFold`, `MCExchange`, `MCRootAct`, `MCHome` | instances for TLC |
| `MCServing`, `MCReaching`, `MCHost` | instances of several modules in one run: `Serve`, `Gate`, `Control`; `Round`, `Renewal`, `Dial`; `Links`, `Services`, `Keys`, `People`, `Start`, `Watched`, `Dial` |

The last three hold modules that share no state. A behaviour of theirs is one of the module that `part` names,
with the variables of the others as they start, so a run is the union of the modules' own behaviours and each
property speaks of one part. They share a run because they share a question, what a machine that serves, asks,
keeps or is typed may get wrong, and not because the parts meet; where parts do meet, a module has both (`Serve` has the
gate's read and the round, `Links` the ledger and the key, `People` the book and the links).

`Exchange` and `Fold` share `Update` and the same comparison of numbers. `Fold` justifies that `Exchange`
takes a fold as one step: `home.lock` serialises folds of one home, and `Holdings`, which `Fold` implements,
says the files never show a reader anything in between except more refusals than the update held asks for.

### Fold and the code

| `Fold` | code |
|---|---|
| `devices`, `conflict`, `revoked`, `badge`, `invitedBy` | `<home>/devices`, `devices.conflict`, `revoked`, `key.cert`, `invited-by` |
| `at`, `update`, `kind`, `held`, `until` | the locals of a running `fold` or `fold_fork` (`held`, `floor`, `badge_until`) |
| `finished` | history, for `ForkNoticed` only; no action reads it |
| `Take` / `Leave` | `home.lock`, the reads, and the comparison (fold.rs 93-114, 152-168) |
| `Add`, `PickUp`, `WriteDevices`, `ForgetInvitedBy`, `ClearFork`, `KeepFork` | the calls in fold.rs 115-127 and 169-170, one action per file written |
| `Stop` | a crash, or a read or write that fails, before any write |
| `RevokeHere`, `TakeRenewal` | `revoked::add` from another command, `joining::take_renewal` |
| `Tick` | the wall clock that `Owed`, `Carries` and `Fit` read |

`ForgetInvitedBy` may leave the file: the code logs a failure and goes on. `Arrive` is where an exchange, a
root act or a restore hands an update to the fold. Every signed update is verified against the pin before
anything else, so only `Signed` is folded.

### Exchange and the code

A `Dialer` is a process that dials, on the device `Machine[s]`; it has one stream at a time, and the task
answering it on the other machine is the same index's `server`. Several dialers give several concurrent
exchanges, on one machine too. Each read and each write of a side is a step.

| `Exchange` | code |
|---|---|
| `at` | where `dial_with` is (sync.rs 179-253) |
| `server` | where `answer` is (256-330) |
| `up`, `down` | the two directions of the stream, in order |
| `named`, `fork`, `taken`; `mine`, `kept` | the locals of the two functions: what each has read and not yet used |
| `Dial`, `NotAdmitted` | `NodeDial` (450-495) over `dialable` (562-595): the gate's verdict, then the request |
| `Cut` | `commit_to` (root.rs 1108-1172): the number after all it has seen, folded at home |
| `DialerStops`, `FoldFails`, `DropFork`, `ServerStops` | the time limit `EACH`, a crash, a fold's error (which reads as `refused`, or is dropped), a broken stream |

A machine that is no device of the root (`Outsider`) answers `same` with the digest of nothing
(sync.rs 269-274), and the dialer must not take it for a device holding its list.

### Round and the code

`queue`, `replies`, `until` are `round`'s own (sync.rs 633-681). `Ask` pops the next device and reads the
update held; `Compare` is the other device's read; `EndsSame`, `EndsTheirs`, `EndsMine` are the folds and the
answers that the three kinds of reply come to in `Exchange`. `Elsewhere` is every other exchange of either
machine, and also what a failed exchange had folded before it failed. After `TimeUp` no device is waited for
(`EACH.min(left)` is 0), so what is left to ask is silent. `Picked`, a recursive function, is the filter that keeps the
order drawn.

### Book, RootAct and the code

`Book` has its own, richer update: rows with a key, a name, the newest standing, and the ids in force. What
`take_member` does one device at a time, in the order of keys, `BringForward` says of the whole update: a row
is *taken* when its key is listed and no device of the update has taken its name before, *revoked* when
another device of the update has its name (unless it is this machine's own, which is *renamed*), and a device
with a key the records do not know is *new*. That the result can be built into an update whatever the order
is what `SoundBooks` checks.

| `RootAct` | code |
|---|---|
| `list`, `began`, `book`, `held`, `fork`, `due`, `made`, `touched` | `beside` and the list read, `now`, `book`, `held`, `fork`, `due`, `added`, `replaced` with `renewed` of `Act` |
| `seen`, `block` | `listed` with the key, and what `revoke` adds to `<home>/revoked` (commands/revoke.rs 404-443) |
| `copy` | `devices` beside the key in the directory given with `--root` |
| `Resolve`, `Block` | `Revoke::device`: the lookup with no lock, then `revoked::add` under `home.lock` |
| `Present`, `Unlock` | `present_with` before and after the prompt (root.rs 718-773); the sync it makes there is any `Hear` |
| `Add`, `Rekey`, `Renew`, `RevokeDevice`, `Refused` | `plan` with `sign_standing`, `sign_keyed`, `rekey`, `renew`; `revoke_device`; each with the `renew_due` that follows (`Sign`) |
| `Overtake`, `Commit`, `FoldCut`, `Stop` | `commit_to` (root.rs 1108-1146) under `home.lock`: `again` stops it, or the copy is written and the cut folded, with a stop between the two |
| `Hear`, `HearFork` | `fold` and `fold_fork` of what another home holds, as in `Exchange` |

Every standing runs one `Term`, so `duration`, and the renewals a change of it forces, are left out; `Due` is
the second half of a `Term`. The bounds of an update (`check_bounds`) are not met at this size.

### Standing, Home and the code

Every verb of `Home` has one shape in the code, and so here: it reads the standing with no lock (`Ask...`), waits
for the person, takes `home.lock`, looks again whether what it read still holds (`Join`, `Leave`, `Mint`, ...),
and writes or removes its files one at a time (`Write`), in the order the code does. `...Writes` is that order.

| `Home` | code |
|---|---|
| `files` | `machine/key`, `root.key`, `root.pub`, `key.cert`, `devices` (with what `devices.conflict` adds), `invited-by`, `revoked`, and the two files of a copy in a directory |
| `lock`, `resident` | `home.lock`; `serve.lock` with the key the serve read and the root it admits |
| `acts` | the locals of each command between its reads and its last write |
| `signed`, `stopped` | history: which lists exist to be heard, and the verbs that stopped since one was last done and the home read as whole; no verb reads `stopped` |
| `AskJoin`, `Join`; `AskLeave`, `Leave` | `join`, `leave` (joining.rs) |
| `AskNewKey`, `HoldServe`, `NewKey` | `leave --new-key`, under `serve.lock` from before the key is made |
| `AskMint`, `Mint`; `AskFinish`, `Finish` | `mint` and `finish` (root.rs), with the first or the next list signed for this machine's own row |
| `AskRestore`, `Restore`; `Revoked`, `Undo`; `Newer`, `Recut` | `restore`, and the two ways it goes on after it synced (root/restore.rs) |
| `AskBackup`, `Backup`, `AskForget`, `Forget`, `AskRevoke`, `Revoke` | root/backup.rs, root/forget.rs, `revoke root:<key>` with root/retire.rs |
| `StartServe`, `ServeKey`, `Admit`, `StopServe` | a serve's start, and its `--admit` (home/lock.rs) |
| `Refuse`, `Done`, `Stop` | an early return before the first write, the last return, a crash or a failed write between two |
| `UseCopy`, `Hear` | the copy used on another machine; a list folded from an exchange |

What is coarser than the code. A fold is one step (`Fold` has its steps), and a fork kept is what it adds to the
list's revocations; a second fork adds its own, where the code keeps the first, so more is revoked here than there.
`Admit` asks whether the root is revoked in the step that records it; the code asks a little earlier. The lists of
roots kept elsewhere are the two that exist at the start, and those the copy makes. A list's rows are keys
only: ids and their ends are in `Fold`, names in `Book`.

### Serve and the code

| `Serve` | code |
|---|---|
| `homeLock`, `serveLock`, `record` | `home.lock`, `serve.lock` and the pid in it (home/lock.rs) |
| `leaf`, `socket`, `spoiled` | the runtime directory and the socket in it (serve/single.rs); whether a process left them behind |
| `TakeHome` .. `GiveUp` | `acquire` with `ServeLock::take` and `record` (single.rs 190-268, lock.rs) |
| `Run`, `HearOf`, `RoundEnds`, `Open` | the exposer bound with `control.stop` held, `sync_rounds`' first round and the debounce after it (commands/serve.rs 1020-1061, serve/stop.rs) |
| `Refused`, `Asked`; `Admit`, `Enabled` | the gate's read of `revoked`, at most once per `STAT_DEBOUNCE`, then the question whether the service is enabled (gate.rs, stop.rs 131-150) |
| `Connect`, `Attribute` | the socket's listener and its pid, compared with the one recorded (node_client.rs) |
| `Ack`, `Note`, `Cancel`, `Dropped`, `CutSession` | the ack before the stop, and the drop that stops all the same (stop.rs 60-110) |
| `Finish`, `Interrupt`, `Fail`, `Expire` | what ends a run (serve/resident.rs 360-420) |
| `Unlink`, `RemoveLeaf`, `Empty`, `Unlock`, `Die` | the teardown's order, and a kill anywhere |

`StopHeld` is about calls admitted once `control.stop` was open: a call admitted before is refused by `Enabled`
unless it opens between the two. What a cut session's caller reads is the transport's. `GiveUp` after the leaf
is made leaves the leaf, as `acquire` does; `spoiled` excepts it from `Tidy`. While a serve empties the record on
its way out, a start that loses the race reads nobody, and says that this machine's key is being replaced: its
words, not its refusal, are then wrong, and no property speaks of them.

### The parts of MCServing, MCReaching and MCHost

`Gate`: `Look` is the read when one is due, `Sweep` the live cut; a root that `--admit` gave stands as long as the
serve. `Control`: `Resolve` to `Read` are the phases of one question (node_client.rs 71-330); `Elapse` is a time
limit of the serve's side; a listener of another user is one that fails, and a pid used again matters only to `alive`.
A command is `rooted` when it knows the runtime directory (`XDG_RUNTIME_DIR`); one that is not has no path to the
socket, and `UidSocket::resolve` reads that as no serve (node_client.rs 67-74).

`Links`: a share recheck (`Recheck`) and append are two steps under `home.lock`; the serve's read (`Read`)
keeps the rows with their stamp, and trims the uses to the rows only when the ledger could be read: a missing file
trims nothing. `Services`: a serve takes away live what the file turns off and gives only at its start. `Entries`
has what a typed entry means (`Saved`, `Binds`, `AsTyped`), `Start` what a start does with it; typing and taking
the lock are one step. A line with no name is cut at an `=` its path holds (`HoldsEquals`, serve.rs 203-213). `Watched`:
`Stamp`, `Compare`, `Read`, `Keep` are the loop of `refresh`, one file at a time; `Unreadable` is a failed read that
keeps the list there was, `Swallow` one that `ContactsStore::open` takes for a file that is not there (contacts/store.rs
60-63), and the history `short` has which reads left a part out so.

`Renewal`: a standing is the time it ends. `Round`, `Exchange`, `Silent`, `Refuse` are what a round comes to with one
device, `BeforeDial` and `EndRound` the two moments the route is asked, `Answer` and `Takes` its two ends; the history
`left` has each standing this machine put aside and no person gave it again. `Keys`: an
act is a verb's whole plan of writes, read before the prompt (`Begin`, `Answer`) and applied under `home.lock`
(`Write`). `People`: `Show` .. `Remember` and `Learn` are the question after a dial and its answer; `RevokeOld` and
`SaveReplaced` the two writes of `contact add --replace`, and a link is bound to a person's root (`fleet`) or to one
machine (`machine`), of which `--replace` ends the first kind (`FleetTo`, contact/add.rs 285-298). `Dial`: `Begin`, `Keys`, `Role`, `PickUp`, `Resolve` and
`Slots` each read the home at a time of their own, and `Join`, `Pin`, `Leave` and `Replace` write it between them.

## 3. Runs

| run | instance | states | what it shows |
|---|---|---|---|
| `fold` | 1 home, 2 processes, 4 cuts (two numbered 2), clock 0..2, standings ending at 1, 2, 3 | 2.4 million | `HeldCovered`, `ForkNoticed`, `SomeoneToAsk`, and that `Fold` implements `Holdings` (`HoldsContract`) |
| `exchange` | 2 devices that both cut and dial, 1 outsider, 4 cuts (a fork at 2, a cut at 3 that revokes a device), 1 fault | 680 thousand | every answer is true (`AnswersHold`, `OnlyOvertaken`, `ForkLeft`) and nothing goes back (`NeverBack`) |
| `spread` | 3 devices, of which 1 dials; 3 cuts with a fork; 1 fault; fairness | 3.8 thousand | both sides of an exchange end (`ExchangeEnds`); every cut reaches every device (`EveryoneHears`) |
| `rootact` | 2 homes, the root kept at one, an act there; two acts with a copy at the other, and a revoke there with no root; 1 stop; clock 0..1 | 507 thousand | `ActsSound`, `CutIsNewest`, `CutCarries`, `Handed`, `RevokedForGood` |
| `home` | 1 home, 2 commands and a serve at once, 3 roots of which 2 are kept elsewhere, 2 keys; 3 verbs, 1 stop, numbers up to 4 | 2.0 million | `NamedVerb`, `Completes`, `InStep`, `OwnList`, `Kept` |
| `serving` | `Serve`: 2 serves, 1 key replacement, 1 device, 1 local command, a debounce of 2; `Gate`: 1 root, 1 device, 1 link; `Control`: 2 serves, one admitting, one with a status too large, 2 commands, 1 slot | 287 thousand | `OneServe`, `StopHeld`, `SaysWhy`, `ClaimedStops`, `StopOpens`; `Untrusted`; `DownIsDown`, `StoppedStops` |
| `reaching` | `Round`: 3 devices, 3 cuts with a fork, every home starting from any or none; `Renewal`: 2 peers, 3 lists, clock 0..2, 1 fault; `Dial`: 2 things typed | 598 thousand | `RoundTrue`, `RoundsEnd`; `NothingBack`, `PicksUp`; `DialEnds` |
| `host` | `Links`: 2 links, one of one use, 2 keys; `Keys`: 2 commands, 2 keys, 1 passphrase; `People`: 1 person, 5 keys, 1 link, 2 commands; `Watched`: both lists, 3 writes, 1 fault | 3.0 million | `LinksTrue`; `KeyByOwner`; `BookHolds`; `NoneMissing` |
| `typed` | `Services`: 2 names, 2 targets; `Start`: 2 starts, 8 lines typed, 2 edits; `Dial`: 2 books, 8 things typed | 1.2 million | `ServesAsSaid`; `StartsAsTyped`; `PresentsRight` |
| `overtaken` | 2 devices, 1 dials; 4 cuts: 2 by one copy, 2 and 3 by another; no fault; fairness | | violation of `TwoCopiesReported`: see Findings |
| `homeundo` | as `home` | | violation of `UndoesItsOwn`: see Findings |
| `homemade` | as `home` | | violation of `MadeUnused`: see Findings |

Ten more findings keep a configuration of their own: `MCRootUndone.cfg`, `MCRootCopy.cfg` (of `MCRootAct`),
`MCHomeSwitch.cfg`, `MCHomeBackup.cfg` (`MCHome`), `MCStillNamed.cfg`, `MCTwoLocks.cfg`, `MCAddedIsServed.cfg`,
`MCSlotsOwn.cfg` (`MCHost`), `MCAdmitShown.cfg` (`MCServing`) and `RenewalNextTime.cfg` (`Renewal`). Each is checked with
`tlc -config X.cfg M` and ends in a violation of its one property. Two more need none: `KeptWhole` put in the place of
`NoneMissing` in `MCHost.cfg`, and `PrintedWorks` beside `PresentsRight` in `MCTyped.cfg`, end in a violation there.

Every property of a passing run is broken by a mistake of a plausible kind in the code: the mistaken
operators stand in the modules above the operators they are mistakes of (`TakeUnlocked`, `AddKeysOnly`,
`ForgetFirst`, `FoldGivenEarly`, `RoundEndsAtOnce`, `DroppedUnarmed`, ...).

**Bounds, and why they are enough.** Two processes are the fewest that can race, and with one lock a third
only repeats what the second can do. Four cuts give what a home tells apart: below, same, same number with
other bytes, above; a fork whose revocations the next cut carries and one it does not; a cut that revokes
this machine. The clock crosses the end of one standing before and of one after the cut that renews it.
In `exchange` two dialers on two machines give crossed exchanges; one fault (`MaxFaults`) breaks any single
point of any exchange and the exchanges after it show the recovery. `MaxTime` and `MaxFaults` are the only
caps; numbers are bounded by `Signed`. The theorems hold without any of these bounds.

In the root acts two copies that each cut once or twice give every relation of two lists: behind, level and
other, past. `MaxIds` is 2 where the code has 4, so that one renewal on each copy already meets the cap; the
list acts start from has a device whose key was handed out (it can be rekeyed), one that is due, and not the
machine that keeps the root, whose row `carry_own` then adds. `MaxTime` and `MaxStops` are the caps. In these
instances no act is overtaken by `MaxIds` renewals made elsewhere while it waits; if one were, the standing it
hands out would be the oldest and be revoked by the cap.

In `home`, three verbs (`MaxActs`) are one that leaves something behind by its stop (`MaxStops`), and two that
meet on what it left; or two that interleave and one that finds the result. Two roots kept elsewhere let a
device switch; the third is one to be minted here. The second key is what `leave --new-key` makes. Number 4
is reached by a copy used twice elsewhere (`UseCopy` stops at 3), so that a restore can still sign over it and
`Recut` over what it then hears. The two roots kept elsewhere and the two commands are symmetric: no definition
names one.

In `serving`, two serves and a key replacement are every kind of process that takes `serve.lock`, and the fewest
of which one can lose to another of its kind. A debounce of 2 ticks lets a stat be older than the round by less
than a debounce, by exactly one, and by more. In `Control` one slot and two commands fill the accept loop. In
`reaching`, three lists and a clock of 2 let a standing pass its date, be renewed, be revoked by the cap and be
renewed again; `MaxFault` is one exchange that fails. In `host` and `typed` each part is small because what it tells apart is:
a link that has its row and one that has not, a key that was and one that is, a name on, off and gone, a book
that has the key and one that has it under another name. `MaxWrite` 3 in `Watched` gives a write before, between
and after the stamps and the reads. `Dial` is in two runs: the small instance carries its liveness, the larger
its safety.

`fold`, `serving`, `reaching`, `host` and `typed` set `CHECK_DEADLOCK FALSE`: once the clock is at its bound and everything
is revoked nothing need happen, as in a home nobody writes to, and a round, a dial and the acts of a command are
over when they are over. So do the runs of root acts: each act is run once; and those of `home`, where each
command ends. In `exchange` deadlock is checked.

**Fairness.** `FairSpec` has weak fairness of each running side: a task that has a message or a closed
stream proceeds. It has strong fairness of `Dial` to each device with the update held: `sync_rounds`
(bin/swoosh/commands/serve.rs 1036-1061) dials hourly for as long as a serve runs, in random order
(sync.rs 543-557), so each listed device that keeps being dialable keeps being dialed, even if a round
stops early. A round alone (`Round`) is one task with weak fairness; its time limit and the other exchanges
need not happen.

In `Serve`, `Tick` is the clock; `GoesOn` is the task of the first round, which every exchange's limit bounds
(`EACH`, and `ROUND` for the whole), and the exposer, which sees the cancel; `Note` and `Cancel` of one caller are a
handler, which waits `ACK_GRACE` at most. Claims, teardowns, signals and kills are not fair. In `Gate`, the sweep
and the two debounces are the clock's. In `Control`, `Comes` and `Fires` are the accept loop and the timers of one
serve. In `Renewal`, this machine goes through its rounds and a peer that is asked answers; that a peer holds the
renewal is the property's premise, and nothing makes lists spread. In `Dial` only the limit of the question and
the close are fair: the verb, the exchange and the other machine may take for ever. A composed run weakens these:
as one part runs, weak fairness of a disjunction of one step from each part is weak fairness of each of those
steps, and of the disjunction alone where a part gives two steps that follow one another.

Cuts are a person's choice and faults are bounded; neither is fair. Nothing is assumed of
dialing commands or offers.

## 4. Properties worth a second look

- `HeldCovered` (`Fold`): at every moment, mid-fold and after a stop, every revocation of the list held and
  of the fork kept is in the one file the gate reads. It depends on the order of writes in `fold`.
- `ForkNoticed` (`Fold`): speaks of what *was folded to its end*, so it catches a floor read outside the lock.
- `HoldsContract` (`Fold` implements `Holdings`): among others, a fork goes only when the update held carries
  it, at that time, which depends on the clock.
- `AnswersHold` (`Exchange`): the answer is given on reads that may be stale by then; it is
  true because homes only grow, not because nothing happened in between.
- `OnlyOvertaken`: honest devices are out of turn, or refused, only when one of them really folded past the
  update. With `Dial` naming an older cut (`offer`), this does happen.
- `ForkLeft`: after `forked` or `fork recorded`, evidence is on disk or a later list is held.
- `EveryoneHears`: from any device that dials, through devices that never do.
- `ActsSound` (`SoundBooks`, `OwnNotFirst`): whatever names, keys and renewals two copies gave the same devices, what an act signs from can
  be built into an update. It depends on the order in which `take_member` revokes, renames and merges.
- `CutIsNewest`: the number of a cut is past what the home holds at the fold, through the prompt and `again`.
- `Handed`, `RevokedForGood`: what the person is told after a commit is true of the list that was committed,
  whatever was heard between the prompt and the lock. These are what the four questions of `again` are for.
  No clash of names has the machine that keeps the root revoke itself.
- `CutCarries`: every standing and every revocation the home's update speaks of is in the cut, so that no
  standing the root ever signed is beyond a later revoke. It needs `rekey` to keep the old key's ids. It is claimed while no act has stopped between
  its copy and its fold (`stops = 0`): after one, `MCRootUndone.cfg` and `MCRootCopy.cfg` show what goes wrong.
- `NamedVerb` (`Home`): after any stops of any verbs, with any other verb run meanwhile, a home reads as whole or
  as the work of a verb that stopped and that its error names. It depends on the order of every verb's files. A second
  verb may be done while the home is still another's unfinished work, so `stopped` is a set, emptied when a verb is done
  and the home reads as whole. An undo is among the verbs that may leave a mint's root or a pin behind: it asks nothing.
- `Completes`: a verb that returns has done what it says, whatever ran between its reads and its lock. This is
  what the second look under `home.lock` is for. `Missed` says what is not looked at again: whether the root is revoked
  here, this machine's key, and which key the directory of a backup holds.
- `InStep` (`NeverBoth`, `KeyServed`): a serve's `--admit` and its key, against every verb that pins a root or makes a key.
- `Kept`: the only key of a root made here is never removed unless that root was revoked here; the undo of a
  restore is excepted, and a backup that acts on what it read before the lock (`Stale`): `UndoesItsOwn` and
  `NeverAnothersKey` show why.
- `OwnList`: a machine with a standing never reads another root's list as its root's, through every switch and stop.
- `StopHeld` (`Serve`): a device that a list of the first round revokes cannot stop the run by a call that finds
  `control.stop` open. It needs the whole debounce between the round and the opening, since the gate may go on
  answering from a stat that is just older than the round.
- `ClaimedStops`: a caller that read the ack was told the truth, even when the live cut ends its session, or the
  exposer drops its handler, before the stop.
- `OneServe`: of two starts and a key replacement one has the home, its rendezvous is its own to the end of its
  run, and a refused start never names a process that is not there.
- `SaysWhy`: a run that was cancelled knows by whom: whoever cancels has noted itself first.
- `Untrusted` (`Gate`): a session whose root or link the files refuse for good is ended, whatever was read when.
- `DownIsDown`, `StoppedStops` (`Control`): no mix of an old record, a new socket and a reply cut short is told as
  "no serve runs" or as "stopped". One thing is: `status` and `service` run where no runtime root is known say that
  none runs beside one that listens (node_client.rs 69-73), and `DownIsDown` excepts them. The question the other verbs
  put (`serve_running`) falls back on the pid recorded in `serve.lock`, and is covered wherever they run.
- `RoundTrue` (`Round`): at its end a round names nobody as level whom a take left behind, and has asked everybody.
- `PicksUp`, `NothingBack` (`Renewal`): a machine whose standing is no use gets the one its devices hold; and what it
  put aside, for a later one or as it joined another root, never comes back from a list that spreads late, a lagging
  peer or an answer asked for before the home was joined away and back.
- `LinksTrue` (`Links`): a link admits for what it was made for and while its row is there, and a one-use link
  once, through restarts, an unreadable ledger and a key replaced between the writes.
- `ServesAsSaid` (`Services`), `StartsAsTyped` (`Start`): what is off stays off, live and through restarts; what a
  start saves serves the next bare start the same.
- `KeyByOwner` (`Keys`): no interleaving of lock verbs, a replaced key and a root that comes leaves a sealed key plain,
  and a key is replaced only by the verb that says so.
- `BookHolds` (`People`): a key has one name; a key whose name goes leaves no live link of that moment, but for one: the
  key of a replaced root may have been a machine's name when a link was given to it, and that link stays live, as only
  links bound to it as a root are ended (`LeavesNoLink`). A share that asked before and signs after is `StillNamed`.
- `NoneMissing` (`Watched`): a list that would not be read again misses nothing of what the files list, unless a part of
  it was left out in silence: without that exception it is `KeptWhole`, and false (section 5).
- `PresentsRight` (`Dial`): a throwaway key never goes with this machine's standing, whatever changes between reads.

## 5. Findings

`overtaken` (`TwoCopiesReported`): root.rs 1301-1302 tells a person whose root act could not sync that "If
another copy of it has been used since, a device will report two copies". A device reports two copies when it
keeps a fork, and a fork is two lists of *one number* (fold.rs 110-119). If the other copy has cut twice, a
device that holds this copy's list 2 takes the other's 3 as plainly newer: no two lists of one number meet,
no device reports anything, and the revocations this copy made stay on the devices that had folded its list
2, until that copy cuts again. The counterexample needs two devices, one dialer, no fault.

`MCRootUndone.cfg` (`HeardCarried`): the comment on `commit_to` says that "a list folded while the act waited at its
prompt is carried by the cut and never forked or undone by it" (root.rs 1102-1103). `forward` takes the update
held into the records only when its number is *above* theirs, or a fork is kept (2147-2151). A copy used at
another machine has a list this home may not have heard of; when an update of the same number, cut with the
root elsewhere, is folded here, the copy is not behind and nothing of that update is brought. The cut is one
number up, so every device takes it for newer, and the devices the other list added are gone; in the
counterexample the machine that keeps the root is one of them. Revocations of that list of keys the copy
never listed are lost in the same way. In this counterexample the copy is ahead of the home it signs at. Where each
copy stays at one machine a second way is left: the fork kept at a home may be numbered *above* its update, as
`fold_fork` takes it "whatever its number" (fold.rs 154-157) and the dialer keeps the fork of an act whose
`offer` named an older cut (sync.rs 163-171, 194-195), or whose update failed to fold (309-325). An act unlocks and
`forward` brings that fork and its number; the home then folds the update of that number, which clears the fork; at the
commit the records are level with it and no fork is kept, so nothing of the update is brought. It takes two copies at
machines of their own, a machine that keeps the root, and a device both copies revoke: three homes. In `rootact`, with two,
no fork is above its home's update and `CutCarries` holds: `TwoMachinesCarry` (section 6) proves it of any two
machines. The proof of `RevokeIsForGood` met the same
from the other side: a revoke with such a copy, of a key the update held revokes already, has nothing to cut and is
reported done, and the name stays listed there under a key the revoke never saw.

`MCRootCopy.cfg` (`CopyAdvances`): the comment on `Act::beside` says "a copy's list is only ever replaced by a higher
one" (root.rs 464-465). The number compared is that of the list the act read before its prompt, not of the one
it overwrites. If another act on the same copy wrote its list meanwhile and stopped before its fold, the home
is still at the old number and the second act writes another list of the same number over the first.

`MCHomeSwitch.cfg` (`NeverAStanding`): the head of joining.rs says of a crash between the files that it leaves a state
that is never read as a standing (4-6). A move to another root (`--switch`) removes the old list and writes
`invited-by` before it writes the standing (44-54). Stopped there, the old root's standing and pin are both in place:
the home reads as a whole device of the old root, with no list. What is read is true; it is not nothing.

`homeundo` (`UndoesItsOwn`): a restore whose sync shows this machine revoked says it takes *the restored root* off
again (root/restore.rs 438-439). The undo takes `home.lock` and removes whatever `root.key`, `key.cert` and
`root.pub` are there by then (454-459), without the second look that every other verb takes. If the restored root was
revoked here and another minted or restored while the sync waited, it is that one's key that goes. That is why `Kept`
excepts it.

`MCHomeBackup.cfg` (`NeverAnothersKey`): a backup "never writes into a directory that holds something else", and "another
root's key" is something else (root/backup.rs 162-164). `backup` reads which root is kept and what the directory holds
before `home.lock` (86-96); under it, it reads `root.key` as it is then and writes it where the copy's key differs
(116-125). In the counterexample the root is taken off again while the backup waits, as its restore finds this machine
revoked; a mint of another puts its `root.key` and stops before its list; and the backup writes that key over the first
root's copy. `Missed` and `Stale` are how `Completes` and `Kept` except it.

`homemade` (`MadeUnused`): the doc of `replace_made` says that nothing has used the key it replaces (identity.rs
888-889). A bare `join` prints the key it made and waits with no lock. Another join can take a standing for that key
meanwhile; the keyed invite then replaces it under both locks, and only after that is the standing looked at
again. The home is left with a standing for a key that is gone, which reads as damage.

`MCStillNamed.cfg` (`StillNamed`): `contact rm` refuses while a link is live, because "with the name gone `revoke <person>`
could no longer find them" (contact/rm.rs 3-5). `share` reads the name, asks, signs, and under `home.lock` rechecks
the key and the serve (share.rs 555-562) but not the name: a contact removed while it asks leaves such a link.

`MCTwoLocks.cfg` (`TwoLockRule`): beside a kept root "the key keeps a passphrase beside `touch-id`" (identity.rs 303-305).
Whether a root is kept is read before the prompt. A root that comes meanwhile finds a key with a touch alone.

`MCAddedIsServed.cfg` (`AddedIsServed`): `service add` prints that an entry "is served when swoosh serve next starts"
(service/edit.rs 102). A start with a named list keeps the off rows of the names the list already had and drops those
it does not name (serving.rs 332-346): a name turned off, dropped and added again is listed, and off.

`MCSlotsOwn.cfg` (`SlotsOwn`): slot 2 carries the standing "ONLY when the slip pins the SAME fleet" (reaching.rs 254-259).
The pin and the badge are two reads (289-298): a leave and a join between them send the new standing under the old pin.

`MCAdmitShown.cfg` (`AdmitShown`): what `serve.lock` records can name a serve that has stopped, and "`serve_running` asks
first" (home/lock.rs 110-111). `status` asks it after (status/report.rs 234-235), and can name a root that no serve
admits any more.

`KeptWhole`, in `MCHost`: "A book that cannot be read keeps what was read before, and is read again at the next refresh"
(serve/lookup.rs 152-153). The files it is read from are the book, the pin and the list of devices (172-173), and only
of the book is that so. The open takes a pin, revocations or a list that cannot be read for none
(contacts/store.rs 60-63, roster/fold.rs 174-176), and `refresh` keeps the names without `me` under the new stamps
(lookup.rs 163-169). One failed read, and your own devices are strangers to the lookup until a file changes.

`PrintedWorks`, in `MCHost`: `as_typed` is "What a line that hands an entry back to the person prints, so the command it
shows is the shortest that works" (serve.rs 246-247). Of an inbox named `recv` in a directory with an `=` in its path it
prints `recv:/a=b`, which `service_entry` reads only where there is no `=` (209), and refuses: its name would be `recv:/a`.
`TypedBack` excepts that entry and no other.

`RenewalNextTime.cfg` (`NextTime`): a device offline while a cut revoked its renewals over the cap "picks it up the next
time it reaches one of your devices" (root.rs 1988-1989). Such a device's standing has not passed its date and its
revocation is not known here, so the pick-up is not due (renewal.rs 208-220): refused by everybody, it asks for nothing.
`PicksUp` says what does hold: it has the renewal once its own date has passed.

Seen while modelling, and shown by no run, because the code promises nothing to the contrary:

- `mint`, `join` and `restore` take this machine's key before the lock. On a home with no standing,
  `leave --new-key` meanwhile leaves the standing as it was, so `still` (root.rs 1652, 1668) sees no change, and the
  verb ends as "standing for another key". `Missed` excepts it from `Completes`.
- `join` (joining.rs 139) and `restore` (root/restore.rs 199-204) ask whether the root is revoked here before the
  lock only. A root revoked meanwhile is written and then reads as none, so this fails closed.
- A stop in a restore's undo leaves a pin with no standing, the damage standing.rs 115 puts down to a `leave`.
  `leave` does finish it.
- `backup` judges the directory's list before the lock (root/backup.rs 96-113), so of two backups to one directory
  the one that read first may put its older list back.

## 6. What is proved

All for any number of keys, ids, signed updates, processes, devices, dialers and faults. Each module's theorems rest on
the assumptions it names, which TLC evaluates on every run of that module, and on nothing else:

| assumption | says | because |
|---|---|---|
| `SignedAssumption` (`Update`) | a signed update has a number above 0, and lists no standing of a key it revokes | `Book::follow_keys` |
| `NamesAssumption` (`Update`), `StandingAssumption`, `KindsAssumption` | keys, ids, lists and "none" are different things | types |
| `NamesAssumption`, `BookAssumption` (`Book`) | keys are finitely many and ordered, and names never run out | `free_name` counts up until a name is free |
| `NewKeyAssumption` (`RootAct`) | a key handed out by an act is on no list yet, and by no two acts | a fresh key pair |
| `ActAssumption` (`RootAct`) | each act runs on one home, and the list they start from can be built and has no standing an act of these signed | `Update::build` |
| `OrderAssumption` (`Round`) | the order drawn names no device twice | a shuffle of the list's keys |
| `ServicesAssumption` (`MCHost`) | what a bare start serves of no recorded list is a list | the default of `Started::bare` |
| `PeopleAssumption` (`MCHost`) | a root is one of the keys the book may hold | roots and machines' keys look alike |
| `StartAssumption` (`MCHost`) | lines are entries; a directory is neither no path nor the relative one; no recorded list is the absence of one | types |
| `LinksAssumption`, `HostAssumption`, `KeysAssumption`, `ReachingAssumption`, `ControlAssumption`, `ServeAssumption`, `HomeAssumption` | typing of the constants | |

`FoldProofs` (`IInv`). `HeldCovered` is not inductive: a process between `Add` and `WriteDevices` must be
known to have added all that its update asks *at the time it added it*, and since ids only end as the clock
moves, that is enough later (`Owed` shrinks with time). The invariant therefore says of each place in a fold
what is already refused, that only the holder of `home.lock` is in a fold, and that what it read then is
still what the files hold. From it: `TypeCorrect`, `AlwaysCovered`, `AlwaysNoticed`, `AlwaysSomeone`, and
`FoldRefinesHoldings`: each action of `Fold` is one step of `Holdings` or a stutter.

`ExchangeProofs` (`IInv`). Homes only grow (`Grows`); every message on the way is true of the homes it speaks
of (`UpMessage`, `DownMessage`); each local read is true of the home it was read from (`Place`); the answer
is true (`True`). Lemmas named `...Stable` show that what was true stays true while homes grow, so a step of
one exchange cannot disturb another's; the proof then has one lemma per action. From it: `TypeCorrect`,
`AnswersTrue`, `AnswersOvertaken`, `ForksLeft`, and the action property `NeverGoesBack`.

`ServeProofs` (`IInv`), for any number of starts, key replacements, devices and commands and any debounce. `Locks` says
who holds which lock at each place of the claim and the teardown, and that the record is the holder's or empty;
`Made` whose the socket is and when the directory is there, with what is excepted once a process was killed.
`StopHeld` needs `Reads`: what a round heard is in the file, and while the wait runs, either the gate has read it, or
the age of its stat and the wait left add up to a debounce (`OlderShape`, `AskedShape`), so that when `control.stop` opens
the next question reads the file. From it: `TypeCorrect`, `OneServes`, `StopIsHeld`.

Beside it `Why` says of each call what its run knows: a run that is cancelled has a source or a deadline behind it, and a
call that was noted has left a source. Each step keeps it and owes what was acked (`Owes`): the handler that drops notes
before it is gone, and the exposer's end takes whom it owes. From it: `EndsSayWhy`, and `AckedIsOwed`, what `ClaimedStops`
rests on that is not liveness.

`ServeProofs` also has `Control` (`CInv`), for any serves and commands: what a command has concluded so far goes with a
moment while it asked at which none listened (`May`, `Asking`), and
the record names whoever is up; left out is `status` or `service` with no runtime root (`SaysNone`). From it: `SaidDownIsDown`.

`BookProofs` and `RootActProofs` (`IInv`), for any homes, copies and acts and any list they start from. `BookProofs` says of
each operator on the records what it keeps: one row for a key and one for a name, no row of a revoked key, no row past
`MaxIds`; `BringForward` is taken apart by where each row comes from (`BroughtFrom`, `TakenFrom`, `ForwardedFrom`). The
invariant has the lists well formed (`Lists`), the records sound at each place of an act (`Books`, `Room`), a key that is
made nowhere before it is signed for (`Fresh`), and no machine refusing its own key (`Spared`, `OwnKept`). From it:
`RecordsSound`, `CutPastAll`, and of what an act tells the person `RevokeEnds`, `HandedIsListed` and `OwnSpared`.

What an act tells the person about the list it commits needs more, as that list may be another act's. Two arguments carry it.

- A revoke: `Opened` and `Gathered` say that its records speak of every device of the list beside the key, and of the
  home's update if that was ahead, so when there is nothing to cut the name is gone from what is held too (`NameEnds`). This
  asks that the list committed is past the lists the revoke was given (`Past`), and that is no weakness of the proof:
  a list of the same number or a lower one than the records' is not brought forward, which is `HeardCarried` of section 5.
  `RevokeIsForGood` is `RevokedForGood` for every run in which that holds of each revoke; TLC finds it of every one
  that commits in the instance of `rootact`.
- A standing handed out: `Unsaid` says nobody knows of a standing before the commit of the act that signed it; no list, no
  refusal, no other act's records. So nothing brought forward can revoke it, but `take_member`'s cap, and it is lost only
  from a row that is full. `BookProofs` has what `forward` keeps of each id (`KeptFrom`, `ForwardKeeps`), `GivenListed`
  what the records have of the standing when it is signed. From it: `HandedStays`, and `HandedIsGood`, which is `Handed`
  wherever each act handed out a standing it signed itself, for a device with room left. The cap
  keeps the latest, and what was signed elsewhere while the act waited at its prompt may end later than what it signs,
  which counts from before the prompt: with no room `Handed` can fail, so it needs that hypothesis;
  what an act prints without signing is a standing made by another act, of which `Unsaid` says nothing.

What an act cuts carries what its home holds (`CutCarries`) only as long as each list numbered no higher than the records
was brought into them. The argument is in two parts.

- `CutHolds` needs no such hypothesis: it says of a cut that it has the revocations of the fork kept, and all of the update
  held if that is past the lists the act was given, or one of them (`Level`). By `ListsSpoken` the records have, of every
  device of a list they read, the ids in force, or revoke its key. That an id is then revoked by its own key needs to know
  whose id it is: a row lists ids of its own key, those the first list had for it, and, after `invite --new-key`, those of the
  key it replaced, which a revoke of the new key must still reach. So `Tracked` follows the last two through every list, copy
  and records (`Traced`; `Replaced` is what each new key took over, and as nobody heard of the key before, `Fresh`, its row
  is the only one that can have them). `BookProofs` has what each operator does to ids (`Over`, `Bears`, `Traced`): for
  `BringForward`, that an id in force leaves a row only to be revoked. From it: `CutKeepsWhatIsHeld`.
- `Levels`: up to the first stop, the list beside a copy's key is what its home holds, or lower, or the cut the home is about
  to hold; so is the list each act read, and the fork it was given is no higher than the update it was given. This asks that
  a copy stays on one machine (`CopiesStay`) and that no home keeps a fork above its update (`NoneAhead`): the two
  things that go wrong in section 5. From it, of every such run: `CutsCarry`, and `Past` of every revoke, so `RevokesForGood`.

Of two machines `NoneAhead` needs no assuming: a fork has the number of what both held when it was kept (`ForkBehind`). So
`TwoMachinesCarry` rests on the constants alone, and covers the instance of `rootact` with any number of acts, copies and keys.

`RoundProofs` (`IInv`), for any devices and order. `Picked` is a recursive function; that it picks from the order, each that
qualifies and none twice (`PickedFrom`), is proved by induction, which is got here from the well-foundedness of `<` (a set of
numbers has a least one), a fact of the library that takes no operator. From it: `RoundIsTrue`. For `Renewal`
(`RenewalInv`), with any peers, lists and faults: the standing is of the pin, and whatever is presented for the root of the
lists, or was fetched and waits, is a row of a list that root signed. From it: `StandingIsSigned`, which also has what any
step may do to a standing under one pin; and `NothingComesBack`, by `LeftInv`: a standing put aside of the root this
machine presents one of ends before that one.

`HostProofs`, for any links, keys, targets, books and bounds: `Links` (`IInv`: who is under `home.lock`, what each row was
written for, what the uses on disk and the gate have of it) gives `LinksAreTrue`; `Watched` (`WInv`: a stamp that is still
the file's means the content read is, for as many files as were stamped so far, of a list no part of which was
left out in silence) gives `ListsMissNone`; `Dial` (`DInv`: what
each read has, in the order of the reads) gives `DialPresents`. The others:

- `Keys` (`KInv`) gives `KeyIsTheOwners`. Locks come off in two writes, and a file between them may have one; so the
  invariant has the plan each command has left (what `touch-id` takes off last, it has put the other lock on before), and
  that at most one command, the one with `home.lock`, is at its writes.
- `People` (`PInv`) gives `BookIsKept`. The name of a key is one only because every save looks for the key's holder under
  the lock; the invariant (`EditOk`) says what each command that has the lock has read and may rely on: that its new root
  has no holder but the person, and that, once it revoked the old root's links, none of them is live.
- `Services` (`SInv`) gives `ServesWhatIsSaid`: a serve that has seen the stamp of a good file holds what the file says,
  whether the write came before, between or after its stat and its read; what was turned off by hand has its row.
- `Start` (`TInv`) gives `StartsWhatIsTyped`: only the holder of `serve.lock` is on its way, its record is what it has come
  to, and what a named start saved last is absolute (`Plain`), so that it leads from any directory where its entries did. It
  rests on lemmas of `Entries`: `ShortestBack` (the shortest line gives the entry back), `ReadAgain`, `NamedList`.

`HomeProofs` (`IInv`), for any commands at once, any roots and keys, any number of verbs and stops. None of the properties
is inductive: a verb writes up to six files, and each home in between must be right, whatever was there when it began.
The invariant has four parts.

- `Good`: what any home is like between two files: a root and a pin that both count are the same root, whose list is here
  (`OneRoot`); a device's list is its root's (`DeviceList`); a standing beside a root half made is that root's, or revoked
  (`HalfMade`); a root kept after it was revoked leaves no standing (`Spent`).
- `Read`: what each verb has read, beside the home as it is now. A verb that waits for the person knows little of the home,
  so this says what it can still rely on: `StillOwn`, that the list a `finish` read is still that root's if it is there;
  `FirstRead`, that a machine never gets its first key back; `CopyTodo`, how far a backup and a forget are.
- `Unheard` and `Alongside`: a root before its mint puts it here is nowhere else; what the serve that runs holds beside
  each verb.
- `InFlight`: a `Path` from the home as it is, through the files the verb with `home.lock` has still to write, to a home
  in which it has done what it promises (`Ends`). Each home on the way is right, and if the verb stops there the
  reading is one a verb finishes (`Sound`); each file changes no more than it may (`Fair`: it loses no root but one revoked,
  pins nothing but in the four verbs that pin, makes no key but for `leave --new-key`). The copy's list is left out of these homes
  (`Here`), as the copy is used elsewhere while a verb writes.

`...Leads` proves for each verb that its files, in the code's order, are such a path, by composing steps of one file
(`...Goes`, `...Comes`, `PathJoin`); `...Keeps` has one lemma per action. `Write` then moves along the path, `Done` is at its
end and `Stop` anywhere on it. From it: `NeverUnnamed`, `VerbsComplete`, `ListIsOwn`, `ServeInStep`, and the action property
`LastKeyKept`. Two things the proof found are in section 5: the set in `stopped`, and the backup.

Only model-checked: of `CutCarries`, `Handed` and `RevokedForGood` the cases the hypotheses above leave out (`HeardCarried`,
section 5, gives both ways in which the first fails without them); and
everything that must eventually happen (`ExchangeEnds`, `EveryoneHears`, `ClaimedStops`, `StopOpens`, `Untrusted`,
`StoppedStops`, `RoundsEnd`, `PicksUp`, `DialEnds`), as liveness under fairness is out of the prover's reach. The refuted
properties are refuted by TLC.

## 7. Where it could go on

1. `CutCarries` for more than two machines with no hypothesis on forks: which orders of the dialer keep a fork from
   getting ahead of the update it forked from (`NoneAhead`), and what a cut carries of a home where one did.
2. `Handed` of a standing an act prints and did not sign.
3. The stages of `backup` and `restore`, and the witness of `revoked`, which are the files the models still take as they are.

## 8. What is not modelled, and why

- Cryptography, encodings and bounds of messages: an update that does not verify is never folded; sizes are
  refused before anything is written.
- `synced`: a timestamp written best-effort after an exchange, read only to decide when to dial.
- In `Exchange` the clock stands still (`Now`): what the end of ids changes is `Fold`'s subject. A failed fold
  leaves nothing there: what a half-done fold leaves is `Fold`'s subject too, and only adds refusals.
- In `Exchange` a copy of the root is the device that holds it; copies in a directory are in `RootAct`. Before its first list a device may dial any machine, for whoever invited it.
- In `Home`: a home with no key, and what adopts one. In `RootAct`: `inspect` and `unchanged`, a renewal inside a presented act
  that changes nothing, the bounds of an update, and `CutCarries` after an act stopped partway.
- In `Links`, `Services` and `Start`: the relay and the resolver of `serve.toml` (a start's relay is kept), what is refused
  of a receive directory, warnings about links made for another target, and the checks of `--admit` (in `Home`).
- In `Watched`: a file that is removed and made again with the same stamp, which costs one key more, and `root.key`.
- In `Renewal`: forks, this machine's key revoked, and a standing's length: `Fold` and `Exchange` have the first two.
- In `Keys`: the text of messages, the three tries of a prompt, the health of `touch-id` where the choice is the
  person's; the key store is external, and is modelled by what the code asks of it.
- In `People`: the list of your own devices, which stands still, and a root typed as a bare recipient key; the sweep
  and `tell_each` of `sync`. In `Dial`: revocation in `is_due` (`Renewal` has it), what an exchange and a telling write
  (`Exchange`, `People`).
- In `Control`: the rows a status prints; a pid that is used again, except where `alive` asks.
- The witness of `revoked`, file ownership and modes, which label a name prints, addresses and transports, the bytes of
  forwarding verbs, the command line.
