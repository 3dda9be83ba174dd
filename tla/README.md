# ai-credentials-helper in TLA+

`credentials-helper` moves the OAuth credentials of two AI agents, Claude and
Codex, between machines and into the agents' own stores. A fault here shows
late: an agent that no longer starts, a token lost, a sender that believes the
wrong thing. This directory models the parts of the program where such faults
can hide behind interleavings, timeouts and crashes, checks them with TLC on
small instances, and proves the central results with TLAPS for all instances.

## 1. The system

| Part | Code | State | Operations | Hard because |
|---|---|---|---|---|
| One-shot sender | `cli.py` `_do_send`, `_send_frame*`, `_report_send_ack` | its frame, its socket | connect, send, half-close, wait for the acknowledgement, report | the answer may be late, partial, lost, or someone else's |
| One-shot receiver | `cli.py` `_do_receive`, `_process_received_frame`, `_send_ack` | listening socket, one connection, bytes so far | bind, accept once, read to EOF, decrypt, unwrap, check the pin, parse, validate, write, show, acknowledge | one connection only; each step may fail after the ones before it took effect |
| Wire | `transfer_crypto.py`, `transfer_envelope.py` | none | encrypt, decrypt, wrap, unwrap, ack, read_ack | what a tag binds decides what may be confused |
| Backends | `backends/claude.py`, `backends/codex.py` | a credential file or a Keychain item | parse, validate, read, write | two validations at two times; write differs by platform |
| Credential files | `_write_file`, codex `write`, `_read_raw_file`, `_read_path` | the file, a temporary file | temp file, fsync, chmod, rename, unlink | other commands, the agents themselves, kills, power loss |
| Request daemon | `request_daemon.py` `serve`, `process_connection` | listening socket, the connection served, its deadline | accept, read a request, read the store, answer | sequential: one client must not hold the others up |
| Requester | `request_daemon.py` `request_credentials`, `exchange*` | nonce, deadline, `FORCE_WRITE` | per agent: connect, ask, read the reply, check, import | replies may be replays; one agent of two may fail |
| Request protocol | `request_protocol.py` | none | request, read_request, response, read_response | freshness rests on it |
| nc transport | `request_daemon.py` `exchange_nc` | a child, two pipes, a selector | spawn, write the request, read the reply, wait, kill, reap | two pipes that must not wait for each other; every exit must reap |
| Refresh | `cli.py` `_do_refresh`, `claude.refresh_tokens` | the store | read, rotate at the server, read again, write | lost update; a rotated token that is never stored |
| Dispatch | `cli.py` `main`, `credentials.py` | active backend, `FORCE_WRITE` | choose a mode, set and reset flags | flags outlive calls in one process |
| Keychain | `claude.py` `_find_account_keychain`, `_write_keychain` | items, one per account name | look up, update or create | lookup and write are two calls of `security` |
| Installer | `install.py` | venv, symlink | create, repair, unlink and link | interruption in between; two tools whose venvs differ |

The receiver and the requester end in the same `write` of a backend; the sender
and the daemon start from the same `read_raw`. Sender and receiver, and
requester and daemon, interact by one TCP connection per transfer or request.
Commands on one machine interact only through the stores.

What makes each part correct:

* *transfer*: the sender is told the truth or that the outcome is unknown; what
  is written is what one sender sealed for this receiver; a store its agent can
  start from stays one; both commands end.
* *credential files*: a reader sees a whole document at all times; a write takes
  effect at once or not at all; failures change nothing and leave nothing.
* *requests*: an import is one read of the server's store made for that very
  request; failure leaves the requester's store alone; the exit status tells
  whether everything was imported; nobody holds the daemon past one timeout.
* *nc transport*: request and reply pass each other whole, within the limit and
  the deadline; no child survives.
* *refresh and the other commands of one machine*: the one live refresh token is
  not lost; edits made before the tokens came survive; what a command reports as
  success is what the agent reads; `--force` counts for its own call.
* *installer*: a run that ends with "Done!" leaves a working command, whatever
  earlier runs left, and does not take a working one away for nothing.

The hazards behind these properties are listed with their lines in
`PROJECT.json` under "hazards".

## 2. The modules

```
Credentials            documents, parse_blob, validate_blob, what write checks and stores
 |- Wire               frames, labels, acknowledgements; perfect cryptography
 |   `- Transfer       sender, network, receiver      implements TransferPromise
 |       `- TransferProofs, MCTransfer
 |- RequestPromise
 |- RequestDaemon      daemon, requesters, strangers  implements RequestPromise
 |   `- RequestProofs, MCRequestDaemon
 `- Commands           main, refresh, import, Keychain, the agent, the token server
     `- CommandsProofs, MCCommands
FileStore              a credential file              implements StorePromise
 `- FileStoreProofs, MCFileStore
ExchangeNc             the pipe pump of exchange_nc  implements ExchangePromise
 `- ExchangeProofs
Install                the installer
 `- InstallProofs
```

**Credentials.** A document is a record of what the backends distinguish: which
credentials it holds, its textual form (JSON object, the same in hex, array, no
JSON, nested too deep), the backend whose shape it has, the expiry of the Codex
token, and whether the Claude `expiresAt` can be shown as a date. A claim that
cannot be decoded counts as one long expired: without `--force` both are
rejected, with it both pass.

**Wire.** A key is the pair of passphrase and salt it is derived from. A tag
verifies only for the key and the bytes it was made with; nothing is proved
about the cryptography itself. Every salt and every nonce is drawn once.

**Transfer.** One action per step of the two commands. A sender is named by the
salt it draws; `sendPc` follows `_do_send` through connecting, sending block by
block, waiting and done, and `outcome` is what it reports. `link`, `flight` and
`eof` are a connection: queued in the backlog, accepted, closed or reset; blocks
under way; half-closed. The receiver's `recvPc` follows `_do_receive` and
`_process_received_frame`; `Refusal` keeps the order of the code's checks,
because that order decides which answer a sender gets. `imports` records every
write with the options, the run and the connection that made it (`via`), and whose
frame it was (`from`). Nothing in a frame is the receiver's own, so a recorded frame
can be sent again: `Replayers` are connections on which somebody may do so (`Replay`)
in a sender's stead, any number of them for any frame that has been sent in full, and
`origin` says whose frame a connection carries. A replayed frame keeps its salt, so its acknowledgement speaks
of the original transfer too, and may be delivered to its sender. The native socket and
`nc` differ where their users can tell: how a part of an acknowledgement is read and
how a timeout is reported.

**FileStore.** Writers and readers of one file. A writer's temporary file is
named by the writer. `cache` is what processes see of a file, `disk` what a loss
of power leaves of it, `onDisk` the set of files the store's name may stand for
after one: data and names reach the disk in any order unless `fsync` is called.
`Syncs` selects the backend: `claude.py` syncs, `codex.py` does not.

**RequestDaemon.** An attempt `<<requester, agent>>` stands for its nonce and its
connection. `pc` follows `serve` and `process_connection`, `reqPc` the loop of
`request_credentials`. Deadlines count down in ticks: `budget` is what
`remaining(deadline)` finds in the daemon, `spare` in a requester; `held` counts
the ticks since `accept` independently of both. The transport follows the
platform: `nc`, under one deadline for its whole life, where `KeychainService`
holds (macOS), the native socket elsewhere. `seen` is the history of what
was read from the serving machine's store for each attempt. Strangers connect,
trickle, send damaged or old messages, and stay silent. Expiry is judged by the
time of day, another clock.

**ExchangeNc.** One action per call of the pump: `Select` hands a round of
`events` to `WriteStdin`, `ReadStdout` and `ReadEof`, `pc` goes on to the wait for
the child, and any exception goes to the `finally` clause, `Kill` and `Reap`. The
`try` begins (`Enter`) a few statements after `Popen` has returned (`spawned`): an
interrupt in between, or in the `finally` clause itself, leaves the child as it is
(`Abandoned`). Data is counted in units. `nc` is external: it does one thing at a time, so that while
it cannot pass the reply on it takes nothing of the request, and it may give up at
any moment. The peer answers at once (`early`) or when the request has ended.
In `RequestDaemon` all this is one transport with one deadline that may fail; that it
is no less is what `ExchangePromise` says, with `ExchangeEnds`: it ends, a reply it
returns is whole, and nothing is moved for it afterwards.

**Commands.** Processes on one machine call `main` again and again; `pc` is
`idle` between the calls. `Start` is what `main` does before its `try`, `Returns`
what its `finally` clauses do, `Fails` everything raised or returned as an error
at any point. `SetBackend` resets the flag of the backend it selects and of no
other, as the code does. A refresh goes through `Extract`, `Post`, `ReRead` and the
write; `Holding` says that it has got new tokens and has not written them. Of the answer the
code checks only that there is some access token, so `Post` admits answers whose tokens
are no non-empty strings (`sound` is false then) and answers without a refresh token to
keep (`fresh` is 0), and `Merged` puts into the document whatever came. With a
Keychain a write of Claude's store is `Find` and then `Put`, which updates the
item of that account or makes one. `payload` serves every mode as the document
read or about to be written. The token server either replaces a refresh token
with every use or leaves it (`rotates`, chosen at the start); the agent logs in and
out, edits its document and refreshes by itself, and another machine that was
sent the credentials refreshes too. A login leaves one Keychain item: an
assumption about the agent. The time of day is 0: expiry is what `Transfer`
and `RequestDaemon` vary, here a token has expired or has not. `raced`, `since` and
`excused` are histories the properties speak of.

**Install.** `venv` is the set of parts of `.venv` that matter: python,
`pyvenv.cfg`, pip, the package. What `uv`, `venv`, `pip` and `rmtree` do is one part at a
time, in any order, and the run may be killed between any two. `Damage` is the
machine's: the Python behind the venv goes away, or somebody deletes `.venv`. A
*husk* is a python without `pyvenv.cfg`, which runs as the machine's own.

**TransferPromise, StorePromise, RequestPromise, ExchangePromise** say what each
component promises without saying how: outcomes that are true, and one landing at most
for each carrier, copies included; a register; an
atomic read of a remote store followed by an import of just that, whose success is
reported unless it is a Keychain's; a whole request out and a whole reply back, or
none. The detailed modules implement them, by `INSTANCE` with the mappings among
the properties of each module.

Not in the models: the bytes of frames and JSON, wording, logging, the display
modes. The definitions that stand for the kernel, the network, the disk, the
agents and other clients are marked external in the map.

## 3. The runs

| Run | Question | Bounds | Result |
|---|---|---|---|
| `TransferRace` | Can a sender be told something false, or the wrong thing be written, when senders race, acknowledgements are misdelivered and recorded frames are sent again? Can a frame be imported twice? Do both commands end? | 2 connections (frames of 2 and 1 blocks, one with another passphrase; the first never hangs, the second may be a replay of the first), 2 receiver runs, 3 ways to start one, backlog 2 | no; only where it was sent twice; yes |
| `TransferPayloads` | Can a payload make a store unusable, an expired token be written, or a refusal be a lie, where `write` repeats no check and may time out? | 1 sender, every label, form and shape, damaged frames, sizes up to one over the limit, all receiver options, a Keychain, clock 0..2 | no |
| `TransferExitCode` | Is the receiver's exit status authoritative (`cli.py:439`)? | 1 sender, `--verbose` | **no** |
| `FileStoreRegister` | Is the Claude file a register? | 2 writers, 2 readers, 2 power losses | yes |
| `FileStorePower` | May a crash truncate `auth.json` (`codex.py:182`)? | 1 writer, 1 power loss | **yes** |
| `RequestRace` | Are imports fresh, atomic and one's own? | 2 requesters for the same agent, 2 contents that change and expire, misdelivered replies, clock 0..1 | yes |
| `RequestMac` | The same for stores where `write` checks nothing and may time out: does the exit status tell all, and does a requester attempt each agent once and end? | 1 requester for both agents, 2 passphrases, 3 contents, damaged replies, 2 daemon runs | yes |
| `RequestDeadline` | Can a client hold the daemon beyond its deadline, be overtaken in the queue, or be left with an open connection? | 1 stranger of 0 or 3 blocks, 1 requester, limit 2, timeout 2 ticks, 2 daemon runs | no |
| `NcExchange` | Can the pump and `nc` wait for each other, the pump spin or hang, cut something, exceed the limit or leave a child behind? | request 3, replies 0, 3, 5, limit 3, pipes of 1 and 2, deadline 2 ticks | no |
| `CommandsRace` | Can commands and the agent, side by side without a lock, lose a token, undo an edit, report a success that does not show, misuse `--force`, or spoil a store? | 2 processes, 3 calls of 11 kinds, answers of the token server with and without usable tokens, 2 account names, 3 tokens, 1 edit, a Keychain | no, but for what the properties name |
| `InstallRepair` | Does the installer repair what interrupted runs leave? | 4 runs, 2 damages | yes, but for a husk |
| `RequestKeepsServing` | Does the daemon serve until Ctrl-C (`README.md:95`)? | as above, 1 daemon run | **no** |

`RequestRace` uses the symmetry of the two requesters: nothing in the model or in
the properties of that run, all of them safety properties, tells them apart.
`CommandsRace` uses that of its two processes, likewise. `TransferRace`,
`RequestMac`, `RequestDeadline` and `NcExchange` check liveness and use none.

Why the bounds are enough to meet the interesting cases: two senders are the
fewest for which one's acknowledgement can reach the other, or one can wait in
the backlog while the receiver exits; two runs of a receiver are needed for a
frame that was refused once to be accepted later, or for one that was imported to be
imported again by a replay; one replay is enough for a copy to arrive before or
after the original or instead of it, and on a receiver with other options (two senders
and a replayer at once are left to the proofs); frames of two blocks are the
shortest that can be cut; a size one over the limit is the shortest refused;
two ticks are the fewest in which a deadline that restarts differs from one that
does not. A request longer than its pipe and a reply longer than the other are
what makes the two pipes of `NcExchange` depend on each other. Three calls are two
of one process, between which a flag may leak, beside one of another, or two
refreshes and an import; three tokens are the first and one for each of two
rotations or logins. Four runs of the installer are a good one, a killed one, a
failed repair and another. `CommandsRace` is the platform with a Keychain; the
one with files is covered by the proofs, which hold for both.
`CHECK_DEADLOCK FALSE` is said throughout because every command ends
and the bounds on runs, ticks and losses stop the rest.

The type invariants of `Transfer`, `FileStore`, `RequestDaemon`, `Commands` and
`Install` are proved (`TypeCorrect`) and no longer runs' invariants, and neither is
`FailureChangesNothing`, which `IsARegister` contains; `NcExchange` keeps its
`TypeOK`, whose bound on `total` is the memory a reply may take.

Each property has a mutant of the code in `PROJECT.json` that breaks it; the
definitions marked "Mutant" are these, stand just before what they replace, and
are used by nothing else.

### Disagreements

* `TransferExitCode`: the receiver shows the tokens (with `--verbose`) after
  `creds.write` and before it acknowledges. A Claude `expiresAt` that is a string
  or out of the range of `datetime` passes `validate_blob` and raises there: exit
  status 1, no acknowledgement, and the store replaced. `cli.py:439` calls the
  exit code authoritative for what happened to the store.
* `FileStorePower`: `codex.py` renames without `fsync`; `claude.py` has one.
  The docstring promises that a crash never produces a truncated file.
* `RequestKeepsServing`: `accept()` is outside the `try` that catches `OSError`
  for a connection, so one failing `accept()` (a connection aborted in the queue,
  no descriptors left) ends the daemon.

Not run as disagreements, but worth knowing:

* Ctrl-C in the few statements between `Popen` and the `try` of `exchange_nc`, or in its
  `finally` clause before the `wait`, leaves `nc` running or unreaped (`Abandoned`). The
  specification of 2026-10-11 (line 71) says that the requester cleans up any active
  `nc` when interrupted; `Reaped` therefore speaks only of a `finally` clause that is
  through. What the abandoned child does afterwards is not modelled; its own `-w` ends it.
* `README.md` says that a malformed payload leaves the destination store unchanged;
  that is said of transfers. On macOS two commands write into the Keychain what nobody has checked: `--import` whatever it
  is given, and `--refresh` whatever non-empty access token and whatever refresh token
  the answer had. `SpoiledOnlyUnchecked` names these two as the only ways in which a
  usable store becomes unusable.

## 4. Fairness

`ReceptionEnds` assumes only that a receiver that runs goes on
(`WF_vars(ReceiverStep)`): its calls return, because `recv` has `RECV_TIMEOUT` and
`accept` has returned already. `SendingEnds` assumes only the same of the senders
that are not in `Hung`: `create_connection`, `sendall` and the wait for the
acknowledgement have `SEND_TIMEOUT`. In `TransferRace` one of the two senders is in
`Hung` and may stop for ever at any point, with a connection open: a receiver must
end nevertheless. `accept()` has no timeout and is not fair, and starting a command
is nobody's duty, so a sender must end without a receiver too. `QueuedIsServed`
(under `FairDaemon`) assumes that the daemon goes on and that time passes, and
nothing of its clients; `RequestsEnd` (under `FairRequesters`) that requesters go on
and time passes, and nothing of the daemon. In `NcExchange` the pump's calls return
(`WF_vars(Pump)`), since they are non-blocking or have what is left of the deadline;
`ExchangeEnds` adds only that time passes, `ReplyArrives` only that `nc` moves what it
can, and gets no help from the deadline. `Commands` and `Install` are checked for
safety. `OSError`s and interrupts are never
relied on.

## 5. What is proved

All of it for every number of senders, writers, requesters, documents, faults
and bounds, from the named assumptions on the constants: `KeychainServiceAssumption`,
`SaltAssumption`, `TransferAssumption`, `RequestAssumption`, `FileStoreAssumption`,
`ExchangeAssumption`, `CommandsAssumption` and `InstallAssumption`.
In each proof module `IInv` was model-checked on the runs' instances first.

**TransferProofs.** `IInv` is the type invariant and these parts, with two of the properties.
`SendersInv`: what a sender has been told is true (`TellsTruth`): "ok" only if its
credentials are among the imports, a refusal only if its connection is finished
and nothing was taken from it. `RepliesInv`: every acknowledgement under way
that names a transfer's salt and carries its passphrase tells the truth about
*that* transfer, wherever it is delivered; this is why a misdelivered
acknowledgement cannot lie, and it is the part without which `SentMeansStored` is
not inductive. `ReceiverInv`: what the receiver has established at each stage,
such as that an intact frame is the one its peer sealed, and that nothing was
imported from a connection before it was written. `OriginInv` adds that a replayer carries the
job of the transfer it copies and that every import is of the frame its connection
carried. What a replay changes is confined to `Resent`, "somebody has sent this frame
again": a refused transfer may still land by such a copy, and in no other way.
From these follow
`OkIsNeverALie`, `RefusalIsFinal`, `OnlyFaithfulImports`, `StoresStayUsable`,
`ExitZeroIsEarned`, `OnlyLiveTokens`, and `TransferKeepsPromise`. `OneShotInv` adds
that before its write the current run of the receiver is in no record, and gives
`OnceOnly`: a run imports one frame at most and a connection is imported from once
at most, so that a frame that nobody sent again is imported once at most, for any
number of replayers. Neither side is ever thrown back (`NobodyIsThrownBack`): `ReceiverLeft`
and `SenderLeft` count what is left to do, the blocks included, and every step of
a side lowers its own count while nobody else's step raises it.

**FileStoreProofs.** A file that has been the store is *sealed*: whole, on disk
too if the code syncs, and no writer touches it again. With it go what each
writer has established and that readers hold sealed files. The results assume
`Syncs \/ MaxLosses = 0`, which is exactly what separates the two backends; type
correctness needs no such assumption.

**RequestProofs.** Every response on the wire, wherever it is delivered, carries
content that was read for its nonce (`RepliesInv`); the daemon's answer is such
content, and so is what a requester is about to import. With the type invariant
and what each requester has established these give the results of the table in
`PROJECT.json`; the one about the unchanged store excepts Claude's Keychain,
whose write may be reported as failed after it took effect, and the promise
allows for just that. `QueueInv` says that the queue holds the connections
that are queued, each once, that the one served is the only one open, and that no
attempt has a connection before it asks for one (without this last part a second
`Connect` could put a connection into the queue twice). It gives
`OneConnectionAtATime`, and with it `NobodyOvertakes`: a client's wait is its place
in the queue times a whole service, plus what is left of the service under way;
the first shrinks with `Accept`, the second with every other step of the daemon.
`NobodyIsThrownBack` counts likewise what a requester has left to do, over the
agents still to attempt. `NoLateWork` follows from `budget + held = ExchangeTimeout` while the
budget lasts.

**ExchangeProofs.** What the request has lost the pipe or `nc` has
(`pending + inPipe + taken = Frame`), and likewise for the reply; the selector
watches the input exactly while something is pending, and an end of file comes
only from an empty pipe of a child that has exited. The first gives that a
half-close means a whole request, the last that a reply returned is all there was;
with the state of the child on every way out they give `ExchangeKeepsPromise`.
`ChildIsReaped` is about the end of the `finally` clause, which an interrupt may miss.
`NoDeadlock` supposes that nobody can go on: the output pipe is then empty, so `nc`
has room and no reply to pass on; so it would take of the request, unless the input
pipe is empty too; so the pump would write, unless the request is through; and then
`nc` half-closes or, having done that, ends. `EveryStepCounts` weighs what an exchange has left to
do (`Effort`: two moves for each unit that has to cross a pipe, one for each end of
file and exit, then the stage of the round, then the ticks) and shows that each
step of the pump, of `nc` and of the clock makes it smaller, so that not even a
pipe at its end, which `select` reports at once and for ever, makes the loop spin.

**CommandsProofs.** `Custody` rests on `OneLive`: of the refresh tokens in the
store and in the hands of refreshes nobody overtook, at most one is live. The
server's rotation is therefore what keeps two refreshes apart: the second finds
its token used up and fails before it writes. `Alone` says the same of a refresh
that has its new token: if tokens rotate, the store holds nothing live until it
writes, so the write can overwrite nothing that matters; if they do not, the token
it writes is still live. `NotOvertaken` (one item at most, and the
one a write is aimed at is it) gives `SuccessIsVisible`; `Late` (every version in
the store since the tokens came is recorded) gives `MergesLateVersion`; the last
part of `Stage` follows the flag from `main`'s entry to a write, which gives
`OnlyForceWritesExpired`; the part about `Usable` says who may be about to write
something unusable, which gives `OnlyUncheckedWritesSpoil`. All of it for Keychain and files, any number of
processes, calls and accounts, rotating tokens or not.

**InstallProofs.** What is known at each stage of a run (`Parts` are there when
it installs; the package is not there while a venv is made), and one fact that
outlives the runs: a whole venv into which pip installed last has pip.

## 6. Model-checked only

The six liveness properties (`ReceptionEnds`, `SendingEnds`, `QueuedIsServed`,
`RequestsEnd`, `ExchangeEnds`, `ReplyArrives`): fairness speaks of what is enabled,
and neither that nor induction over a count is within the prover's reach. The
safety half of each is proved all the same, as an action property: `NoStepBack`
of `Transfer` for the first two, `ServedInTurn` for the third, `NoStepBack` of
`RequestDaemon` for the fourth, `NeverSpins` and `NeitherWaits` for the last two. They
say that only finitely many steps can be made before the end; what TLC adds, on
the instances of the runs, is that these steps are made.

That the three disagreements occur is shown by TLC alone.

## 7. Not modelled

`oauth_only_json`, `find_account` of Codex, the display modes, argument validation
and logging keep no state; in `Commands` the modes that only read are one action.
The cryptographic primitives and JSON are taken at their interface, and so is what
`json.dumps` and `json.loads` do to a document between two commands.

Not stated as properties, because the code lets them happen and no doc denies them:

* A recorded frame sent again is imported again by any receiver with its
  passphrase: the transfer specification of 2026-07-29 (lines 176 and 215) says that
  there is no anti-replay. The model lets it happen, and the properties bound it to
  the frames that were sent again.
* A refresh that fails between the rotation and its write loses the new token
  (`Custody` excuses it), as does one overtaken by a login or an import, and one whose
  answer has no refresh token to keep overwrites the old one with that.
* A login during a Keychain write leaves two items: `Find` and `Put` are two steps.
* After Ctrl-C in the write of a file its temporary file stays.
* Between unlink and link of the installer there is no command; a husk is taken
  for a venv by both checks.
* The installer removes a venv made by `uv` when it runs again without `uv`, which has
  no pip, and the command with it until that run ends. `RerunKeepsVenv` speaks only of
  the tool that installed last.
* `accept()` of a one-shot receiver waits for ever.

## 8. Plan

The parts of section 1 are modelled. What could be added:

1. `Commands` over `StorePromise` by a refinement of its file writes, instead of by
   the argument that a file is replaced in one step.
2. `RequestDaemon` with `ExchangeNc` composed into its requesters, instead of one
   transport that may fail.
3. The expiry of Codex tokens in `Commands`, with a clock.
