# Kenai VPN in TLA+

TLA+ models of the Kenai VPN client: the privileged Windows service that owns the
tunnels (Rust), the desktop application that talks to it (Dart), and the named pipe
between them. Paths below are relative to `src/`, the repository root.

Contents: [inventory](#inventory) · [modules](#modules) · [runs](#runs-bounds-and-what-they-show) ·
[fairness](#fairness) · [proofs](#what-is-proved) · [disagreements](#where-the-code-and-its-documents-disagree) ·
[limits](#what-is-not-modelled) · [plan](#plan)

## Inventory

| Part | State it keeps | Operations | What is hard about it |
|---|---|---|---|
| Command processor, `crates/vpn_service_core/src/lib.rs` | `ConnectionStateMachine` (a `StateEvent`), `recent_ids` + `recent_id_set` (256), the vault, the backend | `process`: status, connect, disconnect, import, delete, statistics, diagnostics | every error path leaves the machine somewhere; the history must forget and remember consistently |
| Engines, `services/windows_vpn_service/src/{windows_backend,wireguard_engine,amneziawg_engine,xray_engine}.rs` | two Windows services, a child process in a job object, configuration files, `active` | `connect*`, `disconnect`, `is_connected`, `statistics`, `system_default`, `Drop` | every system call fails on its own; two of the tunnels outlive the service; a tunnel may come up after its timeout |
| Service host, `main.rs`, `ipc.rs` | the accept loop, the shutdown watch, the reported service status | `serve`, `handle_one`, `process_frame`, Stop | one pipe instance; silent, late and vanished clients; an error of the loop |
| Profile vault, `profile_vault.rs` | one DPAPI-encrypted file per random handle | `store_*`, `load_*`, `delete` | a file is created, written, flushed and perhaps removed, each of which fails; crashes and power losses come between; handles are known to the application only |
| Pipe client, `apps/desktop/lib/src/infrastructure/windows_profile_provisioner.dart` | none | `exchange` (10 s per await), `provision*`, `deleteProfile` | a timeout says nothing of what the service did; waits of the engines are longer than the timeout |
| Desktop engine, `windows_vpn_engine.dart` | `_state`, `_operationInFlight`, `_serverId`, `_protocol` | `connect`, `disconnect`, `status`, `statistics` | handlers interleave at every await; status replies come late |
| Account repository, `packages/kenai_core/lib/src/application/secure_account_repository.dart`, and account screen | eight keys of the secure storage; the screen's `_session`, `_submitting` | `activate`, `restoreSession`, `signOut` | two stores without a transaction; the screen is made anew on navigation |
| Servers screen | catalogue view, selection, timer | `_toggleConnection`, `_loadInitialData`, statistics timer | shares the one pipe with everything else |
| Logs and diagnostics, `platform_diagnostics.dart`, `packages/kenai_core/lib/src/application/diagnostics.dart`, logs screen | `client.jsonl`, `_pending`; the screen's `_entries`, `_summary`, `_loading`, `_exporting` | append, clear, `readAll`, query, summary, archive | one future chains all writes; writes cut by the end of the application; loads end in any order |
| Settings, server catalogue, payments, speed test | a JSON value, in-memory mocks | load/save, ... | double loads, cancel against confirm |
| Wire contract, `crates/vpn_contracts`, its Dart twin and the three parsers of configurations | none | parse, encode, decode, validate | the same bounds written four times, in two languages |
| Installer, `installer/KenaiVPN.nsi` | services, files | install, repair, uninstall | steps that fail half way; names of the child services |

How they interact: a screen calls the desktop engine or the account repository; these
open the pipe once per request, one request per connection; the service accepts one
connection at a time, decodes the frame, and `ServiceCommandProcessor::process` runs it to
its end in the service's only thread, calling the vault and the backend; the backend drives
three engines through the service control manager, the file system and child processes.
There are no callbacks from the service: the application learns of a tunnel that stopped
only by asking.

What makes each part correct:

* **processor** - what it reports is true: Disconnected means no tunnel, Connected names the
  profile that runs; state, profile and error agree; an id is not replayed; failures can be left.
* **engines** - at most one of them is engaged, whatever fails or crashes; success leaves no
  plaintext configuration; the contract the processor relies on holds.
* **pipe** - the outcome of an exchange tells whether its command ran; the loop always comes
  back; Stop is answered.
* **vault** - a handle that was given out names a whole file until its deletion is asked for.
* **desktop engine** - once quiet, what is shown is what the service is in; operations end.
* **wire contract** - what one side lets through fits in a frame, and the other side and the
  vault take it unchanged; both number and order the fields alike; callers take success for
  success and nothing else for it.
* **logs** - what is shown and exported is what the file holds; damage to the file stays local.
* **account** - a returned activation is complete; a stored account is usable; a sign-out
  never loses sight of a stored profile; retries work.

The hazards this list comes from are in `PROJECT.json` with their lines.

## Modules

```
 ConnectionMachine   the StateEvent and its transitions (operators)
   |-- ServiceCore          processor + vault + contract of the backend
   |     |-- MCServiceCore        instances for TLC
   |     `-- ServiceCoreProofs    theorems
   |-- DesktopEngine        application engine, screens, sign-out / pipe / service
   |     `-- ApplicationProofs    theorems (with those of ProfileTransfer)
   `-- WireExchange         requests and replies field by field, in both languages
         `-- WireExchangeProofs   theorems
 BackendContract     what the processor relies on of its backend (abstract)
   ^-- WindowsBackend       the three engines, one system call per step (refines it)
         `-- WindowsBackendProofs theorems
 VaultContract       what the processor relies on of its vault (abstract)
   ^-- VaultFiles           the vault's files, one system call per step (refines it)
         |-- MCVaultFiles         instances for TLC
         `-- VaultFilesProofs     theorems
 ControlPipe         accept loop, service host, pipe client
   `-- ControlPipeProofs    theorem
 AccountStore        activation and sign-out over secure storage and vault
   |-- MCAccountStore       instances for TLC
   `-- AccountStoreProofs   theorems
 ProfileTransfer     one configuration: parser, frame, validation, vault
   |-- MCProfileTransfer    configurations at and around every bound
   `-- ApplicationProofs    theorems (with those of DesktopEngine)
 LogStore            the client's log file, its readers and the logs screen
   `-- LogStoreProofs       theorems
```

**ConnectionMachine** is `ConnectionStateMachine`. A method that returns `Result` is a guard
`CanX` and a result `X`. `kill_switch_active` is omitted, being false on every path, and so is
`begin_reconnect`, which nothing calls.

**ServiceCore** is `process`, one request per step: `process` takes `&mut self`, does not await,
and the runtime has one thread. Each command has one action per way it returns. The `?` of
`connect_request` on a vault load and of `disconnect_request` on an engine error are their own
actions (`ConnectLoadFails`, `DisconnectFails`) because they return with the machine in
`Connecting` and `Disconnecting`. The backend appears by contract: `tunnel` is the profile whose
tunnel runs; an error promises nothing about it. The vault is a function from handles to what is
stored, since a handle's prefix decides which loads accept it. `age` is a history variable
that counts accepted requests since an id was used. The environment stops tunnels, kills the
service (leaving any tunnel) and starts it (`system_default` removes what it finds).

**WindowsBackend** is the four engine files at the granularity of operating-system calls: `pc`
is the next call, every call can fail, a `Crash` can come between any two, and the
service control manager moves services on its own (`SvcMoves`: late start, early exit, slow
stop). `CleanupResults` lists how far `cleanup_stale` gets before its first error.
`cleanup_stale` and `service_running` do not tell a failed `open_service` from an absent service
(`if let Ok(service)`); the history variable `overlooked` holds the services that were there and
taken for absent, and `Engaged` leaves them out. `start` ignores what `kill` and `wait` of a child
that it could not assign to the job return: `Assign` leaves the child alive or dead, and `Reap`, which can last
as long as the child does, either finds it dead or lets it go (`orphan`); `Engaged` counts it until then.

**BackendContract** says what a caller of `VpnBackend` may rely on: an engine is engaged only
inside a connect for it and only from nothing, Ok from disconnect means that nothing is engaged,
a started service found nothing. `erred` tells the two ways a call returns apart, so that no Ok passes
for an error, of which nothing is promised. `WindowsBackend` implements it (`KeepsContract`, mapping
`engaged <- Engaged`, `call <- ContractCall`, `erred <- ContractErred`), which is what entitles `ServiceCore` to one
`tunnel` variable, as long as no service that is there fails to be opened.

**VaultFiles** is `DpapiProfileVault` one call at a time. `seen` is what a read finds, `disk` what
would survive a power loss: `write_all` changes the first, `sync_all` the second, and the system may
write a file out by itself (`Settle`). A killed process leaves `seen`; after `PowerLoss` a file that was
not flushed is absent, cut, old or new (`Survivors`). `random_handle` may draw a handle whose file is
there (`Collide`, up to `Attempts` times). `held` says which profile a handle was given out for; it
changes where the store returns and where the file is removed.

**VaultContract** says what a caller of `ProfileVault` may rely on: a profile stays from the answer
that gives its handle until its deletion is asked for, a handle is not given twice, a profile is loaded as
it was stored. `VaultFiles` implements it with its own `held`, `asked` and `answer`, which is what
entitles `ServiceCore` to a vault that is a function. Of a deleted handle it promises nothing: the
deletion is not flushed, so after a power loss the credential may be there again, under a handle that
nobody knows any more.

**ControlPipe** is `serve` and `handle_one` with their `select!`s, `run_service`, and `exchange`
of the Dart client. `service = "broken"` is the state after `serve` returned an error:
`run_service` returns before `set_service_status(Stopped)`. A member of `Clients` is the place of
one exchange. `OsFaults` lets a system call of the loop fail by itself.

**DesktopEngine** is the event loop of the application between awaits: `op`/`step` say where
`connect`, `disconnect`, `status` and the sign-out wait, `pipe` whose exchange holds the pipe,
`pending` the command the service has not answered. The service is `ConnectionMachine` again,
one command at a time, with `ServiceCore`'s results reduced to the phase of the reply; for a delete to
whether its code is one of the two that `deleteProfile` takes for success (`Deleted`). Other
users of the pipe (statistics of every second, imports) are `OtherExchange`. `named` is `_protocol`,
which a status reply in Disconnected clears and a connect sets; the history variable `settled` says that the last
`connect` ended connected.

**AccountStore** is `activate`, `signOut` and `_clearAccountData`, one await per step, with the
account screen's guard. Handles are drawn from a set and never used twice while anything holds
them. The raw credential keys are left out: with a provisioner they are only deleted.

**ProfileTransfer** follows one configuration: the parsers and encoders of the application
(`Parses`, `Encodes`, `Fields`), the cursor and the validation of the service (`CursorReads`,
`Valid`), the vault's encoder and decoder (`Puts`, `Written`, `Load`). A text is its length, a list
the number of its elements and one length for all of them, which makes the extreme cases at
least as large as real ones. Where the two languages read a text differently, a flag says so:
`loose` for prefixes that `int.tryParse` takes and `u8::from_str` does not (`0x18`, a blank),
`c1` for control characters of `U+0080..U+009F`, which only `char::is_control` knows. DNS servers
become addresses in the decoder and are printed anew by the vault, at a length of their own
(`Printed`). `U8` and `U16` cut what does not fit in its field. The order of the fields is that
of `WireExchange`: `Decode` compares lengths instead (`finished`), and assumes an address without a zone.

**WireExchange** is one exchange after the other, each side with tables of its own: `DartOpcode`,
`DartBody`, `DartPhases` of the application, `RustFrame`, `RustProtocol`, `RustPhases`, `Response` of the
service. A body is the sequence of its fields; a number is a number, a text or a profile a value. `Decoded` and
`Read` are the decoders with their guards, the end of the body included. The service is
`ConnectionMachine` with the results of `ServiceCore`, refused duplicates and handles of another protocol
included, and `Conclude` what each caller in the application
makes of the response, some by its code, some by its phase, some by an option.

**LogStore** is the log file with the two objects around it. `chain` holds the links of `_pending`
that have not completed, and `broken` is a `_pending` that completed with an error: it stays so
until the application is started again. A call of `readAll` is a member of `readers`; `wait` counts the
links it awaits, which are those of the moment it was called. What reads twice (`_load`, which queries and
then asks for the summary, and `createArchive`) goes through `FirstRead` and an end of its own. When the screen is
left its reads go on and what they bring is dropped (`shown`, the `mounted` tests of `_load`). A failed or
killed append leaves nothing, a part, everything but the end of line, or all (`WritesPartly`), and what is
appended to a line without an end becomes part of it (`Writes`). `bootstrap.dart` is the only
caller of `log`, with `APP_STARTED`; the number of the session stands for that entry. All entries are
alike to a filter, which therefore selects all or none.

## Runs, bounds and what they show

| Run | Bound | Shows |
|---|---|---|
| `ServiceCore` | 2 handles, 3 ids, window 2, symmetric | type, coherence and truth of the reported state, no BUSY after a failure, where a machine is stranded and that only a restart helps; deque and set of the ids agree, no replay inside the window |
| `WindowsBackend` | the real three engines, no bound | at most one engine engaged but for services that failed to open and an `xray.exe` outside its job, `active` is the only tunnel, no plaintext after success, refinement of `BackendContract`, no `xray.exe` that was assigned to its job survives its engine |
| `ControlPipe` | 2 overlapping exchanges, silent for ever or timing out, every fault | the outcome tells the truth; Stop is answered before silent clients; the pipe comes back once clients time out |
| `DesktopEngine` | 1 profile; 1 operation, 2 status calls, 1 delete | the shown state, once quiet, is the service's; a connect that ended connected names the protocol of the tunnel that runs; operations end |
| `AccountStore` | 1 operation at a time, 2 protocols, 5 handles, symmetric | completeness of an activation, usability of a stored account, no orphan by sign-out or by a plain failure, retries |
| `ProfileTransfer` | every field at its bounds and one past them, also all at once | what parses fits in a frame; the service refuses nothing else than two ways of writing; what it accepted can be stored, and loaded as it was sent |
| `VaultFiles` | 3 handles, 3 profiles, 2 protocols, 8 draws | a handle given out names a whole, flushed file under the right prefix until its deletion is asked for; refinement of `VaultContract` |
| `WireExchange` | 2 handles, 2 request ids | Dart and Rust write the same requests and read the same replies; what a caller concludes is what the service did, success and failure alike |
| `LogStore` | 3 sessions, 2 readers or links when one more is started | the logs screen, unless it is loading, shows file and summary of the same moment as far as no load was overtaken and no write failed; a cut line costs one entry of a later session; logs and report of an archive agree or the log was cleared; a failed chain writes nothing; the progress indicators go away |

The three other runs end in a counterexample; see
[below](#where-the-code-and-its-documents-disagree). A module's type invariant is a conjunct of
`BackendInv`, `PipeInv`, `EngineInv`, `AccountInv`, `LogInv`, `VaultInv` and `ExchangeInv`, or the `TypeOK` (`TransferTypeOK`) of
the run.

Why the bounds are enough. *ServiceCore*: a request id matters only to the history and a
handle only by identity, so the lifecycle needs two handles (a switch) and more ids than the
window holds, so that eviction and reuse happen and no behaviour runs out of ids. The proofs cover every value. *WindowsBackend* has
no bound: its instance is the program's. *ControlPipe*: there is one pipe instance, and two
clients are what it takes to find it taken. *AccountStore*: two of the three protocols already
have a first and a last one and a failure between them; two accounts' worth of handles plus one
orphan make five. When all handles are used an import can only fail, which loses no other
step. `executed` in `ControlPipe` needs no bound: each exchange resets it.

*ProfileTransfer*: guards compare one field with a constant or two fields with each
other, and the size is their sum, so that the values at the constants and the largest
configuration decide; the proofs cover all.

*VaultFiles*: two handles of one protocol can be drawn for each other's store, and the third has the
other protocol, of which the loads look at the prefix (AmneziaWG) where those of WireGuard do not; eight
draws are the code's. The proofs cover all. *WireExchange*: two handles are what it takes for a reply to name
the wrong one and for a delete to find another, two ids for a reply to belong to another request; phases, error
codes, protocols, flags and options are all there are.

*LogStore*: a session appends once, and three of them are what it takes for a cut line, the entry
that it swallows and one after it; two overlapping readers are what it takes for one to be overtaken or
for a clear to come between two reads. The last session does not end, so that the application can always
go on.

Every property has a mutant: a definition in the same module, changed as a plausible bug would
change it (commented `Mutant:`), under which TLC finds the property violated. They are not
part of any specification.

## Fairness

* `ControlPipe`: weak fairness of the loop's steps (the runtime polls a ready task) and of the
  launch (the service manager starts an automatic service and restarts an ended process,
  `installer/KenaiVPN.nsi:163`). Clients may hold the pipe for ever, so that Stop has to be
  answered before silent ones. `PipeComesBack` assumes `ClientsTimeOut`, weak fairness of each
  client's timeout (`.timeout` on every await). Nobody is obliged to ask, to send or to stop.
* `DesktopEngine`: weak fairness of the event loop's own continuations and of each exchange's
  timeout and close. Neither the service nor the user has to do anything.
* `LogStore`: weak fairness of the links and of the readers of each kind: a call of the file system
  ends, with a result or an error, and the event loop runs what awaited it. Nobody has to open the
  screen, to press anything or to close the application.

The other specifications have no fairness and only safety properties.

## What is proved

`ServiceCoreProofs` proves for every set of handles and ids and every window, from
`WindowAssumption` (the window is positive) and `HandlesAssumption` (no handle is the
no-handle mark):

| Theorem | Property |
|---|---|
| `TypeCorrect` | `TypeOK` |
| `DisconnectedIsSafe` | `DisconnectedMeansNoTunnel` |
| `ConnectedIsTruthful` | `ConnectedIsTheReportedProfile` |
| `StateEventAgrees` | `StateEventCoherent` |
| `RecentIdsAgree` | `RecentIdsCoherent` |
| `NoReplay` | `NoReplayWithinWindow` |
| `FailureCanBeLeft` | `FailureIsNeverBusy` |
| `StrandedByFailure` | `StrandedOnlyByFailedCall` |
| `StrandedStays` | `StrandedUntilRestart` |

The argument for the invariants has two halves that do not meet. The *promises* (the three invariants about machine
and tunnel) are inductive together with the types: every action either keeps the machine and
can only stop the tunnel, or sets both. They go through one lemma that sums up what any
step does to machine and tunnel, so the case split over the actions is made once. The *history*
invariant is `RecentIdsCoherent` itself: the deque holds exactly the ids accepted less than
`Window` requests ago, each at the place its age says. Its clause on the ages is the
strengthening: without it nothing says that the id at the head of a full deque is the only
one whose age reaches the window. `NoReplay` follows from it: an id younger than the window is in
the set, and `Accept` refuses the ids in the set.

The three theorems about failures are of single steps. The guards of the machine decide two of them:
of a failure phase `ResetFailure` makes one that a connect may begin in, and in a transient phase neither
method begins. `StrandedByFailure` looks at which step leaves a transient phase behind, and needs the
history too: that the step answered a request shows in the age of its id, which only changes because a
remembered id is younger than the window (`AcceptedIsAnswered`).

`ApplicationProofs` holds the proofs of two modules of the application, which is why the specification of
`ProfileTransfer` is called `TransferSpec`. About `ProfileTransfer` it proves for every set of configurations,
from `ConfigsAssumption` (they are profiles) and `MaxFrameSizeAssumption` (32 KiB):

| Theorem | Property |
|---|---|
| `TypeCorrect` | `TransferTypeOK` |
| `EveryFrameFits` | `FrameFits` |
| `SidesAgree` | `RefusedOnlyForWriting` |
| `VaultKeeps` | `AcceptedIsStorable` |
| `VaultReturns` | `StoredIsLoadable` |

`VaultKeeps` is about frames of this application, whose encoders stop at 253 bytes; the decoder by itself
takes texts of 255, which the vault refuses.

`SumOfBounds` adds up the largest value of every field: 10889 bytes of WireGuard and 21521 of
AmneziaWG make a frame of 32506 bytes, 262 below the limit. One more junk packet, or DNS
servers of 253 bytes, would not fit. `FieldsSame` says that no value of a parsed profile is cut by
its field, `ServiceAgrees` that the checks of the service follow from those of the application unless a
text is `LooselyWritten`, `PrintingKeeps` that nothing depends on how a DNS server is printed. The
invariant `TransferInv` records which of these checks the travelling profile has passed at each
stage; without it nothing is known of the profile that the vault decrypts.

About `DesktopEngine` it proves for every set of handles, from `HandlesAssumption` (there is a handle, that of the
activated profile, and the no-handle mark is none):

| Theorem | Property |
|---|---|
| `ShownIsTheServices` | `EngineInv` |
| `NameIsTheTunnels` | `ConnectedNamesItsTunnel` |

Both properties speak of the moments when nothing is in progress, so that by themselves they survive no step; the
invariant `EngineIInv` says what holds in between. `PipeOrder` is the reason why it can hold at all: one exchange has
the pipe from its command to its answer, and of two answers the application applies the one that was read first before
the other exchange can end. `ToldInv` then says of what is shown, and of an answer that was read and not applied
yet, that it tells the service's state, or that a newer answer is on its way, which is applied after it or shown as an error; a
late reply does no harm because of this order, not because anything checks its age. `NamedInv` follows the name of
the tunnel: after a connect that ended connected it is forgotten only by a reply "disconnected", and then the service
cannot be connected again without another connect. `OperationInv` ties `inFlight` to the exchange of the operation, without
which a second connect could be under way. The lemmas go by kind of step: `AsksNothing` for all handlers that
ask nothing yet, `FailKeeps` for the three ways an exchange fails, `HandledKeeps` for every reply that is applied,
`ReplyKeeps` for every command.

`VaultFilesProofs` proves for every set of handles, profiles and protocols and every number of draws, from
`MarksAssumption` (absent, cut and no profile are not profiles), `ProtocolsAssumption` (handles and
profiles have a protocol, WireGuard is one of them) and `AttemptsAssumption` (a natural number):

| Theorem | Property |
|---|---|
| `VaultIsSafe` | `VaultInv` |
| `VaultImplementsContract` | `KeepsContract` |

What a caller sees is `HeldIsDurable`: the file of a handle that was given out is whole, for readers
and on the disk. It is not inductive: nothing says that the file being written or removed is not the
one of such a handle, nor that it has been flushed where the store returns. `WritingIsOwn` says both;
`CallsFollowTheRequest` ties the next call to the request it is made for; `PrefixTellsTheProtocol`
is what makes a load by the handle's own protocol succeed. With these, each step is a step of the contract or
leaves `held`, `asked` and `answer` as they were (`StepsKeepContract`).

`ControlPipeProofs` proves `OutcomesAreTrue`, which is `PipeInv`, for every set of clients, from
`ClientsAssumption` (no client is the mark of an unconnected pipe). `OutcomeTellsTheTruth` alone is not
inductive: it takes what the service knows of the client at its end of the pipe
(`ServiceKnowsItsClient`: nothing is executed for it before the reply is being written), how often a
command was executed for an exchange that is still open (`CountFollowsExchange`), and that the end is
connected exactly while a request is looked at (`ConnectedWhileServing`). The service's steps and the
clients' are two lemmas, since each leaves most of the other's state alone.

`AccountStoreProofs` proves for every number of protocols, every choice of credentials an activation brings and
every set of handles, from `CountAssumption` (at least one protocol), `CredentialsAssumption` (credentials are of
protocols there are) and `HandleAssumption` (no handle is the no-handle mark), for one operation at a time
(`Tasks = {T}`, which each theorem assumes; `AccountStoreOverlap` shows that two break the first of them):

| Theorem | Property |
|---|---|
| `ActivationStoresAll` | `ActivationIsComplete` |
| `SignOutKeepsHandles` | `SignOutNeverOrphans` |
| `FailedActivationIsUndone` | `FailureLeavesNoProfile` |
| `RetriesWork` | `FailsOnlyByItself` |
| `AccountIsSafe` | `AccountInv` |

`AccountInv` records what each await has left behind. `ActivatedSoFar` says it of the loop over the protocols of
an activation: those passed have the handle of a profile in the vault or none, those ahead have nothing yet;
with the last one passed this is completeness. `SignedOutSoFar` says the same of the deletions of a sign-out, so that
what it clears afterwards is no longer in the vault. `ProfilesAreKnown` names, for each place an operation can
be at, who still knows the profiles of the vault; `FailureLeavesNoProfile` is its clause for the end.
`SessionGoesFirst` is what makes a clearing that stops half-way harmless. None of it needs a handle to be fresh
for ever: one that nothing holds may be drawn again.

`WireExchangeProofs` proves for every set of request ids and handles, from `IdsAssumption` (no id is the
service's `invalid-request` or the mark of no response) and `HandlesAssumption` (no handle is the no-handle mark):

| Theorem | Property |
|---|---|
| `ConclusionsAreTrue` | `ExchangeInv` |
| `SuccessAndFailureApart` | `SuccessIsRecognised` |
| `LanguagesAgree` | `TwinsAgree` |

Two lemmas are about the frames alone. `DecodedAsMeant`: what `decode_request` makes of the frame the
application writes is the command it meant. `ReadBack`: what `encode_response` writes is read back field by
field, whichever options are set, and refused under another id; `ResponseFields` computes where each
field is. `ResultsServe` sums up the service: `Served` lists, for each operation, the codes a result may have and
what each says of machine and vault. The invariant `WireInv` then only says that what travels is the request or its
reply, and that the conclusion is drawn from that reply; the two properties of conclusions are a case split over
the operations on it. No code of a success is one of a failure (`CodesApart`), on which the split rests.

`LogStoreProofs` proves for every number of sessions, readers and links under way, from `BoundsAssumption` (each is
positive):

| Theorem | Property |
|---|---|
| `LogIsKept` | `LogInv` |
| `ScreenIsCurrent` | `ShownIsCurrent` |
| `ReportIsConsistent` | `ReportCountsTheLogs` |
| `FailureStopsWriting` | `NothingWrittenAfterFailure` |

None of the three invariants is inductive, and each needs another part of `LogIInv`. `DamageIsLocal` counts all damaged lines;
what is inductive counts those that have got their end of line (`DamageInv`), because the line that is still
open has not swallowed an entry yet, and that is the one a later append continues. `ChainInv` says that an append can only
be the first link, so that what waits behind it can only clear. `ReaderInv` ties what a reader has got to
what the file holds: before the append nothing is read, and what an archive has read first is what it reads the second time
or has been cleared since (`Fits`), from which `ReportCountsTheLogs` follows. `LoadInv` follows the load that was
started last: unless it was overtaken, it has the filter of the screen and will bring what the file holds;
when it ends, `CurrentInv` is what it leaves. `FailureStopsWriting` needs of all this only that no link is left
in a broken chain.

`WindowsBackendProofs` has no parameter to speak for, and TLC explores the module completely; the proofs are the argument
why it holds, step by step, and stand when a step is added.

| Theorem | Property |
|---|---|
| `BackendKeepsContract` | `KeepsContract` |
| `OneTunnelAtMost` | `BackendInv` |
| `ActiveIsAlone` | `ActiveIsTheOnlyTunnel` |
| `PlaintextIsGone` | `NoPlaintextAfterSuccess` |
| `JobEndsXray` | `CrashTerminatesXray` |

That at most one engine is engaged follows from where it can change: `CleanedInv` says that while the engines are
cleaned one after the other, and no error was met, those passed are stopped and have no file; a connect goes
on only when all are, so that it starts its engine with nothing engaged (`EngagedInv`). `ProcessInv` is about the child
process: outside a connect it is the one that the Xray engine holds, without which its cleanup would leave it;
and it is outside its job only before it has been assigned or while `start` tries to reap it, never when it has been
assigned, which is `JobEndsXray`. `FilesInv` follows the plaintext of the
engine that connects and keeps the others' away. The lemma of each action says both that it keeps this invariant and
which step of the contract it is (`ContractStep`): `CleanEffect` sums up a cleanup, whatever fails in it, and
`ConnectUndoes`, `ConnectReturnsErr` and `GoesDown` the three ways a step gives up.

Checked by TLC only: liveness (`PipeComesBack`, `StopIsAnswered`, `OperationEnds`,
`ScreenIsReadyAgain`), which the
provers do not reach. Every invariant and action property of the passing runs is proved.

## Where the code and its documents disagree

Each run checks one sentence of the documents or of a comment; TLC finds a behaviour of the code
that contradicts it.

| Run | Sentence | What the code does |
|---|---|---|
| `ControlPipeRecovery` | bounded recovery restarts (`0013-windows-installer.md:17`) | after an error of the loop the process stays, in state Running |
| `SignOutRace` | sign-out stops the tunnel first (`0011-production-gui-ipc.md:28`) | a connect can come between its status and its delete |
| `AccountStoreOverlap` | after an activation everything is stored (`0004-account-activation.md:30`) | an overlapping activation that fails clears it |

Read off the code, without a run: a failed `open_service` is taken for an absent service
(`wireguard_engine.rs:143`), so that the tunnel of that service may stay beside a new one, where
`0012-...:38` has only one active, and `is_connected` takes it for a tunnel that stopped, which the contract
of `ServiceCore` assumes away (`Engaged` leaves such a service out); the Xray child is spawned before it is
assigned to the job, and a crash between the two leaves it running, where `0012-...:36` has a crash
terminate it; one that cannot be assigned is left running if `kill` and `wait` both fail, as their results are
ignored (`xray_engine.rs:217`), and if only `kill` fails, `wait` holds up the service, whose commands run one at a time,
until the child ends by itself (the exceptions of `CrashTerminatesXray`); a connect that is refused has set `_protocol` already,
and a status reply to an earlier call may clear it, so that the next status shows a running tunnel under
another protocol or none, where `0011-production-gui-ipc.md:27` has status reconcile the GUI with the actual state (`settled`
leaves both out); the status reply of a service in a failure state carries the code `OK`, and the
error shown is then `OK` (the exception of `ConclusionIsTrue`); a failed rename in `write_config` leaves the plaintext `.new` file
(action `Rename`), where `0012-...:32` has it deleted on every failure, and the next successful call
removes it (`NoPlaintextAfterSuccess`); a load of the logs screen that is overtaken by the one of a later
filter shows the entries of the earlier filter, and a failed clear is neither reported nor retried, which
are the exceptions that `ShownIsCurrent` names; a disconnect of a disconnected service is answered BUSY
(`DisconnectBusy`), where `docs/security/vpn-engine-threat-model.md:41` names an idempotent
disconnect; a configuration with a special junk packet that
holds a control character of `U+0080..U+009F`, or with a prefix such as `/0x18`, passes the
application's parsers and is refused by the service as an invalid frame; a request id is unique within the last 256 of one process, where
`docs/architecture/windows-privileged-service.md:41` has it unique; a profile whose deletion
failed while an activation was undone stays in the vault under a handle nobody knows, where the comment
at `secure_account_repository.dart:109` has a later activation replace it.

## What is not modelled

Cryptography, DPAPI, ACLs and the pipe's security descriptor; the text of configurations
beyond its lengths (splitting into fields, renderers), redaction of the log and the encoding of
its archive; layout and wording of
the user interface; build scripts, the generated runner and third-party payloads. Statistics
and diagnostics change no state and appear as steps that occupy a request or the pipe; what their replies
carry is in `WireExchange`. `_serverId` of the desktop engine is not kept: it is set and cleared with `_protocol`.

Frames that no program of this repository writes (another magic, version or flags, a second
frame on one connection): their guards are in `HeaderAccepted`, but no step reaches them. A deletion
that a power loss undoes is in `VaultFiles` but not in `ServiceCore`, whose vault forgets at once.

Settings are one JSON value, loaded and saved by one screen that awaits each call. Payments,
speed test, updates and the server catalogue are deterministic mocks of a later stage, hidden from the
release navigation (a payment confirmed while it is cancelled, two first loads of the catalogue, a speed
test stopped and started between two steps are what to look at once they are real). The uninstaller is a
sequence of external commands whose failures NSIS ignores; that it stops the tunnel services by name,
while the recovery of the service may start them anew, is listed as a hazard without a property.

## Plan

Done: `ConnectionMachine`, `ServiceCore` with proofs, `BackendContract` and `WindowsBackend` with proofs, `ControlPipe`
with proof, `DesktopEngine` with proofs, `AccountStore` with proofs, `ProfileTransfer` with proofs, `LogStore` with proofs, `VaultContract` and
`VaultFiles` with proofs, `WireExchange` with proofs.

Left, in this order:

1. `Uninstall`: the NSIS sequence against the tunnel services of `WindowsBackend`.
2. The mocks, when they are replaced: catalogue, payment, speed test.
