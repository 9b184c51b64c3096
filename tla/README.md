# A TLA+ model of ha-wattbox

The repository holds an asyncio library that talks to WattBox power
controllers (`src/wattbox_local`, vendored unchanged under
`custom_components/wattbox/wattbox_local`) and a Home Assistant integration
built on it (`custom_components/wattbox`). This directory models both, checks
the models with TLC on small instances, and proves most of what is checked
with TLAPS for every instance.

How to run, from this directory:

* `tlc -workers 2 -config MCTransportReplies.cfg MCTransport`, and likewise
  for every other `MC*.cfg`: a configuration belongs to the module whose name its
  own begins with;
* `tlapm Transport_proofs.tla`, and likewise for `Client_proofs`, `Lockout_proofs`,
  `Rename_proofs`, `Snapshot_proofs`, `Codec_proofs`, `Login_proofs` and `Entry_proofs`.

## 1. Inventory

Everything runs on one asyncio event loop: what a task does between two
`await`s is atomic, and any other task may run at an `await`.

### 1.1 Line transport (`transport.py`)

*State.* `_cmd_lock`, `_closed`, `_reader`/`_writer` (Telnet) or
`_conn`/`_process` (SSH), and the bytes in flight both ways.

*Operations.* `connect()` opens, logs in, and closes again when that fails.
`send_command()` checks `is_connected`, takes the lock, writes one line, and
reads until a line matches or five seconds have passed. `close()` writes `!Exit`
and drops the handles. `_login()` walks the Telnet prompts;
`_drain_post_auth_banner()` primes an SSH session.

*Callers.* Coordinator refreshes, entity commands, service calls, the unload of
an entry: all of them tasks that share one object, and that can be cancelled.

*Hard.* A reply that comes after its request timed out; pushes nobody asked for;
tasks that wait for the lock while another closes the transport; a prompt that
comes in pieces; a cancelled login; `is_connected`, true during a login and after
the peer has gone.

*Correct means.* One command in flight; a reply goes to the request it answers,
or the shift has a known cause; `connect()` tells what the device decided and
costs one attempt; every call returns where the code sets a deadline.

### 1.2 Client (`client.py`)

*State.* The transport, `_reconnect_lock`, the lockout budget (`_auth_failures`,
`_locked_until`), the cached `_info` and `_capabilities`.

*Operations.* `connect()`, `close()`; `_send()` with its one retry and
`_reconnect()`; `identify()`, which probes seven optional commands once;
`snapshot()`, up to thirty round trips; setters that encode and send one line;
`set_outlet_name()`, which for a name with a space reads and writes all names.

*Hard.* Two tasks that reconnect at once; a call in flight when the client is
closed; a line repeated that the device already ran; the pause after refused
logins over a long series of outcomes; a read-modify-write over the network; a
probe that gets the late reply to another.

*Correct means.* At most one connection and one login; an answered line is never
repeated; no login attempt during a pause; a name never comes to an outlet it was
not meant for, and a rename that is alone touches no other outlet the firmware
reports; a capability is recorded only if the device has it, or for a known cause.

### 1.3 Protocol (`protocol.py`, `models.py`)

Pure functions: encoders that check bounds, the classification of a received
line, parsers. *Hard:* the ends of the ranges; names with commas or braces; a
reply out of format. *Correct means:* the protocol cannot be seen from outside: a
call does to the device what its arguments say, or nothing and an error.

### 1.4 Integration (`custom_components/wattbox`)

`__init__.py` sets an entry up (connect, identify, first refresh, platforms,
services), unloads and reloads it; `coordinator.py` polls `snapshot()` and
translates errors; `services.py` registers four services for all entries;
`config_flow.py` probes with a client of its own; entities read the last snapshot
and call the client.

*Hard.* A step of the set-up that fails half way; unload while a refresh or a
service call runs; reload on top of reload; several entries that share the
services; flows that race, with addresses that change hands under them, between
the form and the probe and between the probe and the update.

*Correct means.* A connection that outlives its entry has a known cause; services
exist while an entry is loaded, and reach the device they are called for; one
device has one entry, whose address and password that device has itself confirmed;
what runs is what the entry says; a refused password is not tried again
unattended.

### 1.5 The rest

Exceptions, constants, translations, scripts and CI have no behaviour of their
own. The vendored copy is the library byte for byte.

### 1.6 How they interact

    config flow ──probe──▶ WattboxClient (own)
    entry set-up, coordinator, entities, services
        └──await──▶ WattboxClient ──await──▶ transport ──lines──▶ device
                        ▲  reconnect lock        ▲ command lock      │
                        └── is_connected ────────┘ ◀── replies, pushes

The hazards, each at its line, are the list `hazards` of `PROJECT.json`.

## 2. Modules

| Module | Models | Builds on |
|---|---|---|
| `Transport` | one logged-in transport, its tasks, the device and the network | |
| `SerialRequests` | abstract: a FIFO service of one request at a time | |
| `Login` | `connect()` and `close()` of both transports, prompt by prompt | |
| `Client` | `_send()`, `_reconnect()`, `connect()`, `close()` | EXTENDS `Transport` |
| `Lockout` | the lockout budget and its clock | |
| `Rename` | `set_outlet_name()` over a device that may run lines late or twice | |
| `Snapshot` | `identify()`, `snapshot()`, `outlet_states()`, the entities made of them | |
| `Panel` | abstract: what a caller wants of a device, with no protocol between | |
| `Codec` | encoders, matching of replies, parsers, through setters and readers | EXTENDS `Panel` |
| `Entry` | entries, coordinators, services and flows in Home Assistant | |
| `MCTransport`, `MCClient`, `MCLockout`, `MCRename`, `MCCodec`, `MCSnapshot`, `MCLogin`, `MCEntry` | small instances | |
| `Transport_proofs`, `Client_proofs`, `Lockout_proofs`, `Rename_proofs`, `Snapshot_proofs`, `Codec_proofs`, `Login_proofs`, `Entry_proofs` | theorems | |

`Client` contains the transport: its actions conjoin an action of `Transport` with
what the client does on the return of that call. Between the other modules the
link is a fact that one establishes and the next one assumes, named in its
heading: `Snapshot` and `Rename` assume of a round trip what `Transport` and
`Client` show can happen to it, `Login` keeps the order of calls that `Client`
shows, `Entry` uses the client's outcomes.

Definitions whose comment begins with "Faulty:" are variants of the definition
that follows them, with a plausible bug. They are not part of any specification;
each shows that some property notices that bug.

### 2.1 Transport

The state is the object's (`closed`, `session`, the lock as the queue `lockq` of
its holder and waiters), the place where each task is suspended (`pc`) with its
local variables (`cmd`, `at`, `mine`), and the world's: for each connection ever
opened, its stage and the lines in flight each way. `session` is 0 when the
handles are `None`; opening another connection overwrites it.

`log` is a history variable: every line written, by whom, on which connection,
what became of it (`open`, `answered`, `abandoned`) and `by` which line's reply it
was answered, 0 standing for a push. Lines from the device carry, as a ghost, the
request they answer: no guard looks at it.

One action is what a task does from one `await` to the next. `SendNow` is
`send_command()` with a free lock up to the `drain()`; `SendWait` and `Acquire`
the same with a lock that is taken; `AcquireGone` the failed assertion when
`close()` came first. `Reply`, `Discard`, `ReadEof` and `Timeout` are the ways the
read goes on; `Accepts` is `_read_response_for()`. `CloseStart` and `CloseFinish`
are the two halves of `close()`, around the write of `!Exit`. `Cancel` cancels a
task wherever it is suspended. The device answers each line once or not at all,
in order, with the form of reply the command calls for or with `OK`/`#Error`/text;
it may push, hang up, and takes a line that comes during a login for a credential.

Left out: data, the splitting of lines into packets, a `drain()` that stalls. The
login is one step with every outcome `_login()` has; its prompts are `Login`.
Commands go the same way over SSH, in the base class that both transports share.

### 2.2 Login

`connect()` of either transport, chosen in the initial state. Time passes in
`Tick`; `left` is the time to the deadline it waits for. A word of the device is two
pieces, and what has arrived is handed to the reader in chunks cut anywhere:
`ReadUntilAny` looks for its needles in everything read since the prompt, within one
deadline. `LoginStep` is what `_login()` does with the prompt it found. For SSH,
`OpenSsh` is `asyncssh.connect()`, with its own refusal, `StartProcess` is
`create_process()` and `Primed` the loop of `_drain_post_auth_banner()` to the first
line that is not blank or banner. `Cancel` interrupts any of them. `Command` and
`Close` are the other tasks of the client, which send or close meanwhile. The
device judges a password once it has a user name; whatever line it gets at a prompt
is one or the other, `!Exit` and commands included.

`_close_underlying()` of SSH has a pause in it: it forgets the process, closes the
connection, waits in `wait_closed()` and only then forgets the connection.
`Closing` is what happens up to the pause and `ForgetConnection` the rest; in between
`handle` holds, and a `connect()` that closes first waits at `"closing"`, one that
closes on an error at `"raising"`. In this gap `create_process()` of an earlier
`connect()` may return, so that a process is held without a connection
(`StartProcess`). `conn` is the connection in use: what `_conn` names while `handle`
holds is closed already.

### 2.3 Client

`Client` adds, to each task, where it is in the client's code (`step`), and the
queue of the reconnect lock. Between the return of one inner call and the start of
the next the program does not suspend, but the module takes two steps: it has all
the interleavings of the program and some more, which is safe for the invariants.
The counterexamples quoted below do not use the extra ones. `Reopen` is the one
step in which two calls of the transport follow each other, `close()` and
`connect()`. A connection that the device has ended stays in the handles, for
`is_connected` looks only at those and at `_closed`.

The callers keep a discipline, which the integration and `async with` follow:
`connect()` has ended before anything else starts, `close()` is called once and no
call begins after it. Calls may be in flight when it is called.

### 2.4 Lockout

The clock is a natural number; attempts have a beginning and an end, so that the
pause counts from the end. `log` records them all. The two callers of
`connect()`, the set-up and `_reconnect()`, do not overlap: `Begin` requires that
no attempt runs.

### 2.5 Rename

The round trips of a rename, with what `Transport` and `Client` show can happen to
them: `stale` is a reply to an `?OutletName` that timed out, which the next read
gets instead of its own; `late` are writes given up that may still run; `WriteRuns`
may happen twice, because of the retry. A call is alone (`before`) if nothing of an
earlier one was in flight when it began and none has begun since. `Padded` gives an
outlet that the firmware does not report its default name, and the write that
follows sets it: the promise to rename one outlet holds of those reported.

### 2.6 Snapshot

Each task has a list of queries to ask before its next decision (`todo`): the five
of an identity, the seven probes, or the readings that the capabilities allow.
Replies wait in `wire` in the order of the requests and are matched as
`_read_response_for()` does, by command name only, so that after a round trip was
given up each query may get the reply to an earlier one. `OK` and text bear no name
and end any read: they are what the sets of other tasks leave on the connection.
`SetAcked` is such a set that reads its own ack, or one whose ack never comes;
`SetUnacked` one that is given up or takes a push or an older line for its ack, so
that the ack stays on its way; `loose` counts these. `Supported` is
`_is_supported()`, which takes every line but `#Error` for a yes; a reading that is
not a value is raised (`Raised`). `Identified` and `Probed` store identity and
capabilities together. `EntitiesFor` are the entities the platforms make of the
capabilities.

`got` is the history of an operation's readings: of each, whether it was the reply to
the request before it (`own`) and whether, since the reading before, no round trip
was given up and no ack left (`undisturbed`).

### 2.7 Panel and Codec

`Panel` says what the library is for: a call either changes the setting it names
to the value it was given, or is refused and changes nothing; a query returns what
is there; a reply out of format is an error. `Codec` has the same variables and gets
there through the protocol. One action is a whole call: the encoder with the bounds
it checks, the line, the device that takes it apart by the published format, the
reply among other lines, and the parser. A text is a sequence of tokens (words,
numerals, marks), so that a comma or a brace in a name is a token in the middle of
it. The refinement is the identity on the variables: `ActsAsPanel` is `Panel`'s
specification.

The assumptions on the constants say what callers pass (`CallsAssumption`: any
integers and any texts, as many names as there are outlets), what a device may have
(`DeviceAssumption`: names without a `}`, for that mark ends a name on the wire), and
what may come before a reply (`NoiseAssumption`: blank lines, pushes, replies to other
queries). `Junk`, the replies out of format that are tried, is under no assumption.

### 2.8 Entry

An entry that is set up goes through `connecting`, `identifying`, `refreshing` and
`forwarding` to `loaded`, one that is unloaded through `unloading` and `closing`;
`absent`, `idle` (not loaded), `error`, `retry` and `failed` (the platforms refused to
go) are where it rests. `Setup` has one action for every `await` of
`async_setup_entry()` and every exception it tells apart. `run` is the client made
last and its coordinator: the address and password it was made with, the tag it
read (`dev`), the device it is connected to (`link`), and whether it was closed.
`runtime` is the coordinator in `runtime_data`, without a value before the first
refresh and after an unload. A set-up may be cancelled, or its platforms fail
(`SetupAborts`): neither is caught, and the client stays as it is.

`busy` are the entries whose client has a call in flight: a poll, an entity's
command or a service, each of them `Call` and `CallEnds`. As `Client` shows, a
client whose connection is lost does not notice it, so that its calls fail until a
reload; but a call that is in flight when the client is closed does find it not
connected, and logs in again (`Reconnects`). Nobody closes that connection, and
no command goes over it, because the transport stays closed. A poll changes nothing
beyond that but the availability of the coordinator's entities.

The steps of a flow are the form (`SubmitUser`, `SubmitReauth`), the probe with a
client of its own (`Probed`, `FlowFails`) and the update (`ProbeNew`, `ProbeKnown`,
`ProbeReauth`); between them addresses (`Move`), passwords (`ChangePassword`) and the
entries may change, and other flows run. The histories: `cause` is why a client may
hold a connection that nobody will close, `left` records the clients let go of while
connected, `proved` the devices with the address and password of every probe that
succeeded, `missed` the entries changed during their set-up, `hot` those refused.

Of Home Assistant is assumed what the integration rests on, in the versions its
`hacs.json` admits (2025.1 and later): an entry's set-ups
and unloads exclude each other and reloads wait for their turn;
`ConfigEntryNotReady`, which the first refresh raises, is retried and any other
exception, cancellation included, is not; `ConfigEntryAuthFailed` starts a reauth
flow; the coordinator of a set-up that raises `ConfigEntryNotReady` is shut down;
update listeners run while the entry is loaded; `runtime_data` is declared without a
value and deleted after an unload; the device registry outlives restarts and
unloads; a `unique_id` is looked up, and the entry made, in one step when a flow
ends. Left out are the coordinators of aborted set-ups beside the connection they
leave, and who reads `CoordinatorsFor` first if a device is listed under several
entries.

## 3. Runs

| Run | Instance | Shows |
|---|---|---|
| `transport_replies` | 2 tasks, 2 connections, 2 lines, 1 push | single flight, FIFO service (`SerialRequests`), no reply used twice, early or on another connection; a shifted reply has a cause |
| `client_calls` | 2 tasks, 3 connections, 5 lines | one connection, one login, one repetition |
| `client_returns` | 2 tasks, 2 connections, 4 lines | every call of the client, and with it of the transport, returns |
| `lockout_budget` | 2 callers, 4 attempts, 8 time units | pauses are kept and never shortened |
| `rename` | 2 tasks, 3 outlets, 2 reported, 3 calls | names never move; a lone rename changes no other outlet that the firmware reports |
| `codec` | 2 outlets, one call and one query | calls and queries act as if there were no protocol |
| `snapshot` | 2 tasks, 2 outlets, 2 firmwares, 2 calls, 1 timeout, 1 ack left unread | the caches belong together, a phantom capability has a cause, readings keep step with their queries |
| `login` | 2 connections, timeout 2, 1 command | the outcome is the device's verdict, one verdict and one session at most, deadlines add up, the session starts clean, `connect()` returns wherever it has a deadline |
| `entry` | 2 entries, devices, addresses and flows, 3 acts | services, entries, data and refusals, as in 1.4; a connection left open has a cause |
| `transport_late`, `client_reconnect`, `client_drop` | | claims of the source that do not hold, see 5.1 |

**Bounds.** Two tasks are one that acts and one that interferes; the locks have one
holder and, with a third task, only more waiters of the same kind. Two commands, a
query and a set of different names, give every way a line can be taken or skipped.
Two lines are one whose reply comes late and one that gets it; a shift that goes on
repeats the same step. A second connection is what a reply could be carried over
to; a third lets two reconnects follow each other. Five lines let two calls repeat
theirs at the same time and another one follow. In `Lockout` a schedule of two
steps reaches its cap with the third failure. In `Login` the second connection is
the first that is made after a `close()`; two ticks let a chunk arrive before, and
after half, a deadline. In `Snapshot` one timeout and one ack left unread make a
shift of each kind, and together one of two places;
a firmware with every optional command and one with few tell a value from an error
for each probe. In `Codec` every argument is at, and one beyond, each end of its
range, and a name has each mark in each place; a behaviour has one setter call and
queries after it, for nothing is kept between calls but the device's settings, of
which four are tried.
In `Entry` two entries are one that is served and one that is set up, unloaded or
confused with it; an act is what a user does, a change in the network, a call that
begins or a set-up that is aborted, and three are enough to begin a call, unload
under it and move a device, or to submit a form and change the device's address and
password before its update.

Every bound is in a guard: `MaxSessions` in `OpenOk`, `MaxRequests` in `MaySend` and
`MayBegin`, `MaxPushes` in `DevicePush`, `MaxAttempts` in `Lockout!Begin`, `MaxTime` in
`Lockout!Tick`, `MaxRenames` in `Rename!Begin`, `MaxOps`, `MaxGiveUps` and `MaxLoose` in
`Snapshot`, `MaxCalls` in `Panel` and `Codec`, `MaxConns` and `MaxCommands` in `Login`,
`MaxActs` in `Entry`. The theorems of section 4 hold for all values of them.

**Deadlock.** Except for `transport_replies` and `transport_late`, where a task may
always call again, the systems really stop: after `close()`, at a bound, or with
everything loaded, nothing need happen. Their configurations say so.

**Fairness.** The event loop runs a task whose awaited event has happened, and fires
timers; nothing is asked of the device, of callers or of users.

* `Client!CFairSpec` is weak fairness of `ClientProceeds(t)` for each task. `OpenOk`,
  `OpenFail`, `LoginOk` and `LoginFail` are in it because every read of a login has a
  deadline, which `Login` shows. A `drain()` ends: the lines are far smaller than a
  socket buffer.
* `Login!Fairness` is that time goes on, that an opening whose deadline has come
  ends, and that text which has arrived is read. `create_process()` and
  `wait_closed()` have no deadline in the code (transport.py:458, :524): nothing is
  assumed of them, and `ConnectReturns` and `LoginBounded` speak of the other stages,
  which over Telnet are all.


## 4. Theorems

Each is a theorem of the module's whole specification, for all values of the
constants. They rest on nothing but the `ASSUME`s in the models, which say of what
kind the constants are and are evaluated in the runs; `CodecImplementsPanel` alone has
a hypothesis of its own, see below.

| Module | Theorem | Property |
|---|---|---|
| `Transport_proofs` | `TypeCorrect` | `TypeOK` |
| | `SingleFlightAlways` | `SingleFlight` |
| | `RepliesUsedOnce` | `RepliesNeverReused` |
| | `ShiftsHaveCauses` | `ShiftHasCause` |
| | `ImplementsSerialRequests` | `ServesSerially` |
| `Client_proofs` | `ClientTypes` | `CTypeOK` |
| | `OneConnectionOpen` | `OneConnection` |
| | `OneLoginRuns` | `OneLogin` |
| | `UnansweredRepeats` | `RepeatsOnlyUnanswered` |
| | `ClientSendsSingly` | `SingleFlight` |
| | `ClientRepliesUsedOnce` | `RepliesNeverReused` |
| | `ClientShiftsHaveCauses` | `ShiftHasCause` |
| | `ClientImplementsSerialRequests` | `ServesSerially` |
| `Lockout_proofs` | `BudgetTyped` | `LTypeOK` |
| | `AttemptsSpaced` | `Spaced` |
| | `CooldownKept` | `CooldownNeverShortened` |
| `Rename_proofs` | `RenamesTyped` | `RTypeOK` |
| | `NamesStayInPlace` | `NoForeignNames` |
| | `RenamesOneOnly` | `AloneRenamesOne` |
| `Snapshot_proofs` | `IdentityWithCapabilities` | `StoredTogether` |
| | `PhantomsHaveCauses` | `PhantomHasCause` |
| | `ReadingsInStep` | `ReadingsKeepStep` |
| `Codec_proofs` | `StaysTyped` | |
| | `CallsActAsPanel` | |
| | `QueriesActAsPanel` | |
| | `CodecImplementsPanel` | `ActsAsPanel` |
| `Login_proofs` | `LoginTyped` | `LoginTypeOK` |
| | `OneSessionOnly` | `OneSession` |
| | `LoginIsBounded` | `LoginBounded` |
| | `CommandsAreNoCredentials` | `NoCommandAsCredential` |
| | `OneVerdictOnly` | `OneVerdictPerSession` |
| | `VerdictIsReported` | `OutcomeIsVerdict` |
| | `SessionStartsClean` | `CleanStart` |
| | `TimeoutsAreSilence` | `TimeoutMeansSilence` |
| `Entry_proofs` | `ServicesStay` | `ServicesWhileLoaded` |
| | `NoTwoEntries` | `OneEntryPerDevice` |
| | `LeftoversHaveCauses` | `LeftHasCause` |
| | `OptionsCatchUp` | `StaleOnlyFromSetup` |
| | `RefusalsAreSpaced` | `RefusalsSpaced` |
| | `OnlyProbed` | `OnlyProbedData` |
| | `EntriesTyped` | `EntryTypeOK` |
| | `ServicesReachDevices` | `ServiceReachesDevice` |

### 4.1 Along which argument

Few of these properties are inductive. What each module adds to make them so:

* **`Transport_proofs`.** `IInv` is `TypeOK`, `LockInv` and `WireInv`: the head of the
  lock queue is the one task that may be sending and its line the last of `log`; a
  waiting task is in the queue; what is in flight to the device is `!Exit` or a line
  of `log`. Without the waiters' place nothing would forbid one to write out of turn.
  Replies are used in order because requests and replies stay
  in order all the way. `SessInv`: connections are used one after the other.
  `OrderInv`: the lines of `log` lie on connections that never go back, and a reader
  is not earlier than the line it gets the answer to. `ChanInv`: what is in flight on
  a connection belongs to it and comes in increasing order, the requests behind the
  replies, all of them behind the replies already used. With these `ByInv`, that no
  reply is used twice, survives a reply, and `OpenInv` that only the head of the lock
  has a line that is open. The cause of a shift is carried along line by line. The
  refinement maps the queue of `SerialRequests` to the lock's, which holds every task
  that waits or sends exactly once (`QInv`); a step of the transport appends, serves
  or removes one task, or is a stutter.
* **`Client_proofs`.** A step of the client is one of the transport with a step of
  the caller's code, so that `IInv` of the transport is kept by its own lemmas, with
  the exception of `Reopen`, which is two calls in one. `PlaceInv` says what the place
  of a task in the client tells about its place in the transport: who is in
  `connect()` as a reconnect holds the reconnect lock and found the transport closed,
  and a first `connect()` is alone. That makes logins exclusive. `RLockInv` is the
  lock's shape, `LiveInv` that only the connection of the handle can be live and that
  no handle is held while one is opened: hence one connection. `WroteInv` counts the
  lines a call has written against its tries and says that all but the one in flight
  were given up: hence the repetition. The last part carries what holds of the
  transport by itself over to the transport inside the client (`RepliesAlways`,
  `RepliesBelow`): every step of the client but `Reopen` is a step of `Transport` or
  leaves it alone (`StepsBelow`), and `Reopen` keeps `RInv` and `QInv` because it
  abandons one connection and opens the next without a line written or a place in
  the queue changed (`ReopenReplies`).
* **`Lockout_proofs`.** `Counted`, `Covered` and `Waited`: the counter counts the
  refusals since the last success, `locked_until` covers the pause of every refusal,
  and an attempt that runs began with no pause active.
* **`Rename_proofs`.** `Borne`: whatever name is anywhere, on the device or in
  flight, is one its outlet may bear. `Undisturbed`: while a call is alone, what it
  read, what it writes and what the device has follow from the names at its start;
  the outlets that are not reported are written their defaults.
* **`Snapshot_proofs`.** `Honest`: as long as no ack was left unread, a line in
  flight has a name, and says `#Error` exactly if the device lacks its query.
  `Probing`: what was found so far the device then has. `Numbered`: an operation under
  way has a number, by which what it stores differs from what was never stored. For
  the readings, `Settled`: once a task has been answered by the reply to its own
  request nothing is on its way (`OwnAnswer`), which no other task's round trip
  changes unless it is given up or leaves its ack; so that its next answer is its own
  again. `KeptReadings` says so of the readings taken so far.
* **`Codec_proofs`.** A text is taken apart token by token: `Split()` at the commas,
  `Walked()` at the braces, `Gathered()` by the device. Each is a recursive function
  over the text; that it exists, and goes one token further with a text one token
  longer, is proved first (`CutSteps`, `WalkSteps`, `GatherSteps`). Induction over texts
  is by sets: a set that has the empty text and, with a text, all that are one token
  longer has all texts (`Appending`, from the well-foundedness of `<`). The lemmas in
  the middle say that what was joined comes apart as it was: at the commas, if no piece
  has a comma (`SplitJoined`); at the braces, if no name has a `}` (`WalkedJoined`) or
  any brace (`GatheredJoined`). What the encoders refuse covers what these
  lemmas forbid. There is one lemma for each query and each setter, and
  `StaysTyped` keeps the names of the device within what the parser can read back.
  Of a reply out of format the theorem assumes that it answers the query and that
  `expect_value()` or the parser takes no value from it (`OutOfFormat`); it proves that
  the caller then gets a protocol error and the device keeps its settings. That
  the replies in `Junk` are of this sort is what the run `codec` shows.
* **`Login_proofs`.** A device judges every second line at its prompts, and a login
  with the `!Exit` after it sends three at most: user name, password, `!Exit`. The
  fourth would be the second password. `VInv` counts lines sent and judged against
  this quota, stage by stage; it needs that `connect()` goes on only with an `Ok`
  that the device said when its prompts were over. `BInv` does the same with time:
  what is spent and what is left stay below the sum of the deadlines so far.
  The second part is about what `connect()` tells its caller, however the device's
  words are cut. `Conv` says where the conversation stands: what was read since the
  last line, with what is in flight, is the beginning of what a device says in
  answer to that line (`Turn`), and nothing `connect()` waits for is in the part
  it has read (`Unfound`), so that a word it finds is one that the last chunk
  completed. Then `Ok` is found only in the answer to a password and after it
  nothing but a blank line can follow. `create_process()` may return to a connection
  that another task's `close()` has taken away: then nothing is written and nothing
  read, and the conversation stands nowhere. The answer to the query that primes an SSH
  session is the last of the device's script, so that the banner is read before it.
* **`Entry_proofs`.** `Shaped`: the state of an entry, its data, what runs for it and
  the device registry agree. `Tracks`: what runs is what the entry says ever since the client was made,
  unless a change came during the set-up. `Cools`: an entry that was refused rests in
  `error`, from which no unattended step leads back to an attempt. `Cared`: whoever
  still has a connection with nothing left to close it, or a call in flight that could
  make one, has a cause by then; so that when the client is let go of, the cause is on
  record. `Steady`: a client that was closed stays unusable even if it is connected
  again, so that a usable connection is the one whose tag was read. `Answered`: a
  flow that waits for its update holds a device, address and password that a probe has
  shown to belong together, whatever changed since; hence `Sourced`, that entries hold
  only such. An entry that a step leaves alone is as sound as before (`SameOK`), so
  that each action is looked at for the one entry it is about.

### 4.2 Only model-checked

* Liveness: `ClientReturns`, `ConnectReturns`. Fairness and `ENABLED` are out of the
  prover's reach.
* Which replies out of format the parsers reject. `CodecImplementsPanel` takes it as
  its hypothesis; the run `codec` tries some for each query.

## 5. Where code and documentation differ

### 5.1 Shown by a run

* **`transport_late`.** transport.py:203 says that replies are matched strictly "so a late
  reply to a previously timed-out request can't be mistaken for the current command's
  response". They are matched by command name, and `OK`/`#Error` by nothing at all
  (:227, :233): the same query sent again, or any set command, gets the late one.
  From then on replies may be shifted by one. What does hold is `RepliesNeverReused`
  and `ShiftHasCause`.
* **`client_reconnect`.** client.py:23 says "``send`` reconnects transparently on a dropped
  connection, once." `_reconnect()` calls `close()` first (client.py:482), which
  sets `_closed` (transport.py:167), which nothing resets: the new connection logs
  in, `is_connected` stays false, and the repeated line is refused. A client recovers
  only by a reload of its entry.
* **`client_drop`.** test_client.py:374 says "Should transparently reconnect and
  re-issue" of a connection that was lost. `is_connected` looks at the handles and at
  `_closed` only (transport.py:286, :431), and a device that hangs up changes neither:
  `_reconnect()` finds the client connected and does nothing (client.py:480), and the
  line is repeated on the dead connection. The test sets the transport of its mock to
  not connected by hand.

### 5.2 Seen while modelling, without a run of their own

These are in the models, where a property speaks of what is left of the claim, or
outside of them.

*Library.*

* transport.py:20 warns that a second command "before the first response arrives produces
  garbage". After a timeout the next command is written while the device may still
  owe the first response.
* A task that waited for the lock while `close()` ran meets `assert self._writer is not
  None` (transport.py:358): the caller gets an `AssertionError`, not a
  `WattboxConnectionError`, and with `python -O` an `AttributeError`.
* The log says "reconnecting once" (client.py:474), but `_reconnect()` does nothing if
  `is_connected` is true: after a timeout the retry goes to the same connection, where
  the first answer may still arrive.
* `is_connected` is true during a first login, and after one that was cancelled.
* Over SSH, a `close()` during the login of another task can return with a process held
  and no connection (transport.py:458, :516-525).
* transport.py:85 lists what `connect()` raises; errors of asyncssh and of the
  stream other than refusal and time-out come through raw.
* `BAD` after the user name is a protocol error that the lockout budget does not
  count; `locked` in a chunk later than `bad` counts as a refused password. The
  device's banner tells how long it stays locked; nothing reads it
  (`parse_lockout_remaining_s()` is called nowhere), the cooldown is 20 minutes.
* client.py:257 says "Rename a single outlet." A name with a space is set by writing all
  of them: outlets that the firmware does not report are named "Outlet i" (:347), and a
  rename that ended between the read and the write is undone (:267-273). What holds is
  `AloneRenamesOne` and `NoForeignNames`.
* client.py:422 says of the probes "recording which the device supports", README.md:25
  that "entities only get created for features the device actually has". Every line but
  `#Error` counts as support (client.py:446), and any line without a name answers
  whatever is asked (transport.py:227): the late `OK` of a set that timed out, or took a
  push for its ack, is recorded as a capability for the life of the client. In the
  integration no set comes before the first identification, so that there it takes a
  text of the device. What holds is `PhantomHasCause`.
* A late `#Error` hides a capability until the entry is reloaded.
* `_maybe_read_outlet_power()` reads "in index order" (client.py:378); in a shift a
  reading carries its own index but stands at another place. The sensor looks for the
  index.
* After the reply to a request was given up, the readings may stay shifted against the
  queries for as long as each reply bears the name that the next query asks for; nothing
  in the code resynchronises them. `ReadingsKeepStep` says when a shift can begin.

*Integration.*

* coordinator.py:65 says "Close the underlying client cleanly." A call in flight at the
  unload sees the end of the stream, finds the client not connected and logs in again
  (client.py:483), and nothing closes that connection. Nor is the client closed of a
  set-up that is cancelled or whose platforms fail, which the handler at
  `__init__.py:63` does not see. What holds is `LeftHasCause`.
* services.py:118 raises "No loaded WattBox config entry for device" when none is found,
  and :116 provides for a coordinator that is `None`. The `runtime_data` of an entry
  that is not loaded is not `None` but missing, so that the lookup ends with an
  `AttributeError` at :115, also if another entry of the same device, later in the list,
  is loaded (`MayFail`). What holds is the second half of `ServiceReachesDevice`.
* Options changed during the set-up are overlooked: the listener is added at its end
  (`__init__.py:97`). `StaleOnlyFromSetup` says that this is the only case.
* binary_sensor.py:39 says of the lockout sensor "ON whenever the client's lockout
  cooldown is active". A client gets a cooldown only from a login, and a client whose
  entry is loaded does not log in again until it is closed (`client_drop`,
  `client_reconnect`); one whose set-up was refused has no entities. The sensor
  is never on.
* At set-up a `WattboxConnectionError` is raised as it is. Home Assistant retries a
  set-up on `ConfigEntryNotReady` only, so that a device that is off at start stays
  off for it until somebody reloads.
* The set-up does not compare the service tag with the `unique_id` of the entry: at an
  address that changed hands it serves another device under the entry of the first.
  The services look for the tag in what the coordinator read, not in the entry, and
  so reach the device they are called for all the same (`ServiceReachesDevice`).
* The services stay registered if the last entry is removed without having been
  loaded.

## 6. Not modelled

* **The vendored copy.** Byte for byte the library, kept so by
  `scripts/check_vendored.sh`. The modules hold for it as they stand.
* **Scripts, translations, packaging, CI.** No behaviour at run time.
* **Schemas of services and flows.** They narrow what the encoders check again, and
  `Codec` has the bounds of the encoders.
* **Entities**, in part. They keep no state and each command is one call of the client.
  Which ones are made is in `Snapshot`; units, names, icons and availability are left
  out.
* **Models, exceptions, constants**, in part: what the other modules need of them.
* **`split_response()`, `is_async_push()`, `parse_lockout_remaining_s()`** are called by
  nothing in the library or the integration.
* **A list of names that is shorter or longer than the device.** The encoder lets it
  pass; what the device makes of it is not in the repository.
* **A `drain()` that stalls** because the peer stops reading. There is no deadline on
  it; lines are much shorter than a socket buffer.
* **The device's own count of refused logins.** Its threshold and duration are not
  in the repository; `Login` lets it say "locked" at any prompt instead.
