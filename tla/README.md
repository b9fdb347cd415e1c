# homelink in TLA+

homelink is a daemon on a home machine that serves the requests of its owner's
other devices (run a command, list and change files, receive files) over a
Telegram chat, with a UDP transport meant to take over when two devices can
reach each other directly. This directory holds TLA+ modules of its core, the
TLC configurations that check them on small instances, and theorems about them
that TLAPS checks for all values of the constants. Paths below are relative to
`src/homelink/` unless they start with `src/`.

## The system

| Component | State | Operations | Talks to |
|---|---|---|---|
| Telegram transport (`transport/telegram/transport.py`) | `_available`, `_last_update_id`, a `NonceCache` per peer | `start`, `stop`, `send`, `_poll_loop`, `_get_updates`, `_handle_update`, `_handle_approve` | Bot API, broker, device manager |
| Rate limiters (`core/rate_limiter.py`) | key -> times of calls | `is_allowed` | transport (MSG), daemon and receiver (OFFER), executor (EXEC) |
| Envelopes (`crypto/signing.py`, `crypto/nonce_cache.py`) | nonces seen, in order of time | `sign_message`, `verify_signature`, `check_and_add` | transport |
| Broker (`core/broker.py`) | `_active`, handlers | `dispatch`, `send`, `_fallback_send`, `status` | transports, daemon |
| Daemon (`service/daemon.py`) | the parts, the start time | one handler per request type | everything |
| Device manager (`core/device.py`) | `_peers`, identity | `load`, `approve_peer`, `get_peer` | `devices.json` through the configuration manager |
| Configuration manager (`config/manager.py`) | `config.json`, `devices.json`, keys | `load_config`, `save_config`, `load_devices`, `save_devices`, `approve_device`, `remove_device`, migration | daemon, `homelink`, `homectl`, `src/init.py` |
| File transfer (`files/transfer.py`, `files/protocol.py`) | sessions, the downloads directory | `send_file`, `handle_offer`, `handle_chunk`, `handle_complete` | broker or transport |
| Command executor (`commands/`) | history | `execute` with limiter, permission and time-out | processes |
| P2P transport (`transport/p2p/transport.py`, `hole_punch.py`, `stun.py`) | socket, the event loop's reader for it, sessions | `start`, `stop`, `connect_to_peer`, `_recv_loop`, `punch`, `_recv_pong` | STUN servers, peers |
| Session cipher (`crypto/session.py`) | nonce prefix and counter of the sender, counters seen by the receiver | `encrypt`, `decrypt` | P2P transport |
| Remote client (`cli/client.py`, `cli/ctl.py`) | one request | `send_request`, `upload_file` | a transport of its own |
| Setup (`src/init.py`, `src/install.sh`) | key files, `config.json`, `devices.json`, keyring, unit file | one run of `main`, which may be repeated | configuration manager, installer, keyring |
| Process of the daemon (`service/run.py`, `daemon.py`, `core/device.py`) | what it has read from disk; the unit's state in systemd | start, `_main_loop`, stop, restart | all files, keyring, systemd |
| Home commands (`cli/main.py`, `service/installer.py`, `keystore.py`) | files, systemd, keyring | install, remove, start, stop, restart, reconfigure | the configuration manager, systemd |

A daemon has one asyncio loop. The poll loop awaits `_handle_update`, which
awaits the broker's `dispatch`, which awaits the handler: there is one handler
at a time, and a slow one holds up everything that comes after it. Concurrency
comes from outside: the relay that delays, repeats and reorders messages, the
other programs that change the same files, peers with their own clocks, the
owner with an editor, failing writes, the setup program that is run while a
daemon starts, and the end of any process at any step. Only the P2P transport
has two coroutines that compete: its receive loop and a punching attempt, or two
attempts, wait for datagrams on one socket.

What makes each component correct:

* receive path: what was signed is dispatched at most once by a process (in each
  form its signature is good for, see below), and what the bounded caches forget
  can never be accepted again;
* poll loop: no update is confirmed before it is handled or given up by an error,
  a restart repeats at most one batch, errors slow the loop down and never stop it;
* registry: memory and file agree on who is approved;
* file transfer: bytes in their places whatever the order of chunks, a bounded
  number of transfers, a limiter that counts each peer's own offers;
* configuration: nobody reads half a file, no save takes back another one;
* requests: a bounded hold-up, an honest return value, and an end for each;
* cipher: no nonce twice with one key, nothing passed on twice, no packet refused
  without a reason;
* punching: a success means that the machine behind it has answered, and two
  machines that punch to each other get through;
* setup and service: a finished setup can be loaded whatever was there before, a
  daemon does not run with the halves of two identities when their passwords
  differ, and one that failed to start comes up once the reason is gone.

What is hard to test in this code is listed under `hazards` in `PROJECT.json`,
each at its line with the properties that cover it.

## Modules

| Module | Models | Kind |
|---|---|---|
| `SlidingWindow` | the eviction loops that limiter and nonce cache share | operators |
| `OnceDelivery` | what the receive path promises | abstract specification |
| `CommittedLog` | what the poll loop promises | abstract specification |
| `Inbound` | `_handle_update` with `MSG_LIMITER`, `NonceCache`, `verify_signature` | implements `OnceDelivery` |
| `PollLoop` | `_poll_loop` and `_get_updates` against the Bot API, over several processes | implements `CommittedLog` |
| `DeviceRegistry` | `_peers` against `devices.json` | component |
| `FileReceive` | receiver of files against the downloads directory | component |
| `FileOffers` | sender, gate of the daemon, gate and slot of the receiver | composition of sender, daemon and receiver |
| `ConfigStore` | `config.json` and the programs that save it | composition of programs over one file system |
| `Requests` | handlers, executor, broker and `send` behind a queue of requests | composition of relay, daemon and executor |
| `SessionCipher` | `encrypt` and `decrypt` of one key over UDP | implements `OnceDelivery` |
| `HolePunch` | `connect_to_peer` and `HolePuncher` of several machines behind NATs | composition of machines over one network |
| `DeviceList` | `save_devices` step by step, in two programs at once | component of `Setup` and `Service` |
| `Setup` | `main` of `src/init.py` against disk, keyring and unit file | component |
| `Service` | the daemon's process from start to end, systemd, the home commands | composition with `Setup` |
| `InboundProofs`, `PollLoopProofs`, `FileReceiveProofs`, `FileOffersProofs`, `RequestsProofs`, `ServiceProofs` | | theorems about the module of that name |
| `ConfigManagerProofs` | | theorems about `DeviceRegistry` and `ConfigStore` |
| `P2PProofs` | | theorems about `SessionCipher` and `HolePunch` |
| `MC...` | | small instances for TLC |

In every module a definition that stands for code carries the code's name
where it has one, and `map` in `PROJECT.json` gives its lines. Operators that
stand right before the definition they resemble (`AdmitKeepingBucketShort`
before `Admit`) are mutants: plausible mistakes in that code, each of which
makes TLC refute a property. Nothing else uses them.

A module of theorems extends the modules it is about. Where it extends two of
them, the specification of one has longer names: `RegistrySpec` and
`RegistryNext` in `DeviceRegistry`, `CipherSpec` and `CipherNext` in `SessionCipher`.

### Inbound

One update is one step: there is no await between the rate limit test and the
verdict on the signature. `bucket` is the deque of the chat in `MSG_LIMITER`,
`cache[p]` the ordered dictionary of the peer's `NonceCache` as a sequence of
nonces with their times, `approved` what `get_peer(...).approved` answers.
`Refuse` and `Admit` are the two ends of `is_allowed`; `Record` is what
`check_and_add` does after its replay test: evict by age, evict for capacity,
append. The replay test looks at every entry, before any eviction, as in the
code, and the nonce is recorded before the signature is checked. `accepts` and
`admitted` are history variables.

What is signed is not the envelope. `_canonical_bytes` joins the hash of the payload, the
time stamp in whole milliseconds, the nonce, the device id and the version;
nothing marks the border between nonce and device id, and `_handle_update` compares
the device id of the envelope with nothing (the sender is the one the wrapper names).
So `sent` holds what signatures cover (`Canonical`), an envelope has a text, which is nonce
and device id together, and a `cut` that says where its nonce ends, and its signature is
`Good` iff the bytes it stands for were signed, wherever the cut is. A message has one form for each
cut, and the cache can tell the forms apart only by the nonce they show (`NonceAt`; two
cuts may show the same). What the code achieves is `OncePerForm`; that it does not
achieve `OncePerMessage` is the run `replay`. An envelope with another payload or another
signature never verifies; for the limiter and the cache it is one of an unsigned text.

A process that restarts has empty limiters and caches; `OnceDelivery` says so
with its `Restart`: at most once holds per process. `OnceDelivery` has the forms of a
message as a parameter: the cuts for `Inbound`, a single one for `SessionCipher`.

The handlers take time in the code (see `Requests`), here they take none: all
times that matter to this module are read before the handler is awaited.

### PollLoop

The Bot API keeps updates 1..`posted`, of which 1..`acked` are confirmed. A
fetch confirms everything below its offset and returns at most `Limit` ids;
`lastId` moves to the last of them before any is handled. `HandleRaises` is an
exception out of `_handle_update`, which gives up the rest of the batch.
`FetchFails` leaves open whether the API has seen the call. Other chats' updates
and all reasons to drop an update are a `HandleNext`.

`CommittedLog` is the same without fetches, batches and delays: a reader reads the
entries of a log in order or, after an error, gives up the next few, and both are
kept apart (`read`, `lost`); it commits what it is done with, and a new reader begins
behind what is committed. `Cursor` says where in the log a process is.

An update whose handling raises takes the rest of its batch with it: the code accepts
that loss, and no property denies it. `raised` (history) has the updates that raised, so that
`EventuallyHandled` can say that every update is handled unless one at most a batch
before it raised, and `ImplementsCommittedLog` that nothing is lost in another way.

### DeviceRegistry

A device is listed as pending or approved, or not, or by an entry that cannot
be parsed; `mac` is the state of the tag of the file. Read, write and rename
run without an await, and only the daemon writes while it runs, so a save is one
step, after which the process may die (`DieAfterSave`). An approval rewrites the
file with a good tag whatever its tag was before (`load_devices` is called
with `verify_integrity=False`). `dispatch` swallows errors, so the chat reads the
same answer whether the handler succeeded or not: `ChatApprove`, `ChatDeny`.

### FileReceive

A file is a sequence of bytes in which a hole reads as zero, a digest stands
for the content it was computed from. `AfterWrite` is lseek and write. Chunks of
any announced transfer come in any order, any number of times, cut short or
damaged. `Sole(t)` says that nobody but `t` writes the file of `t`; two transfers
under one name may overwrite each other, which no property forbids.

### FileOffers

The daemon tests `OFFER_LIMITER` in `_handle_file_offer` and `handle_offer` tests it
again: `DropOffer` and `RefuseRate` are the two refusals, `Charged` is the way
through both. All answers of `handle_offer` go to `Self`, because the daemon's
`FileTransfer` is made with the daemon's own id, and no handler for `file_accept`
is registered anywhere; so a session made by `send_file` ends by its
time-out, and chunks never follow. `slot` is the set of sessions that are
active in the receiver.

### ConfigStore

The file system has two names, `config.json` and `config.tmp`, and files (inodes)
they stand for. `save_config` is `Open` (which truncates), `Write`, `Replace`, each
its own step; a program may be killed between any two. The migration in
`load_config` saves, too, and then the program goes on (`GoOn`). `kept` holds each
field as it was last saved by a program that was about it (`Purpose`: the
migration comes first, whatever the program is for).

### Requests

Time is kept as ages and as time left, so that no clock grows. `Take` hands the
next request to its handler, which ends at once (`Done`), starts a command
(`pc = "run"`) or posts an answer (`pc = "post"`). `PostFails` is followed by the one
post of `_fallback_send`. A restart brings back what was taken last and not
confirmed, a suffix of `taken`, as `PollLoop` has it, and the relay is taken to hand requests on as they were signed (see
`Inbound` for the other forms). `HandleExec` follows `execute`:
limiter, permission, `effective_timeout`, command. `Recent` is the loop that pops
expired calls from the left of the deque. The status of the broker holds a coroutine that `json.dumps` refuses, so `HandleStatus` replies "no JSON".

### SessionCipher

One direction of a session, with one key. The sender may make several ciphers
(`Make`), each with its own random prefix and a counter from 0; the receiver may
make a new one (`Reopen`) and has then seen nothing. A packet is its nonce and a
body that stands for plaintext and tag. `Send` is `_send_to_session`: the counter
is used up even when the datagram is not sent; at `CounterLimit` (2^32 in the
code) `encrypt` raises. `Decrypt` tests and notes the counter alone, not the whole
nonce, and before the tag, so `DecryptDamaged` uses up a counter, too. A packet
never leaves `wire`: the network may deliver it again.

### HolePunch

An attempt is one call of `connect_to_peer`; its identity is the nonce of its
pings. `Ping` is a round of `_punch_loop`, `Listen` the `add_reader` of
`sock_recvfrom`, which takes the socket from whoever had it, and `Read` one round
of `_recv_pong`. `_recv_loop` is not a party with actions of its own: it drops what
it reads, and once an attempt has replaced its reader its future is never
completed. `Stop` cancels `_recv_loop`, which removes that reader, and closes the socket, which
removes none: an attempt stays registered until its wait of half a second ends
(`WaitEnds`) or its deadline comes (`Expire`). `hole` is what a machine's NAT lets in. A punch that succeeds ends in
`"raised"`, because `connect_to_peer` unpacks the three values of
`derive_session_keys` into two names. So `phase` has no `"True"`, and `_sessions` is
always empty.

### DeviceList, Setup and Service

`DeviceList` has `save_devices` as it is run by two programs: read the list, read
`signing.pub` for the tag (`BeginSave`), open and empty `devices.tmp` (`OpenTmp`), write it
(`WriteTmp`), rename it (`Replace`), or fail because it is not there any more
(`ReplaceFails`). Both use the same `devices.tmp`, and a program keeps writing to the file it
has opened, under whatever name that is by then (`fd`). A list is described by the
`signing.pub` of its tag, or is `Broken`.

Files are described by the number of the run of `init.py` they stem from. Each
key file takes two steps (`Truncate`, `WriteKey`), as `write_bytes` does; `config.json`
takes one, since `ConfigStore` has its detail; `devices.json` takes the steps of
`DeviceList` (`AddDevice`, `WriteDevices`, `DevicesSaved`). `Follows` is the order of the
writes in `main`, and `Interrupt` may come before each of them. `StorePassword` leaves the
keyring alone when `keyctl` is missing.

`Service` has one action for each thing that the starting process reads:
`CheckConfig`, `ReadPassword`, `ReadConfig`, two `ReadKey`, `ReadDevices`, `StartP2P`,
`StartTelegram`. Setup, the owner's editor and a machine that goes down may act
between any two of them. A key file opens with the password of its own run. A
running daemon that approves or denies a device saves the list (`ApproveDevice`,
`SaveDevices`) with a tag of the `signing.pub` that it finds when it begins, which during
and after a rerun of setup need not be its own.

systemd is modelled by what it makes of the unit file, which is not all that the file
means to say: `StartLimitIntervalSec=120` (`service/installer.py:34`) stands in section
`[Service]`, where systemd does not know it, so the interval is the default of 10 s; `starts`
counts the starts within it, and `waits` the delays of 5 s, of which two are longer than the
interval (`Delays`). `StartLimitBurst` is known in `[Service]` for compatibility. Restarts by
systemd alone never exceed 3 starts in 10 s; the limit is reached only with starts by hand.

## Runs

| Run | Instance | Shows |
|---|---|---|
| `inbound` | 1 peer, 2 texts in 2 forms, ticks of half a millisecond, clock 0..5 | `OncePerForm`, `RateBound`, `ForgetsOnlyStale`, the inductive invariant `IInv` (types included), `ImplementsOnceDelivery` |
| `poll_loop` | 3 updates, batches of 2, 3 processes | `NothingLost`, `RedeliveryBound`, `InOrder`, `ImplementsCommittedLog`, `EventuallyHandled` |
| `registry` | 2 devices, no bound on steps | `ApprovalIsDurable`, `DeniedStaysOut`, `OnlyListedIsApproved` |
| `file_receive` | 3 transfers, 2 names, chunks of 2 bytes | `ActiveBound`, `CompleteFileIntact`, `OwnBytesInPlace` |
| `file_offers` | operator with 2 transfers, viewer with 1, clock 0..4 | `BegunBound`, `LimitedByOwnOffers`, `WaitEnds` |
| `config_store` | 2 programs, 2 values of each setting | `WholeWhenAlone`, `ChangesAreKept`, `MigrationIsFinal` |
| `requests` | 2 requests of any kind from an operator or a viewer, 1 restart | `HoldBound`, `TrueMeansDelivered`, `CopiesBound`, `EveryRequestEnds` |
| `cipher` | 2 ciphers, 2 prefixes, 3 values of the counter | `NonceUnique`, `RefusedOnlyIfUsed`, `AtMostOnce`, `ImplementsOnceDelivery` |
| `punch` | 3 machines, 4 attempts, 2 of them of one machine | `SuccessIsAnswered`, `ReaderIsLive`, `PunchSucceeds` |
| `service` | 2 runs of setup, 2 passwords, 3 starts per interval | `CompleteSetupLoads`, `IdentityIsWhole`, `Recovers` |

Two runs end in a violation, each of a property that a comment of the
repository states:

| Run | Property | What the trace shows |
|---|---|---|
| `file_resume` | `ResumePrefixValid` | the last chunk of a transfer comes first and its write fails half-way, the file now reaches beyond the first chunk; the transfer is offered again and is told to resume behind that chunk, which never came (`files/transfer.py:243`, `files/protocol.py:20`) |
| `replay` | `OncePerMessage` | "Per-session NonceCache prevents replay" (`crypto/signing.py:26`), but one signature is good for two envelopes with different nonces (`crypto/signing.py:126`), and one process dispatches both |

### Where code and words differ

The models follow the code also where a comment, a document or a default says
otherwise. Besides the two runs above:

* with the default list of STUN servers, which are strings (`config/manager.py:49`), the
  loop that unpacks pairs raises outside its `try` (`transport/p2p/stun.py:59`): every start
  with the configuration that `init.py` writes ends (`StartP2P`), although the function
  "returns None if all servers fail" (`transport/p2p/stun.py:57`);
* `StartLimitIntervalSec=120` (`service/installer.py:34`) is ignored where it stands: a
  daemon that cannot start is started every 5 s without end, unless the owner stops
  it or starts it by hand as well (`AutoRestart`: systemd's own restarts never exceed
  three starts in 10 s);
* `save_devices` is an "Atomic write with HMAC integrity tag" (`config/manager.py:246`) for
  one program at a time. A daemon that read the earlier `signing.pub` for its tag and
  renames after the setup has finished leaves a list that the next start refuses; so does
  one that empties the `devices.tmp` that setup is about to rename and is then killed.
  Both are behaviours of `Service`, which the condition `~crossed` of `CompleteSetupLoads`
  excludes;

* an offer is charged twice, by the daemon and by the receiver
  (`service/daemon.py:154`, `files/transfer.py:199`), so the configured rate
  (`config/manager.py:71`) is halved: `Charged` in `FileOffers`, and the factor in
  `BegunBound`;
* all programs that save the configuration use the same `config.tmp`
  (`config/manager.py:186`): the replacement is atomic (`config/manager.py:184`)
  for programs that run one at a time, which is what `WholeWhenAlone` says;
* a denied device that was approved stays approved in the daemon's memory until
  a restart (`service/daemon.py:284`): `OnlyListedIsApproved` is about the step that
  approves, not about all time after it;
* the answer to a status request never leaves the daemon, because the broker's
  status holds a coroutine (`core/broker.py:160`);
* keys of a session are said to be rotated (`crypto/session.py:10`), the transport
  only logs that it is time to (`transport/p2p/transport.py:182`); the replay set
  holds counters, not the "full nonce" of the comment (`crypto/session.py:97`);
* `service/run.py:44` tells the owner to run `homelink unlock`, which does not
  exist.

### Bounds

`MaxNow` (`Inbound`, `FileOffers`) stops the clock after more than one window of the
limiter and more than one life of a cache entry, so that both forget. In
`MCInbound` the cache is as small as the assumptions allow (as large as one
window admits), a window is as short as the span of a message allows, and entries outlive
the window by a tick, so both evictions happen, the one by age and the one for
capacity. Two ticks make a millisecond, so that two time stamps have the same
signature. The two cuts are the one of the sender and the one with an empty nonce, which all
texts have in common. Of the assumption's two cases the run is in the first (one window
covers the span of a message); the code is in the second (two windows of 60 s, against
60 s and the rest of a millisecond), which only the proof covers. `MaxId` = 3 with batches of 2 gives full,
partial and empty batches; `MaxBoots` = 3 lets a redelivered batch be cut off
again. `MaxArrivals` counts
offers that reach the daemon: three calls in the window leave room for one
offer and a half, as five leave room for two and a half. In `FileReceive` a file
of three bytes is a whole chunk and a partial one. `MaxBoots` = 1 in `MCRequests`
gives one redelivery; `Window` and `Tolerance` are short enough for calls and
envelopes to expire behind one command. The values of `ConfigStore` need no
bound on steps. `CounterLimit` = 3 lets two ciphers reach the end of their counters,
where a counter that wrapped would meet its own nonces. In `MCHolePunch` two
attempts of one machine compete for its socket, two machines are opposed, and a
third one is found at the peer's local address; every attempt is made once.
`MaxRun` = 2 gives a run of setup over the remains of another one, with an equal or a
different password, next to a daemon of the earlier one; the order of the writes only
relates a run to those before it, and the theorems hold for every number of runs.
`Burst` = 3 as in the unit file. The theorems do not depend on these bounds: `MaxNow`,
`MaxBoots`, `CounterLimit`, `MaxRun` and `Burst` are arbitrary there.

`CHECK_DEADLOCK FALSE` is set for `PollLoop` and `MCHolePunch`: after `MaxBoots`
processes, and when all attempts are over, these systems have come to their end.

Symmetry is used in `MCInbound` and `MCConfigStore`, whose properties are
invariants and action properties that treat the permuted values alike; never
where liveness is checked.

### Fairness

`PollLoop`: the loop goes on (`WF` of its steps), because asyncio runs a task that
is ready and a timer that is due; `SF` of a fetch that succeeds says that an API
which is asked for ever answers for ever again. Nothing is assumed of `Post`,
`Stop`, `Exit`, `Start`. `FileOffers`: time goes on, and a sender looks at its deadline
(every 0.2 s in the code). `Requests`: time goes on, the loop takes the next
request while the transport is up, `wait_for` fires when the time of a command
is over, and so does the time-out of a post. No command need end by itself and
no post need succeed. After `proc.kill()` the command's output is collected,
which is taken to end at once (commands run without a shell). `HolePunch`: pings are repeated as long as the attempt runs
and the socket is open, and of the copies that may arrive some do, for an
attempt that has its socket to itself; without the latter (the network loses
everything, another attempt takes the reader) nothing can be promised. No
deadline need come, no call need be made. `Service`: a starting process gets on, a save
that has begun goes on (it awaits nothing), `_main_loop` looks at `_running` every 10 s, and
systemd restarts what has failed. Nothing is assumed of setup and owner.

## What is proved

For all numbers of peers, nonces, updates, processes, devices, transfers, chunks,
programs, requests, ciphers, machines, attempts and runs of setup, and for all
windows, tolerances, time-outs, batch sizes and capacities that satisfy the named
assumptions, every invariant and action property of every passing run, and the
three implementations of an abstract specification:

* `InboundProofs`: `IInv` is inductive (`InboundInvariant`); from it types, `RateBound`,
  `OncePerForm` and `ForgetsOnlyStale`; and every step of `Inbound` is a step of
  `OnceDelivery` or a stutter (`InboundImplementsOnceDelivery`). `ParameterAssumption`
  relates the constants as the code's values do: a cache entry lives at least as long as
  what was signed once may be in time (`Span`: 60 s and the part of a millisecond that
  the signature does not cover, against 120 s), and the cache holds what the limiter
  admits in as many windows as cover that span (10000 against two times 60).
  `OncePerForm` alone is not inductive, because the cache forgets. The argument is:
  a dispatched form is in the cache or out of time for good (`Remembered`), under every time
  stamp its signature is good for. An entry goes by age only after `TTL`, when its form is
  out of time. It goes for capacity only when as many entries as the windows admit came
  after it; every entry cost one admission, so counted from the newest the entries are no
  younger than the admissions (`CacheAligned`), and admissions that are `MaxCalls` apart are
  more than a window apart (`RateBound`): the oldest of a full cache is
  out of time as well. `RateBound` rests on `AdmittedTail`: the bucket is the tail of
  all admissions, and the rest has left the window.
* `PollLoopProofs`: `PollInv` is inductive. A batch is always the run of ids that
  ends at `lastId`, so a process has got as far as `Reached`, and while it lives
  everything up to there is handled or dropped (`DoneInv`). A fetch finds the batch empty,
  so all it confirms is handled or dropped (`NothingLost`); a batch reaches at most `Limit`
  beyond what is confirmed (`RedeliveryBound`); the log ends before the batch begins
  (`InOrder`). A process that has ended keeps its `lastId` in the model although it
  may be past ids that were never handled, which is why `DoneInv` excludes it.
  Every step is one of `CommittedLog` or a stutter
  (`PollLoopImplementsCommittedLog`): handling an update reads one entry, an
  exception gives up the rest of the batch, a fetch commits, the end of a process
  gives its place up. It needs one more invariant (`CursorInv`): a batch that is
  still to be handled comes after all that is confirmed.
* `ConfigManagerProofs`, registry: types with `ApprovalIsDurable` and `DeniedStaysOut` are
  inductive together (`RegistryInvariant`), and `OnlyListedIsApproved` follows for every
  step.
* `ConfigManagerProofs`, configuration file: `StoreInv` is inductive. Two parts hold
  whatever the programs do: what a program has in memory is of the present version
  (`MemoryInv`), and no file but `config.json` itself can be of the previous one
  (`OldInPlaceOnly`); `MigrationIsFinal` follows, overlaps or not. The third is about
  programs that run one at a time (`AloneInv`, `SoloInv`): what the one that runs has
  in memory is what `kept` becomes when its save is completed (`Purpose`), and it
  writes to `config.tmp`, which is never the file named `config.json`, whoever left
  it behind. From this `WholeWhenAlone` and `ChangesAreKept`.
* `FileReceiveProofs`: types, `ActiveBound`, `CompleteFileIntact` and `OwnBytesInPlace`
  are inductive together (`ReceiveInv`). A chunk, or the first part of
  one that was cut short, has its bytes from the places of the content at which it
  is written, whatever arrived before it (`ChunkIsInPlace`). So a
  write to a file that holds only own bytes and holes leaves only own bytes and
  holes (`WriteKeepsPlaces`), and a write over the whole content changes nothing
  (`WriteOverContent`): that is why chunks that come late do no harm to a file that
  was verified. `ActiveBound` needs that only an accepted offer makes a session
  active and that the set of active ones is finite.
* `FileOffersProofs`: `OffersInv` keeps an account per peer, over three sequences of
  times: the calls in the bucket, the offers that arrived, the sessions that began.
  Each session has paid two calls, so as long as it is within the window, twice as
  many calls as there are later sessions lie behind its own in the bucket
  (`BegunIsCharged`); with at most `MaxCalls` of them, `BegunBound` follows for every
  limit, odd ones included. In the other direction two calls that lie one behind
  the other in the bucket have an arrival of this peer of their own
  (`ChargedIsArrived`), hence `LimitedByOwnOffers`. Both survive the two evictions,
  because what is popped is older than the window.
* `RequestsProofs`: the budget `HoldInv` is inductive: while a command runs, the time
  held and the time left are within `MaxTimeout`, with one more `SendTimeout` for
  each post that has begun. `HoldBound` and `TrueMeansDelivered` follow. `ServedInv`
  is about copies: a request that was sent is at most at one place of the queue
  and of what the process has taken, also after the relay has repeated what was not
  confirmed (`MembersAfterRequeue`), so a process serves it once, and its answer has
  at most two copies from each process (`CopiesBound`). The bound on copies and
  the limits of the limiter complete the types.
* `P2PProofs`, cipher: `CipherInv` ties each packet to its cipher (its prefix, and
  a counter below the cipher's) and the set of counters seen to what arrived.
  `NonceUnique` follows because prefixes differ; a counter that was not seen was
  not delivered, hence `AtMostOnce`; `RefusedOnlyIfUsed` is an invariant together with
  it; and every step is one of `OnceDelivery` or a stutter. The one assumption
  about randomness is the guard of `Make`: 8 random bytes do not repeat.
* `P2PProofs`, hole punching: `PunchInv` is inductive. Its part `NetInv` keeps account of all
  datagrams: a ping left the machine of its attempt for the peer (whom its NAT then
  lets in) or for somebody at the local address; a pong comes from a machine that
  has answered and let the asker in. `SuccessIsAnswered` follows without a word about
  the order or the number of deliveries; `ReaderIsLive` is inductive by itself, because an
  attempt that ends removes the reader if it is its own, also on a socket that was closed
  under it.
* `ServiceProofs`: `ServiceInv` is inductive. Key files are written before
  `config.json`, `config.json` before the keyring (`KeysAreNewer`, `PasswordIsOlder`).
  A daemon reads in the opposite order, and what is on disk only gets newer, so
  the runs it reads from are ordered: password, id, keys. A key opens with its own
  password only; if every run has a password of its own, the last run in this
  order is the first (`IdentitiesAreWhole`). With one password for two runs this
  fails: a second run that dies between the two keys leaves a daemon that starts
  with the id of the first run, the signing key of the second and the other key
  of the first. `CompleteSetupsLoad` needs no condition for keys, configuration and
  keyring. For `devices.json` it has one, `crossed`: as long as no save of a daemon was
  under way when the run wrote `signing.pub` or during its own save, every daemon's save since
  then has the tag of this run or has ended before, so the file that setup opens, writes
  and renames is its own (`SoundSaves`, `SavesGoOn`, `DaemonSavesKeep`). Without the condition it
  does not hold of the code (see above).

Types are proved for every component; the runs `inbound`, `poll_loop`, `registry`,
`requests`, `cipher` and `service` do not check them once more. The inductive invariants were
model-checked on the instances of the runs before they were proved; `IInv` is
still checked by `inbound`.

The proof of `StoreInv` showed that an earlier form of `Purpose`, a `CASE` over the
command and the migration, had two guards true at once for a migration by
`reconfigure-telegram` or `homectl pair`, which TLC resolves by order and the
logic does not; it is an `IF` now, and the runs are the same.

Only model-checked: all liveness (`EventuallyHandled`, `WaitEnds`,
`EveryRequestEnds`, `PunchSucceeds`, `Recovers`), which is out of the proof system's
reach, as `ENABLED` is.

## What is not modelled

* P2P sessions: nothing calls `connect_to_peer`, and it raises behind a punch that
  succeeds, so `_sessions` is empty in every process. `send`, `_heartbeat_loop` and the
  expiry of sessions have nothing to act on. `Requests` relies on that.
* The bytes of STUN requests and answers: without state.
* Cryptography: a signature is good iff the bytes it stands for were signed. The transport
  signs messages and does not encrypt them; confidentiality is no subject here.
* The remote client: its transport is made without a signing key
  (`cli/client.py:120`), so `send` raises before anything is posted and before its
  poll loop has run. Senders of requests and offers are peers as the protocol
  describes them. `get_request`, which it would send to fetch a file, has no
  handler in the daemon.
* Prompts, tables, logs, package installation: I/O. systemd and the keyring are
  external and modelled by what the code asks of them.
* `RateLimiter.remaining`, `DeviceManager.add_peer`, `ConfigManager.validate_config`,
  `CommandExecutor.get_history`: called by nothing that changes state.

## Plan

1. (done) Receive path, poll loop, registry, files, configuration, requests; then
   session cipher, hole punching, setup and the process of the daemon.
2. (done) Theorems for every invariant and action property of the runs;
   `CommittedLog` and its implementation by `PollLoop`.
3. When a version of homelink calls `connect_to_peer` and lets it return: a module
   `P2PSessions` (heartbeat, expiry, the choice between two transports in `send`) over
   `HolePunch` and `SessionCipher`, and a receive path that `Inbound` and sessions feed
   together, for `OnceDelivery` to be asked of both.
