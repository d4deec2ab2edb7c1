# necron-prism in TLA+

A verification development for necron-prism, a Minecraft reverse proxy in Rust: TLA+ modules
translated from its source, TLC configurations that check them on small instances, and theorems
that TLAPS proves for every value of the constants. Paths below are relative to `src/`; `prism/`
stands for `src/crates/prism/src/`, and `bin/` for `src/src/`.

To run: `tlc -workers 2 -config <run>.cfg <module>` for a run of the table below,
`tlapm` on each of the eight `..._proofs.tla` for the proofs.

## 1. The system

A client connects, sends a handshake, and asks either for the server's status or to log in. A
login is put to an HTTP API, which names an upstream server and a connection id; the proxy connects
to the upstream, replays the handshake, and relays bytes until both sides are done. Meanwhile a
background loop reports the traffic of each connection to the API, and a closed event follows each
of them.

| part | source | state it keeps | operations |
|---|---|---|---|
| connection registry | `prism/players`, `prism/session` | lock-free map id → session value; atomic `online_count` | `register`, `update_handshake`, `update_login`, `update_outbound`, `set_state`, `remove_connection` |
| connection lifecycle | `prism/inbound`, `prism/transport`, `prism/stats` | a task per connection; its session (kind, id, byte counters); settled totals | accept, handle, route, connect, relay, finalize |
| client stream and packet codec | `src/crates/prism-minecraft/src`, `prism/transport` | what was read of the socket and not yet consumed; the packets | read, decode, rewrite, hand over to the relay |
| sockets and network options | `prism/network`, `prism/outbound`, `prism/inbound` | a socket and the options set on it so far | resolve, set an option, bind, connect, time out |
| hooks and join API | `bin/proxy/hooks.rs`, `bin/proxy/api` | none of its own | `on_login`, `on_connection_established`, `on_connection_finished` |
| traffic reporting | `bin/proxy/traffic` | map id → record (session, marks of what was sent, closer); permits for closed events; cancel token | `register`, `finish`, `shutdown`, the reporting loop |
| async and io_uring relay | `prism/relay/mod.rs`, `linux.rs` | the worker's queue; two copy loops with a buffer each | choose, submit, fall back, read, write, end, join |
| splice relay | `prism/relay/linux.rs`, `mod.rs` | two threads, a pipe and a retry count each | fill, drain, retry, fall back to `io::copy`, join |
| MOTD | `bin/motd` | the exchange's position; perhaps a session with an upstream | serve, open upstream, build, finish, the legacy ping |
| process, reload and shutdown | `bin/proxy/mod.rs`, `bin/config`, `prism/context` | `config.toml` and `.reload` outside; the configuration behind an `ArcSwap`; the last seen time of `.reload`; the runtime's blocking threads | start, load, replace, stop, drain |
| templates, benchmark, schema, scripts | the rest | none that lasts | formatting, measuring |

How they interact: the lifecycle calls the registry and the totals directly, the hooks by a trait,
and the hooks call the reporter. The relays share the session's atomic byte counters with the
reporting loop; the MOTD and the join request read `online_count`. Connections take the
configuration from a context in which the main task replaces it. Everything but the splice relays,
which have blocking threads of the runtime, and the io_uring relays, which have a worker thread,
runs as tasks of one multi-threaded tokio runtime.

What is hard here, and what makes each part correct:

- **Registry.** No lock covers map and counter. `update` reads an entry and writes back a clone;
  the counter is corrected afterwards by what was read before. Correct: no entry without a
  connection that will remove it, and a counter that is never off.
- **Lifecycle.** A login is registered before its upstream is connected, and any await may fail,
  time out, or be the last one of the process. Correct: whatever happens, finalization leaves no
  entry, counts each byte once into the totals, and sends one closed event with the final figures.
- **Traffic reporting.** Snapshots are read, awaited on, and stored later, while relays count and
  connections end; requests fail, time out, or arrive late. Correct: what is marked as sent has
  reached the API, the API is never told of more than was relayed, and all of it is told in the end.
- **Relays.** Half-closes, resets, partial writes, blocked sockets and a change of method in
  mid-stream. Correct: two reliable byte streams, counts that follow delivery, and an end.
- **MOTD.** Two peers and packets told apart only by position. Correct: one status, then at most
  one pong, and no answer taken for another.
- **Client stream.** Packets arrive in any chunks, with early bytes behind them, from clients of
  many versions; one byte is read before all others. Correct: the packets and the profile id are
  those that were sent, and the upstream sees the client's bytes in order and without a gap.
- **Sockets.** Any option, address or system call may fail, and a host may be silent. Correct: in a
  build with `linux-accel`, no listener and no connection of a player without the configured
  interface and mark; addresses in their order, and an end.
- **Process.** An operator changes and touches files in the middle of a reload; connections
  outlive the configuration they began with; relays on blocking threads outlive the signal.
  Correct: only configurations that passed every check are in force, and a request to reload is
  served, for the part of the configuration that can be reloaded, or refused.

`PROJECT.json` lists every hazard with its line and the properties that would catch it.

## 2. The modules

| module | models | state and actions |
|---|---|---|
| `OnlineCount` | abstract: what readers of the counter may rely on | a set of players, `Arrive` and `Leave` one at a time, the counter always its size |
| `Registry` | `players/mod.rs` | `sessions` is the map, `onlineCount` the atomic, `pc`, `was`, `goal`, `copy` the locals of the running calls. An action is one access to shared memory: `Register`, `ReadState` (the `is_some_and` before an update), `CloneSession` and `InsertClone` (the two halves of the private `update`), `AdjustCount`, `RemoveEntry`, `DecrementCount` |
| `Transport` | `inbound`, `transport`, `hooks.rs`, `stats` | `stage` is the await a task is suspended at or its next access to shared state; an action is what happens from there to the next such point. It uses `Registry`'s actions by `INSTANCE` (`R!Register`, ...), so that the registry's steps interleave with everything else. `active` is the reporter's map as the lifecycle sees it, `closed` the closed events, `settled` the totals; `recorded` is a history variable, the connections that ever had a record |
| `TrafficReporter` | `traffic/reporter.rs`, `traffic/background.rs` | the records (`phase`, `lastSent`, `closers`), the tasks of the closed events (`task`), the loop (`loop`, `todo`, `snapshot`, `request`), the end of `run()` (`cancelled` by `Drop`) and of the runtime with its tasks (`dropped`), and, external, the API as a ledger behind a network that loses, delays and reorders |
| `ByteStream` | abstract: one direction of a relay | bytes are numbered; what is delivered is a prefix of what was written, and the end follows the last byte |
| `Sockets` | external: the two sockets and the peers behind them | write, close, reset; what a relay finds when it reads or writes |
| `CopyRelay` | `relay_bidirectional`, `standard_copy_relay` (`tryJoin`), the io_uring worker and `run_io_uring_relay` (`~tryJoin`) | `ioUring` is the setting; a relay is started, submitted to the worker's queue and picked up, or falls back to the async one. Then per direction a loop that reads, writes one byte or more until the buffer is empty, counts, and passes the end on; `JoinOk` and `JoinError` are the two ways of joining |
| `SpliceRelay` | `relay_with_splice` and `relay_with_copy` | per direction `fill`, `drain` or `copy`; `Again` is `splice_retry`'s count of tries; the sockets' blocking mode is shared by the directions, as it is in the code |
| `Motd` | `bin/motd/service.rs`, `context.rs`, `upstream.rs`, `legacy.rs` | `exchange` is the packet `serve` (or `serve_legacy_ping`) reads or writes next; `owed` and `fromUpstream` are the upstream's side of the wire; all settings are initial states |
| `ClientStream` | `prism-minecraft/src/packet_io.rs`, `protocol.rs`, `prism/transport/handle.rs`, `proxy.rs` | the client's bytes as positions in its stream: `sent` have arrived, `taken` are read, `decoder` is what `PacketDecoder` holds. `Read` takes any chunk; `Handshake` and `LoginStart` take a frame; `Relay` goes on with the socket. Bytes have values where the code looks at them: length prefixes and what follows the name |
| `SocketSetup` | `prism/outbound`, `prism/inbound`, `prism/network` | `todo` are the options still to be set, `applied` those that are; `used` records every bind and connect with the options at that moment; `hosts` says what stands behind the addresses, and is chosen freely; `accel` is the build, and `Supported` what it sets of the options that are `wanted` |
| `Service` | `bin/proxy/mod.rs`, `bin/config/loader.rs`, `prism/context`, the spawn of a splice relay | `pc` is the main task's next access to a file or to shared state; `file`, `stamp` are `config.toml` and `.reload`; `running` is `config.prism`, `filter` the content of the log filter and `atStart` that of everything a reload leaves as it is; `taken` is the configuration a connection goes on with; `fresh` is a history variable for the liveness property |
| `Registry_proofs`, `Transport_proofs`, `TrafficReporter_proofs`, `CopyRelay_proofs`, `SpliceRelay_proofs`, `ClientStream_proofs`, `SocketSetup_proofs`, `Service_proofs` | the theorems about the modules they are named for; `ClientStream_proofs` also has those about `Motd` | see section 5 |

Each `MC...` module extends one of the models and adds the symmetry of its model values, where a run
uses it. Operators under a comment `Faulty:` are not part of any specification: each is a mistake
that could be made in the definition it precedes (a dropped guard, a wrong order), kept with the
model so that every property can be seen to fail when the mistake is made. `PROJECT.json` pairs
them with properties.

Conventions: the packets, names and payloads of the program are reduced to what its branches and
the properties tell apart. Logging, metrics labels and the wording of messages are left out.
What happens between two accesses to shared state or two awaits is one step.

## 3. The runs

| run | instance | checks |
|---|---|---|
| `MCRegistry` | 3 connections, 3 ids, each its own | `RegistryTypeOK`; `SessionsHaveHolders`: no entry is left behind; `EntriesUndisturbed`: what a call has read is still true when it uses it; `OnlineCountExact`; and that it implements `OnlineCount` |
| `MCTransport` | 2 connections, 2 ids the API may grant twice, 1 byte each | `SettledExactly`: totals are the sum of the finished sessions at every instant; `ClosedOnceWithFinalTraffic`: no connection that had a record ends without its event, relayed bytes or not; `OnlineTracksProxying`; `NothingLeftBehind`, also under a shared id; `ConnectionsEnd`: awaits under a timeout and finalizations end |
| `MCTrafficReporter` | 2 ids, 2 bytes, 1 permit, 1 late request | `SentReachedApi`, `ReportedWasRelayed`, `ClosedIsFinal`, `MarksNeverGoBack` |
| `MCTrafficReporterLive` | 2 ids, 1 byte, 1 permit | `EveryFinishIsSent`: permits are given back, and every event is attempted unless the runtime is dropped before; `TrafficIsReported`, given an API that answers now and then |
| `MCCopyRelay` | 3 bytes each way, both settings | implements `ByteStream` in both directions, whichever relay was come to and by whichever way; `CountsFollowDelivery`; `RelayProgresses`: bytes and half-closes arrive while the other direction is open and silent, and the relay ends |
| `MCSpliceRelay` | 2 bytes each way, 2 tries | `BytesAreAccountedFor`: each byte is in one place, order is kept, counts never run ahead; `RelayEnds` |
| `MCMotd` | a client that sends 2 packets, all settings, and the legacy ping | `OneAnswerEach`, `ExchangeEnds` |
| `MCClientStream` | logins of 6 formats and 4 handshake lengths, status, magic and unknown intents | `PacketsAsSent`: packets, profile id and what is left of the decoder, in every chunking; `UpstreamSeesTheClient`; `LoginsAreServed` |
| `MCSocketSetup` | up to 2 addresses, 5 options asked for or not | `PolicyHolds`: interface and mark, with `linux-accel`; `TriedInOrder`; `SetupEnds` |
| `MCService` | 2 connections, 1 blocking thread, 2 changes of the file, 2 times of `.reload`, 5 kinds of content | `RunningConfigIsChecked`; `OperatorIsServed`: the prism section and log level of a touched file that can be used come into force, a signal ends the process once no splice relay runs |

Every safety run checks its module's type invariant too.

Deadlock is checked where the system goes on for ever (`Registry`, `TrafficReporter`, whose API
and tokens can always do something). The other runs say `CHECK_DEADLOCK FALSE`, because
connections, relays and exchanges end and bounded peers run out of things to do; that they do not
end too early, or hang, is what their liveness properties say.

Two runs find the code in disagreement with what it says of itself:

- `MCSpliceLoss` (`ImplementsByteStreams`). When the destination of a splice would block eight
  times, `splice_copy` turns to `relay_with_copy_fallback` and leaves what is in the pipe behind
  (`linux.rs:282-293`). The trace: a byte goes into the pipe, the destination blocks until the
  limit, the copy reads the end of the stream and passes it on; the byte is lost, without an
  error. The log line announces that the flow falls back to a standard copy.
  `BytesAreAccountedFor` still holds: nothing is duplicated or reordered, and what is lost is
  still in the pipe.
- `MCMotdPong` (`PongIsNext`). With a local MOTD and `ping_mode = passthrough`, the upstream is
  sent a status request whose answer is not read; `ping()` then takes it for the pong, which
  fails (`upstream.rs:88-91`). The mode never works, unless the favicon is passed through
  too, which makes `connect` read the status.

### Bounds, and why they are enough

- *Connections and ids.* Interference in the registry is between two calls on one id, or between
  a call and the counter; a third connection is there to meddle with both. The theorems of
  section 5 hold for any number. `Transport` has two: its tasks meet only in the registry, the
  reporter's map and sums.
- *`MaxBytes`.* Two bytes let a chunk be split, be partly in two places, or arrive in part before
  a failure; `MCCopyRelay` has three, for a chunk that is followed by another. In `MCTransport`,
  where bytes only have to be attributed, one does. The counters are 64-bit in the code and do not
  wrap in practice.
- *`MaxClosed = 1`* stands for `CLOSED_REPORT_MAX_CONCURRENT` (16): two finished connections then
  already compete for a permit.
- *`MaxLate = 1`*: one request that was given up on and is still on its way can overtake, and be
  overtaken by, all that follow it. The liveness run has 0: a late request only helps.
- *`RetryLimit = 2`* stands for `WOULD_BLOCK_RETRY_LIMIT` (8): one retry that succeeds or does
  not, and the fallback.
- *`MaxSent = 2`*: request and ping in any order and number; the handler reads no third packet.
  The theorems hold for any number.
- *`Base = 4`, `UuidLen = 2`* stand for 128 and 16. Lengths with one digit and with two occur, as
  do prefixes padded to two; of the handshakes' lengths, one (6) looks like a legacy ping, and
  another (5) is just within `MaxHandshake`, a third beyond it. A UUID whose first byte is 0 or 1
  (a flag, for the code) is among the bare ones. `BufferSize = 4` is shorter than a packet and
  longer than what is left of one, so that a chunk may hold the end of a packet and the start of
  the next. The theorems hold for any lengths, limits, buffer and amount of bytes.
- *`MaxAddrs = 2`*: the step from one address to the next is the only place where they meet.
  The five optional options are the two that must not be left out, one that is tried and ignored
  but may be an error, the one that changes how a connect ends, and one that fails after the
  connect. The theorems hold for any addresses and options.
- *`MaxTime = 2`, `MaxEdits = 2`, `PoolSize = 1`*: a touch before and one during a reload, with
  changes of the file between any of its steps; two relays that want one thread.
  One name per way in which a content is used or refused is enough.

### Fairness, and why the code justifies it

- The runtime schedules a task that can go on, and threads run: weak fairness of a task's own
  steps (`Compute`, `LoopStep`, `ClosedStep`, `Starting`, `RelayStep`, `SpliceStep`, `Serve`,
  `Reading`, `Relay`, `Step`, `Main`).
- A timer that is due fires: weak fairness of `Timeout`, only for the awaits that are under one
  (first byte, handshake, join, connect), of the failure of an HTTP request, which has a timeout
  of its own, and of `SocketSetup`'s `TimedOut`. The waits for the login start, the status request
  and the ping are under none and nothing is claimed of them: a client that stops there keeps its
  task.
- A cancelled token is seen: strong fairness of `LoopCancelled`, since the loop comes back to its
  `select!` again and again, and `select!` polls in random order.
- *No* fairness of the end of the process, but after it nothing is: `Drop` cancels the loop at the
  end of `run()`, and the runtime that is dropped next (`RuntimeDropped`) ends the closed events
  that wait for a permit or an answer. `EveryFinishIsSent` ends with it.
- *No* fairness for peers, hosts and operators: they need not write, close, reset, answer, or
  touch a file; nor for connections of `Service`, none of which need end. Relays are shown to end
  only once both peers have closed or both sockets are reset, and an exchange of `Motd` only when
  an upstream that owes an answer gives it or leaves. A splice that keeps blocking (`DrainAgain`)
  is not fair either.
- `TrafficIsReported` has the API's part as its hypothesis: again and again it takes a batch and
  says so in time.

## 4. What the models say of the code, beyond the properties

- Two live connections with one id from the API share one registry entry; the first to end takes
  it away and the counter may drift. Exactness is claimed for distinct ids only (`ExclusiveIds`,
  `UniqueIds`); that nothing is left behind holds for shared ids too.
- The blocking and io_uring relays join both directions before they look at either result. One end
  that closes or is reset does not end them: the download's end is passed on only after the
  upload has ended.
- `online_count` contains connections whose upstream is not connected yet; the API is told the
  value from before its answer.
- A reload replaces `config.prism` and the log filter (`bin/proxy/mod.rs:117-121`). The API's
  client, the reporter's interval, the entry node's key, the log writers and the listener stay what
  the first configuration made them (lines 40-84), without a word: after a reload, two contents of
  the file are in force.
- A Linux build without `linux-accel`, which is the default of `Cargo.toml`, skips a configured
  interface, mark, congestion control and Fast Open (`prism/network/mod.rs:44-47`, `75-78`);
  `canonicalize.rs:90-116` warns of the relay mode and of MPTCP only. The sockets of MOTD
  (`upstream.rs:28`, `legacy.rs:16`) and of the API's client get no options in any build.
- The closed events that are under way when `run()` ends are dropped with the runtime.
- When one direction of a relay fails, both sockets are dropped, and the peer that is still there
  sees its stream end early. The refinement of `ByteStream` is about ends that a relay passes on.
- A login that was granted and whose upstream never connected has no record, so that no closed
  event is sent for it.
- `io::copy` is counted when it returns (`linux.rs:361`, `relay/mod.rs:271-289`), so that a
  connection on a fallback shows no traffic while it lasts, and none for a direction that fails.
  `BytesAreAccountedFor` allows just this.
- A handshake whose length prefix begins with 0xFE (a packet of 254 bytes, for one) is taken for a
  legacy ping (`handle.rs:53`). `LoginsAreServed` leaves such lengths out.
- What a client sends in one chunk with its login start stays in the decoder and never reaches the
  upstream (`proxy.rs:87`). A client that waits for its answer loses nothing.
- The login start of 1.19.1 has a flag for a signature before the one for the UUID, and its profile
  id is misread (`protocol.rs:67`). `PacketsAsSent` leaves this format out.
- With Fast Open and a cookie of the host, a connect succeeds before anything was sent; a host that
  is not there is then noticed at the first write, when no other address is tried any more.
- One timeout covers the lookup and all addresses: a first address that stays silent uses it up.
- A `.reload` that is touched while the process starts goes unseen: the loop takes what it finds
  at its first poll as seen. A `config.toml` that an editor has emptied when it is read, or moved
  away when it is looked for, means the default configuration, without a word. An `api` key that
  is no table makes the loader panic, which ends a release build also on a reload.
- In favicon mode passthrough with a local text, the upstream is contacted but its favicon is not
  used, because `render_local_json` answers first (`service.rs:98-127`, `context.rs:83`).

## 5. What is proved

`Registry_proofs`, for every finite set of connections and every set of ids and states:

| theorem | from | says |
|---|---|---|
| `TypeCorrect` | | `RegistryTypeOK` is an invariant |
| `NoOrphanSession` | | `SessionsHaveHolders`, also under shared ids |
| `CallsAreUndisturbed` | exclusive ids | `EntriesUndisturbed` |
| `CountIsExact` | exclusive ids | `OnlineCountExact`: the lock-free counter is never off |
| `CountFollowsMap` | exclusive ids | `CountMatchesMap` |
| `RegistryImplementsOnlineCount` | exclusive ids | every step is an arrival, a departure, or invisible |

The assumption `RegistryAssumption` says that connections are finitely many, that the two states
the code tells apart exist and that the model values differ from real ones.

The argument has two layers. `HolderInv` (type, `CallsWellFormed`, `SessionsHaveHolders`) is
inductive without anything on ids: the only way to leave an entry behind would be `InsertClone`
after a removal, and `CallsWellFormed` says that a caller in the middle of an update still holds
its id. `RegistryInv` adds `EntriesUndisturbed` and `OnlineCountExact`, inductive if ids are
exclusive. `OnlineCountExact` alone is not inductive: `AdjustCount` corrects the counter by `was`,
a local read three steps earlier, and only `EntriesUndisturbed` (`was` is still what the entry
says; the clone is still equal to the entry; nobody else holds the id) makes that correction the
right one. The step of the cardinality is one lemma on sets that gain or lose one element. The
refinement follows from the exactness: a step that changes `OnlineCallers` changes it by the
caller itself.

`TrafficReporter_proofs`, for any ids, directions and bounds, from `ReporterAssumption` (bounds are
numbers, `Absent` is no traffic value):

| theorem | says |
|---|---|
| `TypeCorrect` | `TypeOK` is an invariant |
| `MarksReachedApi` | `SentReachedApi`: a batch that failed or was given up on is never marked |
| `NothingInvented` | `ReportedWasRelayed`: the API is never told of more than was relayed, however late |
| `ClosedEventIsFinal` | `ClosedIsFinal`: closed events carry the final counts, also against batches that overtake them |
| `MarksGrow` | `MarksNeverGoBack` |

None of these is inductive. `ReporterInv` says what the loop carries over its awaits: the snapshot
lies between the marks and the counters (`SnapshotBetween`), the request is part of the snapshot
(`RequestOfSnapshot`, needed even for the types), what is applied was told (`AppliedWasTold`),
late batches were relayed (`LateWasRelayed`), and a closed event belongs to a connection
that counts no more (`ClosedAfterFinish`). The lemmas `BytesGrow` and `PeakStep` state what may
move; each part of the invariant then has a lemma with one step per group of actions.

`Service_proofs`, from `ServiceAssumption` (finitely many connections, the default can be used,
what can be used is not also refused, bounds are numbers):

| theorem | says |
|---|---|
| `ConfigIsAlwaysChecked` | `RunningConfigIsChecked`, for any contents of the file, any changes to it and any connections: of each of the three parts of the configuration in force, which content it may be of |
| `ServiceTypeCorrect` | `TypeOK`; for every size of the pool, no more splice relays are at work than it has threads |

`RunningConfigIsChecked` speaks of what is in force; the inductive invariant has to follow a
configuration on its way there. `LoadedInv` says that what `Read` has left for the next two steps
is checked, and that the filter is already set when it is about to come into force; `RunningInv`
that the main task waits only with a configuration in force (otherwise a failed load would end in
a process that serves without one); `ConnInv` that a connection which queues for a blocking thread
took a configuration that splices, long before it is at work. `BootInv` has the part that no reload
replaces: there is none before the first configuration is in force, nor any connection, and then it
is of a content that passed the checks. For the pool, `StartBlocking` is one
more member of a set that is smaller than the bound, and no other step adds to it.

`SocketSetup_proofs`, from `SetupAssumption` (options that may be asked for are options):

| theorem | says |
|---|---|
| `PolicyAlwaysHolds` | `PolicyHolds`: with `linux-accel`, for any number of addresses, any options asked for and any failures |
| `AlwaysTriedInOrder` | `TriedInOrder`, for any number of addresses and any hosts |
| `TypeCorrect` | `TypeOK`, in which a socket is used for one address and no option is set that was not asked for |

`PolicyInv` says that, in a build with the feature, before a bind or connect each of the two
mandatory options is set or still in `todo`; it rests on lemmas about the names in a list and its tail, and on both being in the
lists a stage begins with. `OrderInv` adds to `TriedInOrder` that all addresses below the current
one were tried or given up, and that the current one is so only from its connect on. `OnceInv`
says that what is still to be set was not set before and is in the list once: without it the types
of what is `used` do not follow.

`Transport_proofs`, from `TransportAssumption` and from `RegistryAssumption` for the connections,
for any finite set of connections, any ids and any number of bytes:

| theorem | says |
|---|---|
| `TypeCorrect` | `TypeOK` |
| `FinalizationIsComplete` | `NothingLeftBehind`, also for ids that are granted twice |
| `TotalsAreExact` | `SettledExactly`, at every instant |
| `ClosedEventsAreFinal` | `ClosedOnceWithFinalTraffic`: every connection that had a record, also one that relayed nothing |
| `OnlineCountIsTheProxied` | `OnlineTracksProxying` |

The registry's theorems are not proved again but used: `Registry_proofs` is taken as an instance,
once for any ids (`Any`) and once for exclusive ones (`Exclusive`), and `RegistryUse` shows that
each step of a handler is one that its lemmas are about. That needs to know where a handler's call
of the registry is: `ConnInv` relates `stage` to `connId`, `held` and `rpc` (`CallAt`), and says
that a report is of the final counts from the relay's end on. `ActiveInv` says that a record of
the reporter belongs to a connection that has still to finish; with it and the registry's
`HolderInv`, nothing is left behind. `RecordedInv` says that a connection that ever had a record
still has it, or a connection of its id has sent the closed event, whether bytes were relayed or
not; `ClosedEventsAreFinal` follows from it and from `ConnInv`. `TransportInv`, the conjunction, needs
nothing of ids. What is claimed for distinct ids is `DistinctInv`: while no id was granted twice, the registry's exclusive
invariants hold (ids that are distinct now were distinct before, since a granted id stays), and
the stage of each connection says whether it is in the count. `SettledExactly` is about sums over
all connections; the totals are kept as the number of pairs of a connection and one of its settled bytes, and each
settlement adds the bytes of one connection that had none there.

`CopyRelay_proofs`, for any number of bytes in any chunks:

| theorem | says |
|---|---|
| `TypeCorrect` | `TypeOK` |
| `CountsAreOfDelivered` | `CountsFollowDelivery` |
| `RelayImplementsByteStreams` | each direction implements `ByteStream`, for both settings and both ways of joining |

`LoopAt` describes a direction by two numbers: the destination has the first `o` bytes, the loop
holds the `b` after them, and both together are what was taken and what was counted, but for the
chunk at hand. Of `ByteStream`'s invariants none is assumed: a step of the loop maps to a delivery,
an end or a stutter, because what is delivered next is then the byte after the last one.

`SpliceRelay_proofs`, for any number of bytes and of retries:

| theorem | says |
|---|---|
| `TypeCorrect` | `TypeOK` |
| `BytesAccounted` | `BytesAreAccountedFor`, through all retries and fallbacks |
| `LosslessUnlessAbandoned` | the relay implements `ByteStream` in both directions if it never turns to copying with bytes in a pipe |

`PathAt` describes a direction by four numbers: `k` bytes spliced to the destination, `p` in the
pipe, `m` copied and `b` in the copy's buffer; the destination has the first `k` and, after a gap
of `p`, the `m`. The gap is what `MCSpliceLoss` finds. That run shows that the refinement fails in
general; `LosslessUnlessAbandoned` has as its hypothesis that a direction that copies has an empty
pipe (`NothingAbandoned`), which every relay satisfies that never gives up a drain. So the bytes
left in the pipe by the give-up at `linux.rs:282-293` are all that a splice relay can lose.

`ClientStream_proofs`, from `StreamAssumption`: a base above 2, UUIDs of more than one byte (with
one byte a bare UUID could not be told from a flag; the code has 128 and 16), handshakes whose
lengths have one or two digits, and numbers for the limits; for clients of every format, streams of
any length, and any chunks:

| theorem | says |
|---|---|
| `TypeCorrect` | `TypeOK`, in which no byte is held or relayed that was not read, and no third packet is taken |
| `PacketsAreAsSent` | `PacketsAsSent` |
| `UpstreamIsSentTheStream` | `UpstreamSeesTheClient` |

`StreamInv` says by the stage where the decoder begins: at the start of the stream, behind the
handshake, behind the login start, and always that it holds all that was read from there on
(`Holds`), but in the relay, where what it held then stays behind and the relayed bytes follow it
(`PassedOn`). `WaitInv` is what makes the last part of `UpstreamSeesTheClient` inductive: from a
client that waits, nothing behind its login start has arrived before the relay. The lemma the rest
turns on is `FrameAt`: if the bytes at the head of the decoder are a length prefix of `n`, padded
or not, then the frame that is taken is the `n` bytes behind the prefix and what is left follows
them. It is applied where `StreamParts` says that the client put its prefixes. `ProfileIsSent`
goes through the formats, for every UUID.

The same module, which extends both models, has the theorems about `Motd`, from
`MotdAssumption`: the bound is positive, for a legacy ping is a packet. They hold for every setting
and any number of packets:

| theorem | says |
|---|---|
| `MotdTypeCorrect` | `MotdTypeOK` |
| `EachIsAnsweredOnce` | `OneAnswerEach` |

`SessionInv` says for each stage what is due from the upstream: nothing (`Idle`), a status, a pong,
or a status and a pong behind it, wherever on the wire they are; lemmas say what asking, answering
and reading make of each. The last of the four is the case of `MCMotdPong`: then what is read as
the pong is the status, so that the exchange can only fail. `ToldInv` says what the client
was told by then.

With these, every safety property of a passing run is a theorem, and so are the refinements of
`OnlineCount` by `Registry` and of `ByteStream` by `CopyRelay`. That `Transport` uses the registry as
`Registry` has it holds by the way it is written, with `Registry`'s own actions, and is no result. Each inductive
invariant was checked with TLC on the instance of its run before it was proved.

Only model-checked: all liveness, which the prover does not reach. TLC also has the two runs that
expect a violation.

## 6. What is not modelled

- Templates, the schema, the benchmark, the scripts: sequential functions without state, and code
  that is not in the proxy.
- The single settings of the configuration, their defaults and the checks on them: `Service` has
  contents that pass all checks, and contents that fail at one of the steps of loading.
- Encoding and decoding of packets other than their frames and the login start, and compression:
  mostly a library's; the models use the outcomes (a packet of the expected kind, or an error).
- What options are set to; a call succeeds or fails.
- The text of the status, its rewriting and the favicon; where they come from is modelled.
- The API's mock, but for the ids it gives; the UUID of a player in offline mode.
- A worker of io_uring that drops the response of a job it has begun: it needs a panic in the
  worker, which aborts a release build.
- Relay buffers of no bytes, which `validate_config` lets pass: a read into one returns 0, and the
  relay would end at once.

## 7. Plan

Done, in this order: `OnlineCount`, `Registry` and its proofs, `Transport`, `TrafficReporter` and
its proofs, `ByteStream`, `Sockets`, `CopyRelay`, `SpliceRelay`, `Motd`, `ClientStream`,
`SocketSetup` and its proofs, `Service` and its proofs; then the proofs of `Transport`, `CopyRelay`,
`SpliceRelay`, `ClientStream` and `Motd`.

Next theorems:

1. Action properties that follow from the invariants: settled totals and counters never go back, a
   closed event is never taken back or changed.
2. An abstract specification of the totals or of the closed events, and `Transport` shown to
   implement it.
3. `ByteStream`'s own invariants (order, no loss before the end), which the refinement of
   `CopyRelay` then carries over.
