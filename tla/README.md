# Verification of go-ecoflow-exporter

TLA+ models of the exporter's concurrent core, TLC configurations that check
them on small instances, and TLAPS proofs of what matters most. Paths and line
numbers refer to the repository (`src/...`); without a path they are lines of
`src/mqtt_exporter.go`.

## The system

One process reads the parameters of EcoFlow power stations and exposes them to
Prometheus. `main.go` builds one of two exporters (MQTT or REST), a metric
store, an HTTP server and a watchdog.

| Component | State it keeps | Operations | What makes it correct |
|---|---|---|---|
| Device status record (58-63) | `lastReceived`, `offlineSent`, `reconnectDelay`, `nextReconnect`, `fruitlessReconnects`, under `statusMu` | `markReceived`, `initDeviceStatuses`, `offlineDevices`, `offlineUpdatesDue`, `reconnectDue`, `reloginDue` | a returning device is recognised; reconnects without data are spaced exponentially |
| Monitor (391-426) | its local list `offline` | a tick: verdict, offline updates, forced reconnect or relogin request | verdicts are about silent devices; silence is reported; backoff is kept |
| Session (137-213, 488-511) | `m.client`, the `relogin` channel (capacity 1) | `Run`, `runSession`, `requestRelogin`, `forceReconnect` | a connection is always re-established; no client and no request outlives its session; cancelling ends every wait |
| MQTT callbacks (364-389) | the `mqtt_connected` gauge, subscriptions | `OnConnect`, `OnConnectionLost`, `MessageHandler` | every connection has its subscriptions; the gauge tells the truth |
| Message pipeline (255-362) | `deviceState` under `stateMu` | decode, merge, clone, dispatch | what is exposed is the latest state |
| `PrometheusExporter` (`prometheus.go`) | `metrics` under `mu` | `Handle`, `Collect` | scrapes see whole updates; an offline device has only `online` |
| Process (`main.go`) | contexts, the health check of the server, the watchdog's `failingSince` | start-up, signal, watchdog, `/healthz`, end of `Run` | an exporter that cannot recover ends the process, and only that one; every end has its reason |
| `RestMetricsExporter` (`rest_exporter.go`) | `started`, `lastSuccess` | `scrape`, `fetchDevice`, `Health` | partial failures do not spoil the rest; `Health` is about the API |
| Login (118-135, 550-611, `retry.go`) | `userId` under `userMu`, `m.client`, the delay | `login`, `getUserId`, `retryWithBackoff` | attempts are spaced and never end; what is published is of one login or a later one |
| Ping routine (613-771) | tick count | keepalive, state refresh | every device is asked for its state in time and for ever |
| Decoder (`internal/protobuf`) | `unknownCommands` under `mu` | `DetectFormat`, `DecodeProtobufMessage` | what is decoded is what the device said; an error means that nothing was |
| Metric names and values (`metric.go`) | samples per update | `generateMetricName`, `toFloat`, `Samples` | valid names that keep the words; collisions are explained |
| Configuration (`config.go`) | none | `LoadConfig` | settings are the ones that were asked for |
| Telemetry (`telemetry.go`) | gauges and counters about the exporter | one setter each | they tell what happened |

How they interact:

* `Run` starts the monitor and ping goroutines and then runs sessions one after
  another: log in, store a new client in `m.client`, `Connect`, wait for a
  relogin request. When a session ends its client is disconnected.
* paho calls `OnConnect`, `OnConnectionLost` and `MessageHandler` in goroutines
  of its own. They share the status record, the state cache and the gauge with
  the monitor.
* The monitor holds `statusMu` only inside one operation. Between the verdict
  (`offlineDevices`), the record of the updates (`offlineUpdatesDue`), each
  dispatched update, `reconnectDue`, `reloginDue` and the action, everything
  else may happen.
* `forceReconnect` works on the client that is current when it starts, for up
  to 35 seconds, behind the back of `Run`.
* Updates reach the metric store from the callbacks and from the monitor;
  scrapes read it at any time.
* The ping routine loads the client and the user id that a login replaces.
* The watchdog and `/healthz` call `Health`; the server listens before it has a
  health check to call.

The hard behaviours are therefore stale copies (the monitor's list, the client
it captured, the cloned state), callbacks in an order nobody wrote, a client
that is still disconnecting when it is told to connect, requests that outlive
what they were about, cancellation at every wait, timers that run while the
work they started goes on, and in the sequential parts several inputs that meet
in one result: headers of one message, parameters of one name, sources of one
setting. `PROJECT.json` lists them
as hazards, each at its line with the properties that would catch it.

## Modules

```
DeviceStatus          the record under statusMu, any caller in any order
  OfflineMonitor      + monitor, MessageHandler, time        (EXTENDS)
MqttSession           Run, forceReconnect, paho clients
  SessionCallbacks    + OnConnect, OnConnectionLost, gauge   (EXTENDS)
MetricStore           what PrometheusExporter promises (atomic)
  PrometheusExporter  Handle and Collect step by step        (INSTANCE, refines)
  MessagePipeline     deviceState in front of the store      (EXTENDS)
  RestExporter        polling in front of the store          (EXTENDS)
MetricNames           names and values
  ProtobufDecoder     schema, headers, formats               (EXTENDS)
    MessageDecoding   from a message to the samples          (EXTENDS)
Login                 retryWithBackoff, login
  PingRoutine         + ticks, rounds and requests           (EXTENDS)
Watchdog              the process while its exporter runs
Configuration         LoadConfig
  Process             from the environment to the exit       (EXTENDS both)
MC*                   instances for TLC

Theorems                   about
OfflineMonitorProofs       DeviceStatus, OfflineMonitor
SessionProofs              MqttSession, SessionCallbacks
PrometheusExporterProofs   PrometheusExporter and its refinement of MetricStore
MessagePipelineProofs      MessagePipeline
RestProofs                 RestExporter
MessageDecodingProofs      MessageDecoding
PingProofs                 Login, PingRoutine
ProcessProofs              Process, Watchdog, Configuration
```

Definitions whose comment begins with *Mutant* are not part of the models. Each
is a plausible bug of the definition that follows it, and shows that a property
depends on the code it is about.

### DeviceStatus

The variables are the fields under `statusMu`, one action per function. Each
function holds the mutex from its first read to its last write, hence one atomic
step. Instants are kept relative to the present: `lastReceived[d]` and
`offlineSent[d]` are ages up to `Threshold + 1` (no comparison tells older ones
apart), `nextReconnect` is the time left. `Tick` ages them. `StatusSpec` lets
anyone call anything at any time; it is the abstract specification that
`OfflineMonitor` implements. `sinceAttempt` is history.

### OfflineMonitor

Adds the monitor's control point `mon`, its locals `offline` and `due`, the
callbacks (`Receive` is `MessageHandler` up to and including `markReceived`,
`HandleUpdate` and `DropMessage` its two ends), what the handlers were told last
(`online`), and the session reduced to `link`: `down`, `pending` (connecting;
`connected()` is already true), `up`. One unit of time is one tick of the
monitor. `spoke`, `excused`, `reconnects`, `sinceReconnect` and `spacing` are
history: they record which races happened and what was promised, so that the
properties can say that nothing else can make a device look wrong or a reconnect
come early. One handler per device runs at a time; handlers of two clients that
overlap are `MessagePipeline`'s.

### MqttSession

`status` gives the state of every client object, `run` and `mon` are control
points, `token` is the outcome of `Run`'s `Connect`, `captured` the local `c` of
`forceReconnect`. The paho client is external and modelled as the exporter
relies on it: `Connect` and lost connections are retried until they succeed;
`Disconnect` ends that, but a client that sleeps between attempts notices it
only afterwards, is "disconnecting" until then, and refuses `Connect`. It need
not notice within the 5 s of `forceReconnect`: the sleep grows to minutes.
Client objects are reused once nothing refers to them. `revived`, `refused` and
`mistaken` are history: what the properties need to know of earlier steps.

Two assumptions about time replace clocks. `Run` takes its own ready steps
within the 5 s of the pause (`RunSettled`), and takes a relogin request before
the monitor decides again, at least a backoff later (`RequestTaken`). The
devices are reduced to "every device is silent" (`silent`) and the backoff to
"may be due"; `OfflineMonitor` has both in full.

### SessionCallbacks

Adds the callbacks that were started and have not run, the rest of the loop of
each `OnConnect`, the subscriptions of each connection, and the gauge with every
write that `Run`, `forceReconnect` and the callbacks make. It implements
`MqttSession` (`CallbacksImplementSession`, proved).

### MetricStore, PrometheusExporter, MessagePipeline

`MetricStore` is the promise of the comment at `prometheus.go:35-38`: a store
that changes by whole updates and is read at once. `PrometheusExporter` changes
one map entry at a time under `p.mu` and reads one at a time under the read
lock; `ImplementsStore` is the refinement, an update taking effect with its last
write (`online`). `MessagePipeline` puts the state cache in front of the store,
with callback routines of any client. Values are the numbers of the messages
that brought them, so that old and new can be told apart.

### RestExporter

`run` is the control point of `Run` and `scrape`, `fetch` that of the goroutine
of each device, `updates` the slice they fill. `Running` are the holders of a
slot of `sem`. Time is discrete: it passes only while every goroutine waits
(`Due`), and no request outlasts its timeout. `sinceSuccess` is what `Health`
compares with `Limit`. The model begins when `Run` has set `started`.

### MetricNames, ProtobufDecoder, MessageDecoding

`MetricNames` converts names rune by rune; a few runes stand for each class that
the code tells apart, `EAcute` and `eacute` for letters outside ASCII. `MetricName`
is the loop of the code, written as a recursive function on the number of runes
read. A value is a number, a bool (which `toFloat` makes a number) or something
else. The number of a pack is a `uint32`, written in decimal (`Decimal`).
`ProtobufDecoder` has the schema of `ecoflow.pb.go` with one field of each kind
that a message has (the field number plays no part once a message is decoded),
the commands of `messages.go`, flattening, unmasking and format detection. The
bytes of a payload are abstracted to what they say and the byte they are masked
with: a masked text cannot be read as JSON or as a message.

`MessageDecoding` is `MessageHandler` from the topic to the last sample: one
action per header, one for the merge, and `SetSample` in any order, since
`Samples` ranges over a map. What the device said is defined once more without
any of this (`LastOf`, `Latest`), and the properties compare the two. So are the
words of a name: `SameWords` counts letters and says where words begin, and knows
nothing of underscores that are written or left out.
Go's assignment to a map entry is `Put`.

### Login, PingRoutine

Logins are numbered; the user id and the client of a login are known by its
number, so that `reqClient` and `reqUser` of a request show which logins its two
reads fell into. An attempt is two steps, as the calls are: `GetUserId` replaces
`userId` even if `NewMqttClient` then fails. A session is shortened to its begin
and end (it is `MqttSession`'s). Time passes only when no goroutine can go on
(`Due`); a request may last up to its timeout, longer than a tick, so ticks are
lost as a Go ticker loses them. `connected` is an established connection; the
`connected()` of the code also holds while a client is (re)connecting, so a tick of
a session may start a round without a connection.

### Configuration, Process, Watchdog

`Configuration` is `LoadConfig` as an operator on environments. A value is what
its text looks like and what it says; the product in `seconds` wraps to
`-HalfRange .. HalfRange - 1` as `int64` does. `Process` starts with an environment, takes the
early returns of `run`, and hands over to `Watchdog` when `Run` is called; from
then on it is `Watchdog`'s `Next`. The exporter is reduced to what both promise:
`Health` answers, `Run` returns when cancelled, and once it has returned `Health`
fails (the MQTT exporter's does at once, the REST exporter's after its limit).
`probe` is one request of
`/healthz`, its two steps being the read of the check and the call.

## What the runs check

| Run | Bounds | Question |
|---|---|---|
| `offline_monitor` | 1 device, threshold 2, cap 5, relogin at 3 | what can the stale copies of the monitor do, and what not? do reconnects get rarer, is silence reported, does re-login go on? |
| `session` | 2 clients, relogin at 3 | do clients, requests or waits outlive their session? does `Run` answer, stop, and stay connected? |
| `session_callbacks` | 2 clients, 1 device, relogin at 2 | do overlapping callbacks lose a subscription or a gauge write? |
| `prometheus` | 2 devices, 2 parameters, 2 writers, 1 scrape | are `Handle` and `Collect` atomic for everybody else? |
| `pipeline` | 2 devices, 2 parameters, 3 routines, 4 messages | is what is exposed the latest? |
| `rest` | 3 devices, 2 slots, timeout and interval 1, limit 3 | is every device reported, are vanished ones left alone, does polling go on, and what makes `Health` fail? |
| `decoding` | two parameters with any names of up to 3 of 5 runes; up to 3 headers of 9 contents; each content with every combination of encryption type, 4 sequence numbers and 2 sources; 3 messages of 19 kinds and 4 topics | is what is exposed what the device said? what do errors and counts mean? |
| `upkeep` | 2 devices, ping 2, refresh 5, timeout 3, delays 1 to 3, 3 logins | is every device asked in time and for ever? do requests fit their client? are logins spaced and never given up? |
| `process` | 9117 environments: who is configured in any combination, the other settings two at a time, also with credentials missing; second 8 and 6 bits; interval 3, limit 7 | do settings mean what they say, is one correction enough after a rejected start, does the watchdog fire in time and only then, is every end explained? |

In `offline_monitor` one device is enough for every race of a message with the
monitor, for the backoff and for the count, and leaves room for liveness. Devices
meet each other only where the monitor asks whether all of them are silent; what
several do there is in the theorems, which hold for every set of devices and
cover all of the run's safety properties. Two clients give an old and a new
one, and `Free` lets a leftover be forgotten when none is left; three routines
and four messages allow partial messages after an outage and a message overtaken
by two others; three devices on
two slots make one wait, and 3 is exactly what two rounds of timeouts and a list
take. Threshold 2 has an age below, at and above the threshold for the
comparisons `>` and `>=`; with a cap of 5 the delays are 2, 4 and 5: the first, a
doubling and a cut. Names of three runes contain every pair of neighbours that
the conversion looks at, and every collision of two short names. Sequence
numbers 0, 1, 256 and 257 have a lowest byte of 0 and 1, with and without higher
bits. A refresh interval that is no multiple of the ping interval is rounded; a
timeout beyond the ping interval loses ticks; three logins are an old, a current
and a half finished one. With seconds of 8 and 6 bits, 3 seconds fit, 5 wrap to
a negative duration, 8 to zero, 9 to a positive one.

Deadlock is checked where the system cannot stop. Sessions, the REST exporter,
the upkeep and the process may end for good, and the messages of `decoding` are
finite, so their configurations say `CHECK_DEADLOCK FALSE`. `session_callbacks`
leaves the history of `MqttSession` out of TLC's view of a state: no guard and
none of its properties reads it.

Three runs show that the code does not do what the repository says of it:

* `offline_report`: an offline update is dispatched for a device that has spoken
  since the verdict (391, 409-413). It is shown offline until its next message.
* `relogin_early`: "If three reconnects bring nothing back, it logs in again"
  (the repository's `README.md:79`; 74-75). The reconnect that fills the count is
  replaced by the re-login, so only two are made (475-486). What holds is checked
  and proved: never more than three in a row (`ReloginInTime`), and proved: never
  fewer than two before a re-login (`ReloginNotEarlier`).
* `session_stuck`: `forceReconnect` acts on a client that is reconnecting; its
  `Connect` is refused, nobody tries again, and since `connected()` is false the
  monitor does nothing. Only the watchdog ends this, after 30 minutes (137,
  491-501). `KeepsConnectedUnlessRefused`, checked by `session`, says that this
  refusal is the only way to lose the connection for good.

Some more surprises are what the exceptions in properties allow, and no more than
that:

* `forceReconnect` may abort the `Connect` that `Run` waits for, and the session
  ends with an error nobody asked for. When the captured client is connected
  again afterwards, it lives on next to the client of the next session;
  `LeftoversExplained` allows exactly these clients (492-501).
* The first message after an outage, even a partial one, exposes the cached
  values from before it; `ShownIsLatest` says that these are what is shown
  (335-361).
* With more than twelve devices whose requests all run into their timeout, the
  REST exporter is unhealthy although every list was fetched;
  `UnhealthyExplained` leaves these out (`rest_exporter.go:14-17, 146`).
* A device that the REST list no longer names keeps its series and its `online`
  value (`rest_exporter.go:105`, `VanishedStays`).
* Two parameters with one metric name share a series that shows either of them,
  and a parameter that is no number any more leaves its last number behind while
  the device is online (`metric.go:126`, `prometheus.go:106`, `ExposedExplained`).
  So a JSON parameter may take the series of a battery pack; `PacksKeptApart`
  leaves out packs to whom this happened.
* An interval beyond 292 years wraps (`config.go:122`). If it wraps to zero or
  below, the MQTT exporter refuses it and the REST exporter panics in
  `time.NewTicker`; if not, it is silently another one (`SettingsAsGiven`,
  `ExitExplained`).
* During a re-login a request can go out on the client of the old session with
  the user id of the new one; `PublishAddressed` allows a newer id and never an
  older one or none (614-631, 651-684).
* A probe that begins before `SetHealthCheck` is answered 200, as
  `regression_test.go:140` wants it (`http_server.go:55`, `OkIsHealthy`).
* `OnConnect` and `OnConnectionLost` write the gauge without looking at the client,
  so a late callback leaves it wrong until the next change;
  `GaugeWrongOnlyByLateWrite` says that nothing else does (364-385).
* A callback that another one of the same device overtook may expose an older
  state (348-362); `ShownIsLatest` and `ValuesAdvance` except this one.
* While the exporter type is unknown the variables of the types are not read, so
  their errors come up only after that correction; `OneCorrectionSuffices` is about
  a known type (`config.go:178-200`).

## Fairness

* Goroutines run: weak fairness of the steps of `Run`, of the monitor and of the
  callbacks, and of time.
* `select` picks a ready case at random, so it does not pass over `ctx.Done()`
  for ever: strong fairness of the cancellation steps only.
* Liveness of the connection assumes a broker that can be reached: strong
  fairness of a successful attempt of the current client
  (`EstablishedCurrent`). No fairness is assumed of failures, messages,
  recoveries or requests.
* Requests of the REST exporter end by their timeout: time does not pass beyond
  it, and ready goroutines run.
* `Aborted` is weakly fair: the client's sleep between attempts ends.
* Login and ping routine: time passes, and calls that begin come to an end with
  some outcome (`getUserId` and `NewMqttClient` have HTTP timeouts, a request has
  its own). No fairness of the server's recovery or of a connection: `LogsIn` and
  `KeepsAsking` assume in their own words that these last.
* Process: every step of the start-up returns, time passes, and ready goroutines
  run. No fairness of signals, probes or the exporter's health.

## What is proved

With TLAPS, for every value of the constants that the named `ASSUME`s allow. These
say what the code's constructors and constants guarantee (positive thresholds,
intervals and limits: 83-91, `rest_exporter.go:14-17`, `main.go`; the first delay
of a retry is not above the last one), that the values that stand for "none"
(`Absent`, `NoClient`, `NoUpdate`, `NoDevice`, `Nobody`) are no others, that an
environment holds texts and a message what a device may have sent
(`EnvironmentAssumption`, `InboxAssumption`: names are finite sequences of runes,
fields are those of the schema, a `uint32` is below 2^32), that the name of
`online` begins with an "o" (`OnlineNameAssumption`; packs begin with "bms"), and
that the REST list is finite.

Every theorem about a specification goes the same way: an invariant that is
inductive, one lemma per group of actions that keep it, and the property as its
consequence. What is worth reading is what the invariants add.

**`OfflineMonitorProofs`.** Of the record: `[]TypeOK`, `[]SentAfterReceived`,
`[]BackoffKept`, `AttemptsSpaced`, from the types and two facts: aging keeps the
order of two ages, the next delay is not below the last one. `MonitorSpec`
implements `StatusSpec` (`MonitorImplementsStatus`), so all this holds of the
goroutines; and `VerdictExplained`, `HiddenOnlyByRace`, `ReturnRefreshed`,
`ReconnectsSpaced`, `ReloginInTime`, `ReloginNotEarlier`. The monitor works on copies of a record
that changes under it, so the invariant says what the copies still mean: the list
names devices that were seen and are silent or spoke since (`CopiesOK`); a device
with an update still to be sent that spoke since has been asked for its state
(`DueRefreshed`). `ReconnectsSpaced` needs `SpacingKept`: the delay of the code is
the spacing that doubles from the threshold to the cap, and time left and time
since make it up, unless some device was heard since. The two bounds on the
reconnects before a re-login compare those counted with those made: the count is
at most one ahead (`CountKept`), and so are the reconnects, when a message fell
between the two (`MadeKept`).

**`SessionProofs`.** `LeftoversExplained` is inductive given the types and that
the monitor's pointers are set. `WaitIsForSomething` and `NoStaleRelogin` need
each other (`TokenInv`): a request that was made in a session finds `Run` in it
and keeps the monitor idle, a client that `Run` has just stored is not connected
by anybody else, and a `Connect` that failed leaves its client down.
`SessionCallbacks` implements `MqttSession`, which carries all of this over; on
top of it `SubsInv` says that a subscription still missing is one that the loop of
some `OnConnect` has to make, whoever's, and `GaugeInv` that after the connection
of a session only a late write can separate the gauge from it.

**`PrometheusExporterProofs`.** `ImplementsStore`. The update takes effect with
`online`, the write that ends it, so the refinement must know what the loop has
left behind: the entries before it are done, the others are as they were
(`WriterOK`), and a scrape has sent what is still there (`ReaderOK`). Both hold
because `p.mu` excludes (`LockOK`).

**`MessagePipelineProofs`.** `ShownIsLatest` and `ValuesAdvance` for any number of
routines. A routine dispatches a clone that later messages have left behind, so
the proof orders the clones: each is below the cache, and of two clones of a
device the one of the newer message has the more (`ClonesOrdered`); what is
exposed is below every clone that is newer (`SeriesBehind`); the clone of the
newest message is the cache, and so is what is exposed after it
(`NewestIsCache`). `ShownIsLatest` alone is far from inductive.

**`MessageDecodingProofs`.** `ExposedExplained`, `TelemetryTells`,
`NamesKeepWords` and `PacksKeptApart` for any sequence of messages. Merging header
by header and message by message is what `LastOf` defines at once: a part that
comes after all others is merged into them (`LastOfNext`), which needs that the
index sets have a maximum (`MaxExists`; there is a least distance to the bound).
Unmasking gives back what was masked (`MaskedTwice`, bit by bit, and `Unmasked`
for every combination of encryption type, sequence number and source). The
invariant follows a message: what has been read of it (`ReadOK`), what the state
holds (`StateOK`), which metrics are written for it and what the others still show
(`ShownOK`), and what was counted (`ErrorsOK`, `MessagesOK`, `CommandsOK`,
`LastOK`).

The two properties of names need an induction over their runes. It is made on sets
of numbers, as the prover allows: a set that has zero and every successor is `Nat`
(`AllNumbers`, from the least number that is missing), so the recursive function
in `MetricName` exists (`WrittenExists`), and what every iteration keeps holds at
the end. For words, every iteration keeps the letters, their ranks and where words
begin, with and without the underscore of a capital (`RuneKeepsWords`; `LetterAdded`
and `OtherAdded` say what one rune more does to the ranks). For packs, runes before
any capital are converted one by one (`FitsNext`, `ConvertedPrefix`), so the metric
names of two packs agree only if their digits do (`SameEnd`), and ten digits tell
numbers of 32 bits apart (`SameDigits`, `DecimalsDiffer`). No field of another
message, and no other field of a pack, gets the same name (`NotOfPack`,
`PackNamedOnly`, from the field names of the schema); hence the latest value under
it is that of the last report (`SaidByOfPack`, `LatestOfPack`), which
`ExposedExplained` carries over to the metrics.

**`RestProofs`.** `ScrapeReported` and `VanishedStays` from the stages of a scrape
(`StagesOK`, `ReportOK`). `UnhealthyExplained` is about time: while a request
waits for a slot all slots are taken, so every timeout takes `Concurrency` devices
off the list (`SlotsBusy`, by counting), no round of requests lasts longer than
its share (`FetchInTime`), and no tick is lost meanwhile (`PollInTime`).

**`PingProofs`.** `PublishAddressed` because user ids and clients only grow
(`LoginOK`, `AddressOK`). `RefreshedInTime` because from one round to the next it
is at most the longer of a tick and a timeout, and every round brings the refresh
closer (`RoundOK`). `LoginsSpaced` because the delay doubles with the failures
(`PaceOK`; that 2^(n+1) is twice 2^n comes from the subsets of an interval,
`TwoToTheNext`, since the provers do not know powers), and because an attempt
after the end of `ctx` is the last (`LateOK`).

**`ProcessProofs`.** `FiresInTime` and `GivesUpOnlyWhenUnhealthy` compare clocks
that start at different moments: the failure, the row of failed checks, the last
good check and the ticker (`ClocksOK`, `InTime`). `OkIsHealthy` follows a probe
(`ProbeInv`). `ExitExplained` and `SettingsAsGiven` rest on lemmas about
`LoadConfig` for an arbitrary environment (what an error means, what a setting is
when there is none) and on `StartOK`: the configuration that `Run` has is the one
that was loaded. `OneCorrectionSuffices` is about two environments, the rejected
one and the corrected one: every fault is among the errors (`Reported`), no error
is about anything else (`NotReported`), and the correction of one neither changes
the type nor brings another (`CorrectedVariables`, `CorrectedCredentials`,
`CorrectedDevices`).

Flaws found by proofs that failed, and corrected: the alternatives of `ReadHeader`
overlapped, which leaves the choice open although the code tries one first; and
`PacksKeptApart` was stated without its exception and with pack numbers of two
digits at most, which no message within the bounds of the run refutes.

### Only model-checked

* Liveness, which needs fairness and is out of the prover's reach:
  `SilentIsReported`, `ReloginRepeats`, `RequestAnswered`, `AllStop`,
  `KeepsConnectedUnlessRefused`, `KeepsPolling`, `LogsIn`, `KeepsAsking`,
  `UnhealthyExits`.
* `offline_report`, `relogin_early` and `session_stuck`, which are counterexamples.

`DeviceStatus` has no run of its own: that the goroutines keep to it
(`UsesStatus`) and its properties are proved and not run.

## Not modelled

* The wire format of protobuf, the generated accessors and descriptors of
  `ecoflow.pb.go`, and the syntax of JSON: code of the generator and of
  libraries. A message is what they make of it.
* The text of requests to EcoFlow's API. Their outcomes are modelled: no answer,
  a bad status, a garbled one, an empty user id, the id.
* Ping statistics (`recordPing`), the devices already logged (`seenDevices`) and
  the debug dumps of the decoder: they only decide what is logged.
* Of `telemetry.go` the counters of pings, reconnects, re-logins and REST
  requests and the build info, which nothing reads back.
* `setupLogger`, `LogValue`, the messages of the healthcheck, and
  logging throughout.
* A panic of a handler, which `safeHandle` turns into a logged error: no handler
  of the repository panics on an update that the models contain.

## Plan

1. Done: every component above, each with its runs.
2. Done: every safety invariant and action property of the passing runs is a
   theorem, and so are the three refinements (`UsesStatus`, `ImplementsStore`,
   `SessionCallbacks` of `MqttSession`).
3. What is left is liveness, which stays with TLC, and the components under *Not
   modelled*.
