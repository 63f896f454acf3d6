# A verification project for Electrician

Electrician (`github.com/joeydtaylor/electrician`) is a Go library for streaming
pipelines. Data flows from *generators* through *wires* and *conduits*; a
*circuit breaker*, a *surge protector* and a *resister* protect the flow; *relays*
carry it to other processes; *adapters* and *jacks* connect it to HTTP, Kafka, S3,
Postgres and WebSockets. This directory holds TLA+ models of that code, the TLC
configurations that check them, and proofs for TLAPS. Every definition is
translated from the Go source; `PROJECT.json` names the lines (`map`).

## 1. The system

| Part (pkg/internal/...) | State | Operations | Talks to |
|---|---|---|---|
| circuitbreaker | allowed, error count, last error, last trip, reset channel | Allow, RecordError, Trip, Reset, SetDebouncePeriod | asked by wires and generators; tells sensors after its lock is released |
| wire | three channels, worker pool, context, started flag, sync.Once | Submit, FastSubmit, Start, Stop, Restart, Connect* | breaker, insulator, neutral wires, surge protector, resister, sensors |
| surgeprotector | tripped flag, token bucket, backups, managed components | Submit, TryTake, ReleaseToken, Trip, Reset, Attach/DetachBackup(s) | called by wires and calls them back |
| resister | priority heap, index by ID | Push, Pop, DecayPriorities | filled by the protector, drained by every wire's drain loop |
| conduit | list of wires, settings, output channel, next conduit | ConnectWire and other Connect*, Submit, Start, Stop, Restart | owns wires, passes settings on to them |
| generator, plug | context, wait group, control channel, connectors | Start, Stop, Restart, breaker ticker | adapters produce, connected components receive |
| forwardrelay and the forward halves of quicrelay, websocketrelay, webtransportrelay | map target -> session; a session has a channel and a send loop; a token source | Submit, Start, Stop, WrapPayload | reads inputs, sends to streams |
| receivingrelay and the receiving halves | DataCh, fan-out goroutine, per-stream ack counters, authentication policy and caches | StreamReceive, Receive, Start, Listen, Stop, UnwrapPayload | handlers in, outputs out |
| adapter/kafkaclient, s3client, postgresclient | batches, fan-in channels, offsets, list position | StartWriter, ServeWriter, ServeWriterRaw, Serve, Fetch, Stop | fed by wires, driven by generators |
| adapter/httpclient, websocketclient | token, retries; connection and two loops | Serve, Fetch, ServeWriter, ServeDuplex | driven by generators |
| jack/httpserver, jack/websocket | server under a lock, connection table, send queues | Serve, handlers, Broadcast | submit to the pipeline, fed by output wires |
| meter, sensor | counters, peaks, idle timer; lists of callbacks | Monitor, Report*, Register*, Invoke* | called by all |
| internallogger | relay sink with queue and worker | Write, Sync, Close | called by all, uses a forward relay |
| codec, relaycodec, auth, utils, types, builder, relay | a key cache in auth; otherwise none | conversions, constructors, generated code | |

What is hard here: everything is concurrent. Methods read a clock or a flag
before they take a lock and notify after they have released it; channels are
closed while others may send on them; Start, Stop and Restart overlap; a bounded
channel decides who waits; the protector and its wires call each other in a
cycle; sessions die under the callers that share them; answers from outside
arrive late and out of order at shared caches; a batch is half written when a
write fails. `PROJECT.json` lists these places (`hazards`), each with the
properties that would notice it going wrong or the reason there is none.

## 2. Modules

| Module | Models | Size of the idea |
|---|---|---|
| `CircuitBreaker` | circuitbreaker | a call is *begin* (clock and debounce read), one locked step, notifications |
| `RateLimiter` | surgeprotector/rate_limit.go, config.go | the token bucket with int32 wrap-around and reconfiguration under way |
| `Resister` | resister/queue.go, types/element.go | heap (by its contract) and index by ID |
| `SurgeWire` | wire/submit.go, resister.go with surgeprotector | call stacks of the mutual recursion, drain loops, backups |
| `Pipeline` | nothing: the promise | an accepted element gets one fate, "discarded" only after cancellation |
| `Wire` | wire | one wire from construction to the end of its first Stop; implements `Pipeline` |
| `WireLifecycle` | wire/lifecycle.go, internal.go | repeated and overlapping Start, Stop, Restart |
| `Generator` | generator | runs with a context each, connectors served again by the control loop |
| `Conduit` | conduit | the channel graph the Connect calls build, and what flows through it |
| `Meter` | meter | Monitor, the idle timer, peaks |
| `ForwardRelay` | forward halves of the four relays | sessions opened by racing callers, dying, closed by Stop |
| `ReceivingRelay` | receiving halves of the four relays | handlers, ack modes, fan-out, Stop |
| `Payload` | wrapping and unwrapping in the relays, relaycodec, s3client, postgresclient | a payload is the sequence of its layers |
| `Authentication` | the policies and introspection caches of six packages | late answers at a shared cache |
| `KeyCache`, `TokenSource` | auth/jwt_validator.go; forwardrelay/token_source.go | caches refilled without the lock |
| `BatchWriter` | writers of kafkaclient, s3client, postgresclient | fan-in, batch, flush, failure, restart |
| `ParquetWriter` | s3client/parquet_writer.go, writer_raw.go | roller and writer joined by a channel of files |
| `Pollers` | readers of s3client, postgresclient, httpclient | ticks, positions, retries, token |
| `KafkaReader` | kafkaclient/reader.go | windows, commits, crashes |
| `WebSocketClient` | websocketclient | two loops on one connection |
| `WebSocketJack`, `HTTPServer` | jack/websocket, jack/httpserver | one server, connections or requests, shutdown |
| `RelaySink` | internallogger/relay_sink.go | a queue, a lagging counter, Sync and Close |
| `Sensor` | sensor, meter/metrics.go | lists read before the lock, a gauge |
| `Configuration` | Connect and Set calls of every package | check, change, and a flag set in between |
| `CircuitBreakerProofs`, `WireProofs`, `ForwardRelayProofs`, `ReceivingRelayProofs` | | theorems about the module of that name |
| `FlowProofs` | | theorems about `RateLimiter`, `Resister`, `SurgeWire` |
| `LifecycleProofs` | | theorems about `WireLifecycle`, `Generator`, `Conduit`, `Meter` |
| `AdapterProofs` | | theorems about `BatchWriter`, `ParquetWriter`, `Pollers`, `WebSocketClient`, `WebSocketJack`, `HTTPServer` |
| `ServiceProofs` | | theorems about `Authentication`, `KeyCache`, `TokenSource`, `RelaySink`, `KafkaReader`, `Sensor`, `Configuration`, `Payload` |
| `MC*` | | constants for TLC, and which components a run exercises |

The names of a component's module do not clash with those of the others it is
checked with, so that one MC module can extend several. `MCFlow`, `MCLifecycles`,
`MCAdapters` and `MCServices` hold components that do not share state: `part`,
fixed in the initial state, says which one moves, the others stay where they
began. Each behaviour is therefore a behaviour of one component, and what is
checked of it is what its own specification allows.

A definition whose name starts with `Mut` is a deliberately wrong variant of the
definition that follows it; no specification uses it. It documents which mistake
in the code a property would catch (`mutants` in `PROJECT.json`).

### How state and actions correspond to the code

*CircuitBreaker.* `pc` says where a caller is in its call; `now` and `deb` are the
locals read before `stateLock`; `AllowLocked`, `RecordErrorLocked`, `TripLocked`,
`ResetLocked` are the critical sections; `NotifyTrip`, `NotifyReset`, `SignalReset`
what follows them. `balance` is history.

*RateLimiter.* `TryTakeLocked` and `ReleaseTokenLocked` run after a check of
`rateLimited` outside the lock; `SetRateLimit` and `EnableRateLimit` are the two
halves of SetRateLimit. Time is a clock that may pass at any moment.

*Wire.* `spc[e]` is the Submit call of element e, `wpc[w]` and `hand[w]` a worker,
`epc` the error goroutine. `Connect` happens before Start, as wire.go:15 demands.
A worker's steps are the taking of an element, the transform with its retries
(`attempt`), the check of the breaker, the select that emits, and the exits.
`FinishAt` is the end of an element's way. Data are reduced to whether a transform
fails; the breaker to whether it is open, and anybody may open or close it.

*WireLifecycle.* What Restart makes anew is indexed by a generation. Goroutines
are counted by generation and place. Restart is called while no other call is in
progress: it writes fields without a lock, and what an overlapping call would read
is undefined.

*SurgeWire.* `stack[g]` holds the frames of Wire.Submit, SurgeProtector.Submit and
submitToComponents. The resister is a set (its order is the subject of
`Resister`), the bucket is its tokens and whether a refill is due. The backups are a
sequence, asked one after the other; each takes or refuses, and `cuts` counts how often
a later one refused what an earlier one has taken.

*Generator.* Contexts are numbered by run; `genControl`, `ticker` and `serves` are
the goroutines of a run, together the wait group. `controlChan` holds a verdict
that may be stale.

*Conduit.* `wireIn`, `outChan` and `conduitOut` are channels by identity: which one
a wire reads and writes after any sequence of Connect calls. An element in a channel
is the list of the wires it has passed. `configuring` holds a Connect call between
the step that stores its own part and the one that looks at the other's.

*Meter.* `timeLeft` is the idle timer, `dataCh` the one-slot signal of ReportData,
`idler` the goroutine that turns a signal into a reset. `submitCount` and `processed` are
counted apart: the error threshold looks at the first, completion at the second. Peaks
are set by a load and a compare-and-swap.

*ForwardRelay.* `streams` and `isNil` are `fr.streams`; a session has `loop` (its
send loop; "done" is the closed doneCh), `sendCh`, `closed`. A caller walks through
getOrCreateStreamSession one critical section at a time. `close` is shared by Stop
and by the caller that lost a race. `transport` and `policy` select what differs:
whose context is watched, what a full queue does, datagrams. A panic ends the
process (`crashed`).

*ReceivingRelay.* `at[g]` is a stream handler or the goroutine of a unary call or
datagram. The batch counters are the handler's locals; `ackedOK`, `ackedErr`,
`nacked` and `pushed` are history. The peer sends anything, except that Open comes
first if at all. `transport` selects what ends a handler, how a refused payload is
reported, and what Stop does to the listener.

*Payload.* No behaviour in time: one step wraps, passthrough relays take a step each,
one step unwraps. A layer comes off only with the algorithm or key that put it on;
`meta` says what the metadata tells the receiver and `set` whether it is there.
`defaults` are those of the stream the payload is on; a WebTransport datagram is on none
(`DefaultsSeen`).

*Authentication, KeyCache, TokenSource.* A request is at one place of its handler;
the answer in its hand was made when the provider was asked. `validator` counts the
validators that streams install without a lock. `handleDatagram` is the way of a
WebTransport datagram, which meets neither validator nor policy. A bearer's `kid` may be
missing; `Candidates` says which cached keys are then good enough. A token response may
name no lifetime, and `DefaultLife` counts.

*BatchWriter.* `src`, `hand`, `merged` and `batch` are where a record can be; `loop[c]`
is the serving loop of the c-th start; `lost` collects what the code gives up, at the
place where it does. `kind` selects the adapter. *ParquetWriter* is the roller and
the raw writer, *Pollers* the ticks of the three readers; `page` is what is left of the page
an S3 listing has fetched, `more` whether it is truncated, and objects may be put while
it is walked. *KafkaReader* is a window with the message in hand, `latest` (latestByTP)
and what the broker has recorded; each Serve begins at the committed offset or, where
there is none, where `startAt` says. The driver commits nothing by itself for messages
taken with FetchMessage.

*WebSocketClient, WebSocketJack, HTTPServer.* One place per goroutine; `errCh`, send
queues and the lock of Serve are variables of their own.

*RelaySink.* Write under `writeMu` is two steps, the send and the counter; the worker
is three, take, submit, count down.

*Sensor.* A list is a pointer and a length; Register stores them one after the other
and the reader may see one old and one new. `gauge`, component_running_count, is moved by
the load and the store of DecrementCount (Stop, the restart of a wire), by atomic
increments (Start, a breaker's trip), and cleared when Monitor ends. `tally` counts the
callbacks done.

*Configuration.* The tables name every Connect and Set operation of a package by what
it does: extend under a lock, extend without one, assign. A call checks the flag and
changes the value in a later step; Start, Listen or Serve sets the flag, a jack after
it has copied the values.

## 3. Runs

Every passing run takes less than three minutes with two workers.

| Run | Instance | Shows |
|---|---|---|
| `wire` | 2 elements, 2 workers, one-slot channels, every subset of insulator, breaker, encoder, telemetry, 2 attempts, Stop or a cancelled parent at any time | an accepted element has one fate (`Conservation`), each failure counts with the breaker (`FailuresRecorded`), `NoSendOnClosedChannel`, and the refinement of `Pipeline` (`ImplementsPipeline`) |
| `wire_live` | 3 elements, 1 worker, factory or insulator, fairness | `OrderPreserved`; `AcceptedSettles` if the output is read; `StopReturns` even if it is not |
| `flow` | breaker: 2 callers, threshold 2, window 2, 3 time units; limiter: 2 callers, five settings with zero, negative and wrapping capacity; resister: 3 IDs, 4 priorities; protector: 2 elements, 2 goroutines, 1 wire, 2 backups attached and detached, each of which may refuse (once after another has taken: `MaxCuts`), trips, drain loop | `ClosedBelowThreshold`, `NotificationBalance`, `ResetSignalNotLost`, `CooldownHonoured`; `TokensConserved`, `RefillsSpaced`; the index is the queue and Pop takes a most urgent element (`QueueSound`); nothing accepted is lost, and nothing is held twice except by an earlier backup when a later one refused (`SurgeSound`) |
| `lifecycles` | wire: 2 controllers, 4 calls; generator: 1 controller, 2 runs, 2 Serves at a time; conduit: 3 wires, 2 configuring goroutines, 2 settings, 1 Restart; meter: 2 timeouts, 1 submission, 2 peak setters; fairness | overlapping calls leave a restarted wire working and hit no closed channel (`LifecycleSound`); after Stop nothing of a generator is alive (`StoppedQuiet`); settings reach wires and elements pass every stage in order (`ConduitSound`); Monitor is not idle early and peaks are kept (`MeterSound`); every call returns (`LifecyclesSettle`) |
| `forward_relay` | gRPC, QUIC, WebSocket and WebTransport; 1 input reader, 1 outside caller, 2 goroutines calling Stop, 2 sessions, 2 items, one-slot channel, fairness | no session is orphaned or closed twice, no panic without Stop (`SessionsSound`); every call returns (`CallsReturn`) |
| `receiving_relay` | the four transports; 1 stream of 3 payloads, 1 unary call or datagram, AckEveryN default and 2, one-slot channel, fairness | every payload is reported once and in the right column, in time (`AcksSound`), order is kept (`FanoutOrdered`), the channel drains (`ChannelDrains`) |
| `adapters` | writers: 4 kinds, 2 records, 2 starts, 2 attempts; parquet: 5 records, files of 2; pollers: 3 kinds, 2 calls, 2 ticks, 3 objects put at any time, pages of 2; WebSocket client: 2 messages each way; WebSocket jack: 2 peers, limit 1; HTTP jack: 2 Serves, 2 requests; fairness | `WriterSound`, `ParquetOrder`, `PollAccounted`, `LossReported`, `JackSafe`, `DrainedOnShutdown`; batches are flushed and cancelled calls return (`AdaptersSettle`) |
| `services` | authentication: 6 packages, 2 requests or datagrams, 2 time units; keys: 2 calls, 2 keys, tokens with and without kid; tokens: 3 calls, a stated and the default lifetime; sink: 3 writers, 1 Sync; Kafka reader: 2 partitions of 2, 2 runs, 4 commit policies, 2 start policies; sensor: every list with 1 emitter and 1 registrar, and the gauge with 2 emitters, 2 reports each, a wire and a generator; payload: every transport, datagrams, every format, algorithm and key, 2 hops; every configuration operation, 3 callers | `AuthSound`, `KeysFresh`, `TokenLives`, `SyncFlushes`, `CommitsExact`, `SensorSound`, `PayloadSound`, `ConfigSound` |
| `surge_recursion`, `conduit_chain`, `kafka_commit`, `http_token` | see findings | violations: the code does not do what its documentation says |

A property whose name ends in `Sound` or `Safe` is the conjunction of the named
properties defined before it, each with its own comment: they are checked together
because they are invariants of one component.

Why the bounds suffice. Two actors are what the races modelled here need: one
that has left a critical section and one that enters it. Channels of one slot make
"full" and "empty" one step apart, so blocking happens everywhere it can. Three
payloads with AckEveryN of two cover a complete batch and a broken one; a wire
with two attempts covers a first, a repeated and a last failure. Two elements and
two workers let one element overtake the other; order is a property of one worker
and is checked with three elements. In `forward_relay` two sessions cover a lost
race and the replacement of a dead session; the settings of the queues that the run
leaves out (296 000 states) and two targets with one Stop (241 000) give the same
results. A second start of a writer or reader is
the first that meets what the one before left behind; two partitions let a commit of
one fall between messages of the other. A key rotated once and a token revoked once
are enough for an answer to be old. A setting has three callers: an append without a
lock can bring back, in what it read, an argument that a second append had dropped,
and it takes a third to do so. Three wires are the fewest whose middle one has
two neighbours. WebSocket jack: the properties of `adapters` hold as well without a
connection limit, with two connections at a time (774 000 states).

Symmetry is used only in runs without liveness properties. Deadlock is not checked
where the system may really stop: after Stop, after a panic, or when every element
has been submitted.

### Fairness

Weak fairness for every goroutine that can run: workers, drain loops, send loops,
handlers, callers in the middle of a call. Go's scheduler is preemptive and a
`select` with a ready case proceeds. Timers fire. Nobody is obliged to *begin* a
call, to send a payload, to cancel a context or to close a channel. These
assumptions go further and are stated where they are used:

- `AcceptedSettles` assumes that Start is called and that somebody reads
  OutputChan; without a reader a worker rightly waits until Stop.
- `WireLifecycle` and `Generator` assume strong fairness for the exit of a worker
  and of the control loop: their `select` has two ready cases, and Go chooses among
  ready cases at random.
- `Generator` assumes that an adapter's Serve returns once its context ends.
- `ForwardRelay` assumes that a Send returns, with or without an error,
  `ReceivingRelay` that an output's Submit returns, `Pollers` that submit returns.
  `HTTPServer` does not: its shutdown has a timeout.

`AdaptersSettle` and `LifecyclesSettle` say of several "something waits" predicates
that again and again none of them is true; each is defined, with its meaning, in
the component's module.

## 4. Findings

Each violation run checks one sentence of the documentation.

1. `surge_recursion`: with a tripped protector, no backup and no resister,
   Wire.Submit and SurgeProtector.Submit call each other without end.
2. `conduit_chain`: a wire that was last keeps the conduit's output channel when
   another is connected later, so elements leave without having passed every wire.
3. `kafka_commit`: a message whose decode or submit failed is skipped and the commit
   of the next one covers it.
4. `http_token`: the refreshed token is stored; requests carry the first one.

Behaviour that the models contain, and that the properties above are worded to
leave room for:

- wire: the standard worker loop ignores a transformer factory (transform.go:95);
  with the fast path, Start after Stop can panic on a closed channel
  (internal.go:84); a second Stop returns while the first still waits
  (lifecycle.go:68); with an open breaker and no neutral wires Submit drops the
  element and returns nil (submit.go:54); a full error channel drops the report
  (error.go:11);
- protector: the drain loop ends at the first tick that finds the resister empty
  (wire/resister.go:47), so what is queued later waits for another Submit; the wires
  of a conduit drain one shared resister, so an element can enter at a later stage;
  when a second backup refuses, the element is reported as failed or goes back to the
  resister although the first has taken it, so that it can come out a second time
  (surgeprotector/submit.go:25);
- generator: a Stop that overlaps a Start leaves a run that cannot be stopped
  (lifecycle.go:25); every verdict of a closed breaker serves every connector once
  more (internal.go:83);
- conduit: Restart starts wires whose contexts stay cancelled (lifecycle.go:125);
- forward relays: a Submit that overlaps Stop can panic or register a session that
  Stop does not see; a target whose session cannot be opened is skipped and Submit
  returns nil (submit.go:46); sequence numbers are drawn before the envelope is
  enqueued, so they can arrive out of order (submit.go:29);
- receiving relays: Stop closes DataCh under the handlers, so the next payload
  panics, and a second Stop panics (lifecycle.go:49); a unary caller is told
  "Received" before the payload is unwrapped (receive.go:36); the error of a batch
  ack is ignored (stream.go:44); a QUIC relay whose Stop comes before Listen has bound
  its address goes on listening;
- payload: the sender accepts a key in hex or base64, the receiver uses the string as
  the key (forwardrelay/payload.go:149, receivingrelay/crypto.go:16); bytes sent in
  the bytes format are read as gob (relaycodec/codec.go:66); a WebTransport datagram is
  read without the stream's defaults (webtransportrelay/receivingrelay_stream.go:54), so
  with the metadata left out, which is the default (forwardrelay.go:78), a compressed or
  sealed one is not read, nor one with raw bytes in the JSON format;
- authentication: a WebTransport datagram is accepted whatever authRequired and the
  session's headers say (receivingrelay_stream.go:54 hands over no verdict, and line 205
  checks only one that is there); a token without a kid is checked with the only cached
  key, and refused without a second look when that one is out of date
  (auth/jwt_validator.go:149);
- S3 reader: the position moves to the last key of the last page, so an object put
  behind a page already fetched is never read (s3client/reader.go:189);
- Kafka reader: in mode auto, the default, nothing is ever committed: FetchMessage leaves
  that to its caller, and Serve calls CommitMessages in mode manual only (reader.go:185,
  263), although types/kafka_adapter.go:107 says "auto" => driver-managed and
  builder/kafkaclient_adapter.go:219 "driver auto-commit cadence"; `CommitsExact` says so.
  With StartAt "latest", the default, a Serve that finds nothing committed
  begins behind what the log holds; after a crash before the first commit, and in mode
  auto after every one, that skips messages (reader_helpers.go:44);
- writers: Stop of the Kafka and S3 clients only notifies sensors, the loops go on
  (kafkaclient/lifecycle.go:6, s3client/lifecycle.go:4); postgres has no timer, so a
  batch waits for the next record; a second writer makes the parquet roller wait for
  ever (parquet_writer.go:49);
- jacks: an adapter serves once; a failed listen cannot be retried, and a second Serve
  waits for the first to end (jack/httpserver/serve.go:35);
- WebSocket client: an orderly close by the peer leaves ServeDuplex waiting for the
  writing side;
- meter: completion is an equality (monitor.go:55); DecrementCount can lose an update
  (metrics.go:81); in component_running_count a breaker's trip is a running component
  that is never counted down (sensor/circuitbreaker.go:142), a wire's restart one less
  (sensor/wire.go:231), though its Start follows, and a stop reported before its start
  finds zero and leaves the start counted;
- logger: AddSink with an identifier in use never stops the sink it replaces
  (internallogger/sinks.go:72);
- configuration: bare appends lose an argument when two calls overlap; SetTargets of
  the gRPC forward relay appends where that of the QUIC relay replaces;
  SetReaderConfig of s3client clears the prefix and the position when they are not
  given (s3client/config.go:99).

## 5. Proofs

TLAPS proves the following for all values of the constants that satisfy the named
assumptions (finite sets of actors, capacities of at least one, integers where the code
has integers). The exploration bounds are constants too and may be any number. All but
the type theorems state a property that a run checks. Hardly any of these is inductive;
what follows names the invariant that is, and says what it adds. Hypotheses beyond the
assumptions are given where there are any.

*CircuitBreakerProofs.* `TypeCorrect`; `ThresholdSafe`, inductive with the type;
`ResetSignalled`; `CooldownSafe`, an action property that needs the invariant
`OpenSince` (an open breaker was tripped at a time not later than now); `Balanced`,
which counts the callers between their locked step and their notification: the balance
told to the sensors plus what these callers will still tell is the state of the breaker.
Lemmas say how the count changes when one caller moves.

*FlowProofs.* `TypeCorrect`; `TokensSafe`: tokens plus outstanding ones equal the
capacity; `SpacingSafe`, from the invariant `PeriodKept` that the next refill is a
period after the last one. `QueueSafe` needs that the queue is a heap of distinct
elements (`QueueInv`). That the root of a heap is its greatest element is shown by the
least counterexample, whose parent is greater still; that a heap of as many elements as
its set holds each once is the pigeonhole principle of the library. `SurgeSafe` is about
the call stacks of the mutual recursion, to any depth. `SurgeInv` says that every element
is in exactly one place (`Parted`): the resister, inChan, the output, the drain loop, the
last backup, nowhere because its Submit has not begun or has failed, or in the hands of
one goroutine. The last backup has an element only when all have taken it; what the
others hold beside that is counted by the refusals that followed (`BackupsInv`). What a goroutine holds can be read off its stack: the element of every
frame that is busy with one it popped from the resister (`Kept`), and the element being
submitted, unless its Submit has returned nil (`Live`). For that each frame must be the
callee of the one below, with the element that one handed on (`Called`), and a result
must go to a frame that awaits it (`Answered`). A step replaces, pushes or pops the
innermost frame; lemmas say what each does to what is held. The theorem is for one wire:
submitToComponents hands an element to every managed wire, so with two the property is
false (TLC finds a run of sixteen steps). Assumed is that the backups are different
submitters; of two equal ones the first could take what the second refuses.

*WireProofs.* `TypeCorrect` in four parts (control, channels, workers, history);
`PanicFree` from the invariant `Quiet` (once the wire is stopped no worker is left where
it sends); `PlacesCorrect`: an accepted and unsettled element is in inChan or in the
hand of one worker, and in no two places. Conservation is not inductive: a worker that
finishes an element could finish one that is also elsewhere, which only `OnePlace`
excludes. `Conserved` and `Refinement` follow from it; the refinement maps the elements
that are unsettled to `inside` and the history of outcomes to `fate`. `FailuresCounted`:
an element is unrecorded until its last attempt has failed and recorded from then on,
and nothing ends before Start, when the breaker may still be connected (`RecordInv`).
`OrderKept`: inChan is the tail of what was accepted, the element in the hand of the
only worker comes just before it, and what was emitted sits at earlier, increasing
positions (`OrderInv`); one worker is part of the property.

*LifecycleProofs.* `MeterSafe`: the idle timer is never ahead of the time since it was
set (`TimerHonest`), and who is about to swap a peak has a value above the one it saw
(`PeaksHonest`). `StopIsQuiet`: a Stop that cancels or waits has taken the flag down,
and after it the wait group is at zero with nobody on the way to add to it (`GenInv`);
it is stated for one controlling goroutine, because a Stop that overlaps a Start does
leave a run behind (section 4). `LifecycleSafe`: nothing overlaps a Restart
(`ControlInv`), one caller is in the body of a Once (`OnceInv`), a started wire has its
workers or a Start that will add them (`Supplied`), and none is about to send once Stop
has seen the wait group at zero (`Silent`). The last, and so `LifecycleSound` as a
whole, is proved for the standard loop; the other parts hold with the fast path too.
`ConduitSafe`: a wire has a setting or some call in flight will still give it
(`SettingsInv`); the channels form the chain of the list (`GraphInv`, `LinkedInv`), so
that an element in a channel has passed the wires up to the channel's writer
(`PassedInv`), and a closed channel belonged to a wire that has ended (`ClosedInv`).

*ForwardRelayProofs.* `SessionsSafe`, from `SessionInv`: a session belongs to the map,
to one goroutine that registers or closes it, or to one Stop that took it out of the map
(`OneOwner`), nobody knows one that was not opened (`Unknown`), only the owner closes
(`ClosedByOwner`), a session is purged only when its send loop has ended (`HandsKnown`),
and before Stop what a Submit holds is not closed (`UsableBeforeStop`).

*ReceivingRelayProofs.* `AcksSafe`: `StreamInv` is about one handler at a time, since
the counters of a handler are its locals; besides the sums of the property (`Exact`,
`Batched`) it says that nothing is counted before the first payload (`Untouched`) or
admitted before the credentials (`NothingAdmitted`), and bounds every counter in every
mode (`Bounded`). `FanoutSafe`: one fan-out goroutine at most (`FanInv`), and the
outputs, what it carries and DataCh, one after the other, hold each stream's payloads in
order and as many as it pushed (`Ordered(Given)`).

*AdapterProofs.* `DrainSafe`: one Serve at most gets to serve, and what it has shut
stays shut (`ServesOnce`); after a shutdown in time nothing is in a handler
(`CancelledQuiet`). `LossSafe`: a loop that was started runs, has its result in errCh,
or has been heard (`LoopsCounted`), and the error of a loss is on its way
(`LossOnItsWay`). `ParquetSafe`: every file is a run of consecutive records
(`FilesWhole`) and bucket, file in hand, channel, file being rolled and source continue
each other (`Chained`). `JackKept`: a queue and a peer have each broadcaster's messages
in order, up to the one the current cast has brought there (`CastsInOrder`, `Reached`).
`PollersAccount`: one call polls (`OnePoller`), the tick under way is the only one not
answered (`TicksAnswered`); what a poll has read lies between the position and the last
key it saw, what was submitted below (`ReadAhead`), a page lies ahead of that key and
holds what there is up to its end (`Paged`), and no object the position has passed is in
neither, unless it was put behind a page (`NoneSkipped`). `WritersSafe`, in the writers of kafka, postgres
and s3: a record is in one place, its wire, the hand of a fan-in goroutine, the channel,
a batch, the store or lost, except that s3 may still have in its batch what a flush that
was told of a failure had stored (`Placement`); no sequence repeats a record (`Singly`);
one loop serves at a time, and only its batch is not empty (`OneLoop`); after a single
start the store, the batch, the channel, the hand and the wire continue each other, per
wire (`Lines`); and a record s3 has given up is matched by a call that returned the
error (`S3Errors`).

*ServiceProofs.* `TokensAlive`: a cached expiry is at most the timeout later than the
token's (`CacheHonest`), and an answer on its way is no older than the timeout
(`AnswersYoung`); assumed is that the leeway covers the timeout (TokenAssumption).
`KeysStayFresh`: the cache and the answers on their way end the cache time after the
retirement of a key they hold (`CacheYoung`, `CallsYoung`, `RetiredInPast`), and a
forced fetch brings the keys served at one moment after its call began (`ForcedFresh`),
which covers the tokens that name no key. `CommitsSafe`:
what is before the reader's position and not in hand was handled, or lies before the
place where a reader with StartAt "latest" began (`FetchedHandled`, `InHandLast`), so is
all that `latest` and the broker cover (`LatestHandled`), and in mode manual what the
submits ask to commit is committed or noted down, in mode auto nothing is (`GoalNoted`). `SyncSafe`: one
writer at a time (`SinkLocked`), the counter is the queue and the worker's hand, less
the entry queued and not yet counted (`PendingExact`), no entry vanishes (`NoneLost`),
the worker ends with an empty queue and Close returns after it (`WorkerLeaves`), and a
flush follows the submits before it (`FlushedSubmitted`). `ConfigurationSafe`: an
operation under the lock never holds an old list (`LockedAppends`), and the flag of a
running component lets nothing new past the check (`FlagHolds`). `SensorSafe`: a list is
at least as long as the registrations that have returned (`ListsLong`), a call under way
lacks none of those it knew (`InvokesServed`), starts less stops, told or on their way,
are the parts that run (`FlagsTold`), and the gauge is what the callbacks done have added
and taken away (`GaugeCounts`), as long as the counter does not wrap around: that starts
and trips together stay below `CountRange` is a hypothesis. `AuthenticationSafe`: every
validator belongs to a request that has looked for one (`ValidatorsCounted`), no request
goes on without the one the options ask for (`ValidatorInstalled`) or, where credentials
are required, without the static part of them (`RequestsOpen`), except a datagram of the
WebTransport relay, and a good answer, in hand or cached, is older than the revocation
(`AnswersHonest`). `PayloadsSafe`: a payload
on its way has the layers its sender gave it, and after the defaults the metadata of its
sender, but for the content type gRPC-Web fills in, or those of a bare datagram
(`BareMeta`: none, or a passthrough relay's) (`OnTheWay`); a store holds what its
writer put there (`InStore`). From there on it is a case analysis by transport, format,
compression and key, in which a layer comes off only in the order it was put on.

The attempts corrected the project in three places. `FrozenStays` (part of `ConfigSound`)
said that a running component has nothing but what was stored at its start and the
arguments of calls then past their check. It passed its run with two callers and
resisted the proof: with three, an append in flight also carries what it has *read*, and
brings back what another append had dropped. The property now speaks of that as well
(`Carried`), and the run has three callers. `BatchWriter` named records by one number
made from input and position, which two records share once an input has a hundred; they
are pairs now. In `Payload` the guards of two CASE expressions overlapped, which TLC
resolves in the order written and the logic leaves open; the source has an if chain, and
so has the model now.

Only model-checked:

- liveness, which is out of the prover's reach: `AcceptedSettles`, `StopReturns`,
  `LifecyclesSettle`, `CallsReturn`, `ChannelDrains`, `AdaptersSettle`.

Every safety invariant and every action property of a passing run is a theorem.

## 6. Abstractions

- Payloads, formatting, logging, metadata and telemetry text are left out; sensors
  appear where their being called is the point (`CircuitBreaker`, `Sensor`) or
  changes the control flow (`Wire`).
- Channels of wires have at least one slot; a maxBufferSize of zero is not covered.
- container/heap, gRPC, QUIC, WebSocket, net/http, Kafka, S3, Postgres and the
  identity provider are external and modelled by how the code uses them: some heap
  order; a call that works, fails, or fails although it took effect.
- Timers are steps that may happen at any time, except where a property is about
  time, which is then a counter.
- A data race is explored where the outcome is one of a few values (slice headers in
  `Sensor`, appends in `Configuration`, load and store in `Meter`) and excluded where
  it is not (Restart of a wire against any other call).

## 7. Not modelled

- the NATS relay: under its build tag the package declares the same methods twice
  (natsrelay/receiving.go:147-193, config.go:59-105) and does not compile;
- generated protobuf code, the codec package, cryptography and TLS set-up, gRPC-Web
  beyond its defaults: conversions, or code of a library;
- builder, interfaces, constants, test helpers, the examples: no behaviour of their
  own;
- Load and LoadAsJSONArray of wire and conduit, display and percentages of the meter,
  key templates, parquet encoding, SQL text: formatting.

## 8. What is left

- The hypotheses of `SurgeSafe` (one wire), `StopIsQuiet` (one controlling goroutine),
  `SensorSafe` (fewer starts and trips than the counter can hold) and `LifecycleSafe` (the standard
  loop, for its last part) cannot be dropped: without them the property is false.
- Five hazards have no property; `PROJECT.json` says of each why.
