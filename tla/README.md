# A verification project for beet_esp

beet_esp is `no_std` firmware for the ESP32-S3 and for the Arduino Alvik robot
that carries one: a Bevy ECS application with an HTTP server and client, mDNS,
WebSockets and a serial link to the robot's STM32.  The TLA+ modules here model
its protocols, TLC checks them on small instances, and TLAPS proves every safety
property but one for all values of their constants.  Source paths are relative to the
repository; the crate is `src/src/`.

## 1. How the system works

One core, one embassy executor.  Two kinds of code run on it and never at the
same instant:

* **embassy tasks** - drivers that own hardware or sockets.  They yield only at
  an `.await`.
* **the ECS** - `esp_runner` (`esp32_plugin.rs:241`) is itself an embassy task
  that calls `app.update()` every 20 ms.  Inside it the schedule runs PreUpdate,
  Update and PostUpdate without an embassy await; asynchronous ECS tasks (route
  handlers, `world().with(..)`) are served inside it too.

So every race is between an *await* of one side and *whole frames or whole task
steps* of the other.  Everything that crosses the boundary goes through one of
three shapes of `esp32_utils/async_bridge.rs`: a latest-wins signal, a bounded
queue that refuses the newest item when full, and `AsyncBridge`, a queue of
exchanges each carrying a one-shot reply signal.

### Inventory

| component | source | state | operations | what can go wrong | correct when |
|---|---|---|---|---|---|
| command link | `alvik/driver.rs`, `alvik/systems.rs`, `scene.rs`, `alvik/scenes.rs` | components and their change flags, the flush systems' memory of what was sent, `ERRORED`, `ALVIK_OUT` (16), driver, UART write | component writes, reset, flush, bring-up, dequeue, write | full queue, bring-up commands racing queued ones, failed UART write, error raised at any time | robot ends at the component's value; an error leads to rest |
| status link | `alvik/driver.rs`, `alvik/systems.rs`, `alvik/events.rs` | snapshot, `ALVIK_STATE`, `ALVIK_EVENTS` (32), sensor components, masks, previous masks | decode a message, apply a frame's input, detect edges | coalescing, full queue, several masks in a frame | no reading lost, edges alternate |
| ucPack framing | `alvik/ucpack.rs` | 256-byte buffer | push, pop | noise, truncated frames, arbitrary read boundaries | no frame skipped, chunking invisible, no overflow |
| bridges | `esp32_utils/async_bridge.rs` | queue, one signal per call, the 16-slot task pool | call, cancel, recv/try_recv, reply, spawn | full queue, abandoned calls, out-of-order answers, pool exhausted | one answer per call, its own; no work for refused calls |
| runner and sleep | `esp32_plugin.rs` | `SLEEP_QUEUE` (8), timers | frame, sleep, timer | a pool slot per timer, also of an abandoned sleep; full queue | every sleep ends, no slot is lost |
| HTTP client | `net/http_client.rs` | `CLIENT_BRIDGE` (4), one serial driver | send, exchange | one stuck exchange blocks all | every request answered |
| mDNS | `net/mdns.rs` | `RESOLVER` (2), a task per server with `MDns` | resolve, answer lookups and queries | no task, task ends holding a lookup | lookups end |
| HTTP server | `net/http_server.rs` | facet, stop latch, accept loop, `SERVER_BRIDGE` (4) | start, accept, dispatch, stop | started before the network, dropped at any point | no orphan loop, no foreign response |
| WebSocket client | `net/socket_client.rs` | `CONNECT_BRIDGE` (2), two channels (8), one task per connection | dial, handshake, pump, send, close | silent peer (the socket's 30 s timeout), bytes behind the handshake, cancelled select branch, errors | order kept, connects end, ends reported once |
| mDNS browser | `net/mdns_browser.rs` | socket, `PACKETS` (8), interval | start, query, receive, requery, drain | socket that takes no multicast, dropped datagrams, chatter | all hosts found |
| start-up and tables | `esp32_plugin.rs`, `net/mod.rs`, `alvik/driver.rs`, `utils/led.rs`, `main.rs` | non-send resources, task pool (16), socket set (7 or 6) | start-up systems, drivers started, sockets opened | a claim in the wrong stage, a full table | start-up never panics, a table only when it is really full |
| Wi-Fi station | `net/mod.rs` | link, address | connect, back off, disconnect | link lost at any time | consumers wait |
| wall clock | `esp32_utils/clock.rs` | anchor, `SYNCED`, loop | ask, answer, time out, retry, resync | late, lost and bad replies, oscillator drift, 32-bit seconds | accurate, set again |
| perceive-act body | `extra/perceive_act_body.rs` | drive, `DriveStep` | drive request, expiry, reset, RC | two awaits in one handler, stale step | every command is bounded and runs its time |
| script leaves | `scripting/mod.rs`, `alvik/scripting.rs` | `ScriptState`, drive | gather, evaluate, apply | world changes during the evaluation, overlapping ticks | no lone tick lost, at rest after a clear |
| default scene | `extra/default_scene.rs`, `scene.rs` | loaded scene, `DefaultSceneLoaded` | push, clear, default load | a load that fails, a host that is faster | host wins |
| not modelled | see section 7 | | | | |

Interaction: route handlers and scripts write Alvik components, the command link
carries them to the STM32; the decoder feeds the status link; the HTTP server
dispatches requests to the ECS over a bridge, the ECS sends requests over
another, whose driver may need a third (`RESOLVER`) served by a task that lives
inside a *server's* loop.  Drivers, timers and connections take slots of one
task pool, and everything that talks over UDP or TCP a socket of one socket set.
Drive requests, RC commands, scripts and resets write the same drive component.

## 2. Modules

| module | models | composes |
|---|---|---|
| `AlvikCommandLink` | the command link; `MCAlvikCommandLink` is its instance | |
| `AlvikStatusLink` | the status link | |
| `AlvikLinkProofs` | the invariants of both links | |
| `UcPackDecoder` | the frame parser as the driver uses it, the frame on the wire; `MCUcPackDecoder` | |
| `UcPackCodec` | crc8, the codes and fields of commands and statuses; checked in the instance of the decoder | `UcPackDecoder` on real bytes |
| `UcPackDecoderProofs` | no overflow, no skipped frame, chunking; every command and status read back; crc8 against a damaged byte | |
| `RequestReply` | abstract: what a bridge promises | |
| `AsyncBridge` | a bridge with either responder | refines `RequestReply` |
| `AsyncBridgeProofs` | type correctness and the refinement | |
| `MdnsWire` | the mDNS packets built and scanned | |
| `ClientResolver` | HTTP client and mDNS resolver; `MCClientResolver` adds `MdnsWire` | two `AsyncBridge`s |
| `HttpServerLoop` | the servers | extends `AsyncBridge` |
| `HttpServerLoopProofs` | the servers on the bridge, and through it `RequestReply` | |
| `MdnsBrowser` | the service browser | |
| `MdnsProofs` | the client on its bridge, the resolver, the browser, the packets | |
| `SocketConnection` | one WebSocket connection | |
| `SocketConnectionProofs` | `Faithful`: both directions keep order and lose nothing | |
| `ExecutorPool` | the 16-slot task pool and who borrows from it | |
| `SntpClock` | the wall clock and the Wi-Fi station under it | |
| `NetworkTasks` | start-up of the firmware, its drivers and sockets | `ExecutorPool`, `SntpClock` |
| `NetworkTasksProofs` | the pool, the clock, and both within the firmware, which halts only with a table really full | |
| `PerceiveActBody` | bounded drive commands | |
| `SceneScripts` | scenes and script leaves; `MCSceneScripts` is its instance | refines `PerceiveActBody` |
| `SceneScriptsProofs` | the safety of both, and the refinement | |

A module that another extends, or that a proof is about beside another, names
its specification after itself (`StatusSpec`, `ServerSpec`, `PoolSpec`).

### How state and actions correspond to the code

**AlvikCommandLink.**  A *slot* is one thing a command sets (left wheel, right
wheel, drive, servos, LEDs).  `comp` is the slot's component; `changed` is
bevy's change flag for the two systems that use it, `last` the `Local` of the
two that compare; `Flush(s)` is one system in PostUpdate, `Send` is `Queue::send`
with the discarded error.  `PowerOn`, `HandshakeDone`, `WriteInit` and
`BringUpDone` are `bring_up`; `Dequeue`, `Written` and `WriteFails` one turn of
`run`, split at the UART await.  `lost` records the slots whose newest command
was refused or not written.  A reset stops the motion slots, blackens the RGB
LEDs and leaves the servos: what of an LED setting is left, the illuminator and
the built-in LED, is the constant `Blackened`.  The two writers an argument about
safety is about are `TriggerResetOnError` (the flag, consumed once per Update) and
`AppReset`.
Every step of the driver has the guard `frame = "idle"`: no embassy task runs
inside `app.update()`.

**AlvikStatusLink.**  `Continuous` folds a message into `snapshot` and publishes
it; `BitMessage` and `FirmwareMessage` go to the queue.  `Shown` is what of a
snapshot reaches the components: all but the measured velocity.  `PreUpdate` is
`apply_status` followed by `detect_events`, one action because nothing runs
between them.  A message is the set of snapshot fields it overwrites, so fields
shared by two messages interfere as they do in the code.  `AnnounceFirmware` is
the end of `bring_up` with the event it queues; `Queued(k)` are the places of
the queue that hold a mask of kind `k`, of which a frame keeps the last
(`Drained`).

**UcPackDecoder.**  `Push` and `ReadPushed` are the driver's read of up to 128
bytes, `Resync`, `Emit` and `NeedMore` the ways through one iteration of the
loop in `pop`.  `stream` and `base` are history: they say where in everything
ever received the buffer begins.  The checksum is a parameter; what is proved
holds for crc8 and for a checksum that collides all the time.  `Framed` is
`Encoder::frame`.  `ReferenceFrames` parses a whole stream at once, by recursion
over the positions of the stream (`ParseStep`).

**UcPackCodec.**  Functions, no state.  A field is the sequence of its bytes, so
the layouts of `Command::encode` and `Status::decode` are widths and offsets.
`Dec` is the decoder on real bytes with crc8, of which only the reference
`ReferenceFrames` is used: `ChunkingIndependent` says that the streaming parser
computes it.  `Encode` is `Framed` with crc8.  crc8 runs eight rounds on one
value, the exclusive or of the checksum and the rest of the data byte, instead of
shifting both; the exclusive or is the sum of the weights of the bits in which its
arguments differ (`Xor`), written out because nothing can be proved in a module
that uses the community module `Bitwise`.  `CodecFaithful`, in `MCUcPackDecoder`,
joins its two properties.

**AsyncBridge.**  A call is a caller and a number, its input is its own
identity.  `Serial` chooses between `run_worker` and `drain_to_async`.  `Cell`
is the signal a call waits on, a fresh one each.  `RequestReply` has no queue,
tasks or signals; the refinement mapping reads the state of the work done for a
call off the bridge (`WorkOf`).

**ClientResolver.**  Its actions take the bridge's actions and add what the
driver and the mDNS tasks do at the same point of the code, e.g. `Resolve` is
the call on `RESOLVER` with both its results and the error reply to the client.
`StopServer` drops the mDNS task with the reply it holds: that is what a
`select` with the stop signal does to it.  `DropRequest` drops a sender that waits;
the driver serves its request all the same.

**MdnsWire.**  Functions, no state, under the names of the code.  The cursor of
`Reader` is an argument and a result; every `?` on a read past the end is a
guard `Has`.  A loop over the labels of a name is a recursive function of the
position, with its body in an operator (`ScanStep`, `SkipStep`); a loop over
questions or records is the function of the number of rounds that says where the
cursor stands then (`Questions`, `Skipped`, `Records`).  `Wire` serialises the messages of other hosts as RFC 1035 does, and
`Asks` and `Answer` say what such a message means, without a cursor.  A name that
uses a compression pointer matches nothing, which `mdns.rs:510` states.  `WireUnderstood`, in `MCClientResolver`, joins its
three properties.

**HttpServerLoop.**  The servers are the callers of `SERVER_BRIDGE`, whose
variables and actions are those of `AsyncBridge`.  `AskWorld` queues the closure that looks for the `Stack`,
`SpawnLoop` runs it, also when its facet has been dropped since; `EndFacet`
raises the latched `StopSignal`; `StopLoop` is `select` seeing it, which drops a
call in flight (`Cancel` of the bridge).  `TakeAnswer` is the loop receiving its
response.

**SocketConnection.**  `driver` is where `drive_connection` awaits.  `End` is
its return: a reply not yet sent gets the outcome, and the inbound sender is
dropped.  `HandshakeSucceeds(k)` takes the `k` frames that came behind the 101
response; `TakeOutbound` requires that the read is pending, since `select` polls
it first.  `Inactivity` is the timeout set on the socket (`socket_client.rs:213`):
after 30 s in which nothing arrives the stack closes it and the read or write
that waits fails.  It is the only thing that ends the handshake with a silent
peer.  `got` records what was read.

**ExecutorPool.**  `Sleep` is the hook of `install_beet_sleep`, `Abandon` the end
of an ECS task that sleeps: its timer task keeps the slot until the time is up. 
`SpawnTimer` and `SpawnConnection` are the two drivers that spawn a task per job,
`StartDrivers` is a system that starts drivers which never return. 
`SpawnDrivers` takes slots or panics.  `online` is the one wait of
`socket_driver` for the network, before which it leaves its queue alone.

**SntpClock.**  `task` is where `clock_loop` and `sync_once` await.  `Answered`
stores the anchor from the uptime *after* the exchange, as the code does;
`Failed` is every early return, `TimesOut` the `with_timeout`.  `Pass(d)` lets
the oscillator count 0, 1 or 2 seconds while one goes by.  `gap` records how far
uptime and true time were apart at a sync, so that `Behind` separates what the
code gets wrong from what the oscillator does.

**NetworkTasks.**  A *build* is the set of plugins an application has.
`RunSystem(s)` is one start-up system, in any order bevy's three stages allow:
`Claims` are the non-send resources it removes, `Reads` what it looks at,
`Starts` its drivers.  An `expect` that fails, a full task pool and a full socket
set set `panicked`, after which nothing happens any more; both tables may be as
small as the instance likes.  `open` are the sockets of tasks, `HeldSockets`
counts those of the stack itself (DHCP and DNS).  `Serves` is the server's task
opening the socket of its accept loop and that of the mDNS task joined with it.

**PerceiveActBody.**  `WriteDrive` and `StampStep` are the two awaits of the
drive handler, `Frame` is `expire_drive_step` with the removal it queues, and
`OtherDrive` and `Reset` the writers that know nothing of the `DriveStep`.

**SceneScripts.**  `Gather`, `EvalFails` and `Apply` are `ScriptState::step` on
either side of the awaited evaluation; `Push`, `Clear` and `LoadDefault` replace
the scene.  A run is named by the velocity it commands, so `drive = k` says who
set it.  `sole`, `late` and `served` are history.

**MdnsBrowser.**  `quiet` is the time since `with_timeout` was last called;
`Receive` and `Requery` are its two outcomes.  `due` are the hosts about to
answer the last query.

## 3. Runs

`tlc -config <run>.cfg <module>`; each takes at most two or three minutes.

| run | shows | bounds, and why they are enough |
|---|---|---|
| `link` | `InSync`, `ErrorResets`, `Converges` with writes that fail | a motion slot and a diffed slot (the two kinds of flush system), two values (of the LEDs, the illuminator with and without a colour), a queue of 2: it fills with one frame's commands while bring-up is still writing |
| `link_stop` | a reset that never reaches the robot (violation) | the same, without failing writes |
| `ucpack` | `NeverOverflows`, `NoFrameSkipped`, `ChunkingIndependent`, `CodecFaithful` | all streams of 10 bytes over four values, two of which are plausible lengths and one of which is also END; payloads of 0 or 1 byte; reads of 1 or 2 bytes; a buffer of 7, the smallest that the assumption allows, so that it does become full (5 bytes left of a frame, 2 read) and one byte left too many would be lost.  10 bytes hold a whole frame nested in the claim of a false START.  `CodecFaithful` is about the real bytes: every command kind filled with START, END or length bytes, every bit of it flipped, a long and a short frame behind it; every status |
| `status` | `StatusInv` (types, `NothingCoalescedAway`), `MasksFollow`, `LiftsAlternate` | three continuous messages, of which two share a field and one is the velocity that no component shows; two motion bits, a queue of 2 that fills between frames.  Touch masks take the same path without events that undo each other; the touch mask is empty here |
| `bridge` | `Implements`, `Answered` | three callers on a queue of 2, so that one is refused; two calls each, so that a late answer could meet a later call; the concurrent responder (the serial one is in `client`) |
| `client` | `ClientIsBridge`, `ResolverInv` (types, `ResolverNeverRefuses`), `AnsweredUnlessWedged`, `WireUnderstood` | three requests, any of which may be dropped, on a client queue of 1, two servers that start, fail to join and stop.  Packets of up to two questions or two answers, whose names are ours in either case, shorter, longer, another's or compressed; cut at every byte |
| `client_hang` | a lookup that never ends (violation) | two requests, one server |
| `body` | `SceneInv` (types, `ArmedWhileDriving`), `NoTickLost`, `RestAfterClear`, `OwnDuration`, `BodyImplemented`, `HostWins` | two requests that overlap, durations 0 to 2 frames, two runs that overlap on one leaf, one pushed scene besides the default one, two ticks counted; any number of RC commands, resets, clears and frames.  Requests and runs are symmetric |
| `pool` | `NetTypeOK`, `NoNeedlessPanic`, `ClockAccurate`, `SleepsEnd`, `KeepsSynced` | four builds that between them have every plugin, an LED plugin without LED, and both orders of two systems in one stage; a pool of 10 and 4 sockets, which hold everything of the small builds and one less than the build with the server, mDNS and WebSockets can need: both tables overflow, the pool also through abandoned sleeps; two sleeps under way at once, on a queue of 1; clocks that end before and after the rollover (25 and 28, with 26 = `Wrap`); two faults anywhere, one second of drift |
| `socket` | `Faithful` (types, `StreamFaithful`, `WireFaithful`) and `ConnectEnds`, `StreamEnds`, `SendEnds` | three messages each way, channels of 2 so that a send waits |
| `server` | `NoOrphanLoop`, `ServersShareBridge`, `ServerStarts` | two servers, two requests each, a queue of 1 so that one is answered 503 |
| `browser` | `BrowserInv` (types, `NothingVanishes`), `AllFound` | two hosts, buffers of 2 that chatter of 4 fills, one loss on the network |

The capacities of the code (16, 32, 4, 8) are smaller here so that full queues
are common; no property depends on their values, and the proofs of section 5
take any capacity.  Deadlock is checked except where the instance is finite by
its bounds: requests, streams or messages run out (`ucpack`, `bridge`,
`client`, `client_hang`, `server`, `socket`), the browser's task has ended,
everything a scene can do has been done (`body`), or the firmware has panicked
(`pool`).

## 4. Fairness

* **Frames tick for ever**: `esp_runner` loops without an exit.  Weak fairness of
  the schedule's steps (`FrameStep`, `BeginFrame`/`EndFrame`).
* **A driver step that is possible between two frames is not put off for ever.**
  `esp_runner` awaits a timer after each frame, and the executor polls every
  woken task before that timer fires again.  Each frame disables the driver's
  steps, so this is strong fairness in `AlvikCommandLink`, and in `NetworkTasks`
  of timers, of the clock's task and of the station.  The queues of the pool
  need only weak fairness, since a frame does not begin before they are drained.
* **A woken task is polled** (weak fairness of its steps).  No fairness is given
  to applications, to users (`PowerOn`, `StartServer`, `StopServer`,
  `StartFacet`, `EndFacet`), to a WebSocket peer, or to losses and errors.
* **What is bounded by a timeout ends**: DNS, TCP connects and exchanges, the
  bring-up handshake, `do_resolve`.  The reads of a WebSocket
  handshake end by the timeout of the socket, so `Inactivity` is fair there; a peer
  that sends its answer byte by byte for ever is left out.  On an open connection
  the peer can keep the timeout from expiring, and `Inactivity` gets no fairness.
  What has no timeout gets none: the wait for an mDNS task in `resolve`.
* A dispatch of the HTTP server and a worker of `bridge` are assumed to return;
  `HttpServerLoop` says so, and a handler that hangs does block its server.
* **The time server** answers and time passes; what fails is bounded by
  `MaxFaults`, and no fairness is given to a fault.
* `body` has no liveness property and no fairness.
* A firmware that has panicked does nothing: `SleepsEnd` is about one that has not.
* `Converges` assumes besides that UART writes do not fail for ever.

## 5. What is proved

For every value of the constants that satisfies the named assumption.

* **`LinkTypeCorrect`, `LinkInSync`** (`LinkAssumption`: slots among the five,
  `Rest` a value, a capacity of at least 1, any bring-up sequence).  `InSync` is
  not inductive: a servo or LED value may be changed and changed back without a
  flush, so what was sent last, not the component, is what the link must settle
  at.  `LinkInv` says it of `Sent(s)` - the component of a motion slot that is
  not marked changed, `last[s]` of a diffed one - and that a command is only
  written by the pump.  One lemma per effect on `WillSettleAt` (append to the
  own or to another slot, dequeue, write, bring-up write) carries the steps.
* **`NoReadingLost`, `MasksFollowRobot`, `LiftsTakeTurns`** (`StatusAssumption`:
  the lift bit is a motion bit other than upright, the absent snapshot is none).
  `StatusLinkInv` adds that the mask remembered for the edges is the one of the
  component, without the lift bit before the first frame.  What a queue yields
  when it is drained is the mask at its greatest place of that kind
  (`MaxOfPlaces`); an event that is queued becomes it, one that is refused leaves
  it (`EnqueueDrains`), and draining changes nothing (`DrainedBits`).
* **`DecoderTypeCorrect`, `DecoderNeverOverflows`, `DecoderSkipsNoFrame`**
  (`DecoderAssumption`: the sizes satisfy `FrameMax - 1 + ReadMax <= Cap`, in the
  code 28 + 128 <= 256).  `DecoderInv` adds: at most `FrameMax - 1 + pushed` bytes
  are buffered, the buffer is the stream from `base` on, and every position passed
  over was rejected for good - a bad head stays one, a complete frame with a bad
  trailer stays one however the stream goes on - or lies within a delivered frame.
* **`DecoderIgnoresChunks`**.  That the frames popped are those of the reference is
  not inductive in the middle of a stream, where the reference may read on.
  `Ahead` says it of every stream that goes on from the one received: its parse is
  the frames popped, followed by its parse from `base + 1`.  `Resync` and `Emit`
  keep it because verdicts are final, and at the end of a drain nothing is left to
  parse (`DrainedOut`).  The reference is a recursive function, so that it exists
  has to be proved: the least number of positions from the end for which there
  were no parse would have a predecessor (`ParseExists`), and two parses would
  first differ somewhere (`ParseUnique`).
* **`FramesRoundTrip`**.  For every checksum: a frame as the encoder writes it,
  followed by anything, is parsed as that frame followed by what the rest is
  parsed as.  So a line of frames is read back frame by frame, and by
  `DecoderIgnoresChunks` the driver pops just those.
* **`CommandRoundTrip`, `StatusRoundTrip`, `DamagedFrameRefused`** (`RealBytes`: the
  constants are the byte values, START, END, payload limit and crc8 of the code).
  The first two follow from `FramesRoundTrip` once the fields are placed: the join
  of any fields has each of them where the widths before it end (`FlattenFields`);
  no command has more than four fields of four bytes, and the fields of a status
  have one width and follow each other (`LayoutIs`), which is where
  `Status::decode` reads them.  The third is about crc8.  The exclusive or can be
  undone (`XorCancels`), a round that adds the polynomial sets the highest bit and
  the others clear it (`CrcBitTells`), so eight rounds take different bytes to
  different bytes; hence two checksums that differ after some byte differ ever
  after, and one changed byte changes the checksum (`CrcTells`).  A frame with a
  changed byte has a bad head, a bad END or a bad checksum, and that verdict stands
  whatever follows.  LEN is excluded because the checksum does not cover it.
* **`BridgeTypeCorrect`, `BridgeImplements`** (`BridgeAssumption`: a capacity of
  at least 1).  `BridgeInv` adds: no exchange is queued twice, a queued exchange
  belongs to a call that is open or cancelled and whose work has not begun, a
  running task has raised no signal, a signal and a result hold the answer to
  their own call, and there is a result exactly when a call is answered.  The
  refinement has one lemma per action; `Take`, `Finish` and `Receive` become
  `StartWork`, `FinishWork` and `Deliver`.
* **`ServersAreCallers`, `ServersGetOwnResponses`, `ServerTypeCorrect`,
  `ServerSpawnsOnce`** (`ServerAssumption`, `BridgeAssumption`).  Every step of a
  server is a step of `AsyncBridge` or leaves it alone; with the invariant of the
  bridge, which the servers therefore keep, it implements `RequestReply`.
  `AwaitsOne` says that a loop which waits has one open call, and `SpawnsOnce`
  that a request for a loop is pending only while there is none: the closure is
  queued once per facet, so the accept loop of a server is unique.
* **`ClientServesBridge`, `ResolverSafe`** (`ResolverAssumption`: both bridges', and
  a lookup is told from none).  `ResolverNeverRefuses` needs the life of the one
  lookup the driver waits for: `LookupInv` says that it is queued, held by one
  mDNS task, or answered, and never two of these (`OneLookup`, `Holders`), or lost
  with the task that held it; that a driver that is not waiting has none under
  way; and that it has one job at most (`DriverJob`).  So `RESOLVER` is empty
  whenever the driver calls it.
* **`MessageUnderstood`, `CutSaysNoMore`, `PeersFindEachOther`,
  `LookupsUnderstood`** (no assumption on constants).  The first: for every
  message of RFC 1035 - any number of questions and records up to 65535, names of
  any labels that end in the root or a pointer, data of any length - every label
  and whatever bytes follow, `is_query_for` says whether the message asks for the
  label and `parse_answer` yields the first address it holds for it.  The second:
  a packet of any bytes at all, cut anywhere, is a query only if the whole is, and
  yields the whole's address or none.  The third: what `build_query` and
  `build_answer` write for any label and address is understood by another device,
  and neither is taken for the other.  `WireUnderstood` follows for its samples.
  The scanners are recursive functions, so that they exist and are unique is
  proved first, once for a function that counts up and once for one that moves on
  in the packet (`LeastNat`: a least counterexample).  A name is then read from its
  end backwards, one label per step (`CountDown`), the sections of a packet
  forwards, whose places are those of what `Joined` joins.  For a cut packet, both
  cursors agree until the cut one has nothing left, after which it finds nothing.
* **`NoAnswerVanishes`** (`BrowserAssumption`).  `BrowserInv` is inductive as it
  stands; the lemmas are about what `Append`, `Tail` and a drain do to the set of
  hosts in a queue.
* **`BodyOwnDuration`, `SceneImplementsBody`, `SceneSafe`, `TicksKept`,
  `RestsAfterClear`, `HostKeepsScene`** (`BodyAssumption`, `SceneAssumption`: the
  velocities, scenes and runs are told apart).  `BodyInv` adds to
  `ArmedWhileDriving` that a velocity is in force only after its handler wrote
  it, and that while a lone command's is, no other command is under way, no step
  is there before its own, and what it has run and what its step has left make
  up its duration.  `HostInv` adds that a load is fresh until it is
  pushed, so that a scene cannot come back under a run, and that the default
  scene has had its attempt once a frame has served the route tree.  Every step
  of `SceneScripts` is a step of `PerceiveActBody` or leaves it alone, from which
  `SceneSafe` and the durations follow without another induction.
* **`ClockIsAccurate`** (`ClockAssumption`: the device is switched on between
  1970 and the rollover and off before the wrapped seconds look like a date
  again).  `ClockInv` adds that seconds under way which will be accepted were the
  true time at a moment since the request, and that the anchor is at most a
  `Timeout` off the gap of its sync.
* **`PoolLendsExactly`** (`PoolAssumption`).  `PoolInv` adds that what is queued is
  in the state of waiting and queued once, so a slot taken for the head of a queue
  is for one holder more.
* **`NetTypeCorrect`, `NetClockAccurate`, `FirmwareHaltsOnlyWhenFull`**
  (`NetworkAssumption` and the two above).  The parts keep their own invariants
  beside everything else and `Provided` says which resources are still there before
  each system.  `FirmwareHaltsOnlyWhenFull` takes tables of any size, with one
  hypothesis, `Pool >= 8`, the slots of the drivers that start-up itself spawns (16
  in the code).  `Booting` says that before start-up is over nothing else has a slot
  or a socket; so the systems of any build fit (`BootFits`), and each finds what it
  claims.  Afterwards the slots in use are exactly those of live tasks, by
  `PoolTypeOK`, and a panic of the pool means that they and the refused one are more
  than it has (`OverfullHalts`).
* **`SocketFaithful`** (`ConnectionAssumption`).  `SocketInv` adds that a peer's
  Close is its last frame, hence the last of any read, that until the driver ends
  the stream has yielded exactly what was read, and that the wire, the frame
  being written, the channel and the waiting send are one pipe which holds, in
  order, everything sent so far.  Every step of the driver leaves the pipe as it
  is; only the world appends to it.

Only model-checked: all liveness (`ErrorResets`, `Converges`, `Answered`,
`AnsweredUnlessWedged`, `SleepsEnd`, `KeepsSynced`, `NoOrphanLoop`,
`ServerStarts`, `AllFound`, and `ConnectEnds`, `StreamEnds`, `SendEnds`), which
needs fairness and is out of the prover's reach; and `CodecFaithful`.  Its second
half is an instance of `StatusRoundTrip`.  Its first half flips the bits of LEN
too, and what is parsed then depends on the bytes that happen to stand where the
wrong length points: it holds of the frames that the run builds and could not hold
of every line, since a payload may contain the bytes of a valid frame.

## 6. Where the code and its documentation disagree

Shown by a run:

1. `client_hang` / `LookupEnds`.  `mdns.rs:93` and `http_client.rs:110` say a
   lookup without a running mDNS task fails; `resolve` awaits
   `RESOLVER.call` (`mdns.rs:97`) without a timeout, so it never returns, and
   the one client driver and every later request wait behind it.
2. `link_stop` / `ResetStopsRobot`.  `scenes.rs:48` and `scene.rs:106` promise a
   safe stop; when `ALVIK_OUT` is full the reset's command is refused, the error
   is discarded (`systems.rs:45`), the change flag is cleared, and the robot
   keeps the older command.

Found while modelling; the properties are stated for the case in which the code
keeps its word, and these are the other cases:

3. `perceive_act_body.rs:25` calls each command a bounded step of its own
   duration.  When commands overlap, the previous `DriveStep` can expire between
   the two awaits of the handler and zero the new velocity early
   (`OwnDuration` is about commands in `alone`).
4. `async_bridge.rs:191` says that 16 slots leave comfortable headroom.  Up to 8
  drivers never return (tick, sleep driver, Wi-Fi connection and network loops, HTTP
  client, socket driver, Alvik driver, an accept loop); the wall clock and every mDNS
  browser add one, and every WebSocket and every running timer takes one more.
  Nothing bounds the timers: `sleep_driver` empties `SLEEP_QUEUE` (8) between two
  frames, so that further sleeps are queued while its timers run, and an abandoned
  sleep keeps its timer to the end.  The socket set has 7 entries; with every feature
  in use DHCP, DNS, an accept loop, the HTTP client, the mDNS task, a browser, a
  WebSocket and an SNTP attempt need 8: the count at `net/mod.rs:211` leaves out DNS,
  the browser and the clock.  A full table is a panic; the run reaches both, with
  small tables, and `NoNeedlessPanic` says that nothing but a table that is really
  full causes one.
5. `mdns_browser.rs:239` says the next query recovers a dropped answer, but
   `with_timeout` (`mdns_browser.rs:233`) starts anew with every datagram: steady
   traffic on port 5353 puts the query off for ever (`AllFound` is about chatter
   that ends).
6. `types.rs:46` says the level default of `EdgeState` keeps the first report
   from firing a tilt.  The first frame stores the initial zero mask
   (`events.rs:112`), so it does fire one.
7. `alvik/scripting.rs:41` says an output field that is left out means no change.
   The fields default to zero and are all applied, so a script that sets only an
   LED stops the robot (`Apply` writes `Stopped`).
8. `main.rs:24` says `/clear` despawns the scene and resets.  An output that is
   being evaluated at that moment is written to the robot after the reset and
   nothing stops it (`RestAfterClear` says it is the only one).
9. `esp32_utils/clock.rs:13` says the task re-syncs.  From 2036 on, every answer is
   refused, since the 32-bit seconds start anew, and the clock runs on from its
   last anchor (`KeepsSynced` is about behaviours that end before).

Behaviour worth knowing, about which the documentation is silent: a robot that is
switched off and on again is not brought up again; touch and motion messages
during bring-up are dropped; a press and its release within one frame fire no
event; a sleep on a full queue returns at once; a scene pushed in the very frame
in which the route tree appears is replaced by the default one; of two overlapping
ticks of one leaf the earlier output is lost; a resync may turn the wall clock
back by up to the time of one exchange and the drift since the last; a static IP
configuration has no DNS servers, so no host name, `pool.ntp.org` included, is
resolved under it.

## 7. Not modelled

* The values of the fields of the Alvik protocol: units, floating point, and the
  sign that carries the battery's charging flag.  A frame with a known code and a
  short payload, whose missing bytes are read as zero, is not sent by the robot.
* A power cycle of the robot after bring-up, and touch and motion messages
  dropped while bring-up waits: both are listed as hazards; the code handles
  neither, so there is nothing it promises.
* The LED half of a script's output: it takes the same two accesses as the drive,
  and the same flush as every component of the command link.
* TLS (external library), QuickJS (external C code), radio and peripheral
  configuration, health and memory reports (read-only), LED colours and timing
  codes, the hardware random generator, the host-side flashing tool, the on-device
  test runner, macros, examples and templates: no protocol state of their own.
* Time is counted in frames, seconds or abstract units; the fraction of an NTP
  timestamp and the rounding of durations are left out.
* Which of two sockets bound to one UDP port gets a datagram is decided by the
  network stack.

## 8. Plan

Done, in this order: command link, decoder, bridges with their abstract
specification, status link, the compositions on bridges, connection, browser,
body and pool, the two wire formats as functions; then scripts and scenes, the
wall clock, start-up with its two tables, and the proofs about all four and about
the connection.

The proofs now cover every safety invariant and refinement that a run checks but
`CodecFaithful`; of the packets of the name service every message, and of the Alvik
link every command and status, instead of samples.  Left: a statement about the
reserved label lengths, which the two scanners treat differently and no message
contains.
