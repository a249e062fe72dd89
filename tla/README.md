# RemoteControl in TLA+

A verification project for RemoteControl: a Windows PC (Rust, `src/server-pc`)
that streams its screen and sound to an Android phone (Kotlin,
`src/app-android`) and takes its touches, text and files, over the local
network or through a relay (Rust, `src/relay`). The modules model the code's
control: every task, thread, queue, table and file operation the properties
below depend on, and the orders in which they can interleave. TLC checks them
on small instances; TLAPS proves the most important invariants for every value
of the constants.

`tlc -config M.cfg M` runs the model of module `M`, where there is a config of
that name (`RelayHub` has a second one, `RelayHub_live.cfg`; the modules without
one run as part of another, section 2); `tlapm M.tla` checks the proofs of a
`*_proofs` module.

## 1. Inventory: the system's parts

```
   phone                              relay                          PC
 gestures, macros ─┐                                        ┌─ stream threads ─ encoder
 text field ───────┤  WebSocket    client_loop  host_loop   │  (capture, audio)
 transfers ────────┼────────────────►  │ ▲        │ ▲  ◄────┤  run_connection per phone
 players ◄─────────┘      or LAN       └─┴─online─┴─┘ tunnel│  pairing, trusted devices
                                         registry file      └─ bridge ◄─ local HTTP page
```

| part | state | operations | talks to | what is hard | what makes it correct |
|---|---|---|---|---|---|
| relay: hosts and phones (`relay/src/main.rs`, `host_loop`, `client_loop`) | the `online` table, an instance counter, per loop: the map of phones, `to_host`, per phone the `fast` and `bulk` queues, cancel permits, two tasks | accept, swap in, displace, notify, drain, route, send, ping, time out, clean up | tunnel frames to the PC, raw frames to the phone | two host loops of one PC at once; a notification to a loop that is not waiting; one reader blocked on one phone's queue; two tasks that wait for each other's channels | the table names a loop that runs; nothing that must be delivered is lost or overtaken; the PC learns of every phone that left; loops end |
| relay: registration (`host_register`, `persist_hosts`) | the registry in memory, `hosts_file` and its temporary | register, persist (create, write, sync, rename), load | HTTP from the PC | persisting outside the lock; crash between two file operations; one operation failing | an acknowledged PC survives a restart; the file is never half-written |
| PC: tunnel (`relay_client.rs`, `lib.rs`) | one reader and one writer task per tunnel, the map of phones, a pump and a `run_connection` per phone, bounded and unbounded queues | dial, demultiplex, pump, send, tear down, dial again | relay; `run_connection` | tasks of an old tunnel beside those of the new one; a sender kept in a map keeps a task alive; back-pressure | a phone's connection ends when the phone or the tunnel is gone, and nothing stays in the map |
| PC: handshake and trust (`connection.rs`, `pairing.rs`, `trusted_devices.rs`); phone: dialling (`ConnectionClient.kt`, `TrustedServers.kt`) | the one-shot code and key, devices in memory and on disk; the phone's socket, state, pending fields, stored servers | scan, dial, fall back, Hello, TrustedHello, Welcome, reject, rotate, expire, forget, restart | WebSocket, file | two locks for one decision; messages of a socket already left; fields that outlive the dial they belong to; a save that fails | a code pairs once; a token given is a token kept; every dial comes to an end |
| PC: files to the phone (`file_send.rs`, `qr_server.rs`, `connection.rs`) | the bridge's slot, spool files, table of outbound files, cancel flags | upload, dispatch, start, read, push, cancel from three sides, complete, fail, drain | browser, session, phone | displaced sessions; a command queued behind a loop that breaks; a streamer blocked in a queue | a spool file has an owner; nobody unlinks it under a streamer; the phone gets all chunks or is told |
| PC: files from the phone (`connection.rs`); phone: upload threads | open files with counts, Downloads; a thread per upload, cards | begin, chunk, last, abort, unlink at the end | WebSocket | late write errors; find-then-create; a cancel against the last chunk | complete means whole; unfinished files go; each upload has its own file |
| PC: streaming (`stream.rs`, `connection.rs`, `ws_server.rs`, `capture/dxgi.rs`) | threads, packets channel, stop flag, key frame flags, one desktop duplication | start with retries, capture, encode, send, drop, ask for a key frame, stop | encoder, session's queues | threads blocked in a full channel; one of two threads failing; a second stream while the first still holds the screen | the screen is freed; key frames asked for come; a failed stream ends |
| PC: asynchronous encoder (`nvenc_mft.rs`) | pending inputs and outputs, the key frame flag | encode, drain events, force key frame | the transform | requests that come when there is nothing to give | the transform is never over- or underfed |
| PC: input (`input.rs`); phone: gestures, macros, text (`StreamSurface.kt`, `AppViewModel.kt`, `KeyboardOverlay.kt`) | the gesture's stage, last tap; running macros; the mirrored text | touch, drag, second finger, lift, double tap; press, tap, release; difference of texts | WebSocket, Windows | gestures and macros interleave; coroutines cancelled; the link breaks in between | what is pressed is released; clicks land; both fields agree |
| phone: video (`H264Player.kt`, `StreamSurface.kt`, `AvSyncClock.kt`, `OpusPlayer.kt`) | flow, pending frames, available buffers, codec, surface, render thread; origins of two clocks | emit, collect, feed, buffer available, output, re-anchor, show | MediaCodec | surface and frames in any order; buffers that overflow; two threads that show frames | order, a start at an IDR frame, no waiting frame beside a waiting buffer, frames shown when due |
| the protocol (`protocol.rs`, `Protocol.kt`; `TunnelFrame` in `relay_client.rs` and in `relay/src/main.rs`) | none of its own; two declarations of every message and layout, kept alike by hand | write, read, pack, unpack; drain three queues, sort into two, drain those | whatever is said | two languages with different rules for what may lack or be null; numbers packed into another field; five queues and two priorities in a row, and two ends that answer while they read | nothing one end writes is refused by the other; what must be delivered is, in its order; nothing deadlocks |
| phone: files and cards (`ConnectionClient.kt`, `AppViewModel.kt`) | `incomingFiles`, cards, timers, the flow of events | begin, chunk, finish, fail, cancel, disconnect, collect, expire | reader thread, main thread, PC | a map used by two threads without a lock; a flow that drops | no partial file stays; cards tell the truth and settle |

Left out, with the reasons: section 8. `PROJECT.json` lists every part with its
source files, and which of them are modelled, in part or not at all.

## 2. The modules

One module per part; each opens with a comment on what it abstracts.

| module | code | state and actions |
|---|---|---|
| `RelayHub` | `host_loop`, `client_loop`, `client_ws` | A host_loop is its instance number, a client_loop its uuid; `hpc`/`cpc` say at which await each stands, `hwriter`/`cwriter` where its writer task does. One action from one await to the next; what happens under one lock is one step. Frames are 0 (droppable) or the n-th must-deliver frame. |
| `SessionSlot` | – (abstract) | A slot per key, taken by a newcomer at once, freed only by its holder. |
| `HostRegistry` | `host_register`, `persist_hosts`, load | Handlers that run at once on one temporary file, one action per file operation; paths, inodes, open handles, what is synced; restart and power loss. |
| `HostTunnel` | `RelayClient::run`, `run_one_session`, `spawn_client`, the supervisor's loop | A tunnel per dial with its reader and writer, a phone per uuid with its pump and its `run_connection`. |
| `Pairing` | both ends of the two handshakes | A dial per WebSocket of the phone; the PC's store in memory and on disk; the phone's fields one variable each. |
| `FileSend` | `FileSendBridge`, HTTP handlers, `run_connection`'s part, streamer tasks | A transfer has its HTTP request, its spool file and its streamer; a session its loop, command queue, table, two queues and link. |
| `FileUpload` | upload threads, `handle_file_*`, `unique_dest_path` | An upload has its thread and card, a session its wire and its open files; Downloads is a map from suffixes to files. |
| `ScreenStream` | `start_stream`, its two threads, the session's use of it | A stream per number with two thread states and a packets channel; who holds the screen; the two queues to the phone. |
| `MftEncoder` | `encode`, `drain_events`, `force_keyframe` | Pending inputs, requests, the transform's contents. Runs in `Wire`. |
| `VideoPlayer` | `_frames`, the stream's composable, the input half of `H264Player` | Flow, collector, pending frames, input buffers, codec, surface. Runs in `FrameClock`. |
| `FrameClock` | the output half of `H264Player`, `AvSyncClock`, `OpusPlayer`'s publishing | `VideoPlayer` with time, the audio's reference, the player's own origin, frames the handler holds and frames shown. |
| `TextMirror` | `KeyboardOverlay`'s mirrored field, `type_unicode` and `vkey` | The committed text, the difference to the last one as keys and text, the text in the PC's field. Runs in `Wire`. |
| `Protocol` | `ClientMsg` and `ServerMsg`, in Rust and in Kotlin | A table per end and direction: each message's fields, their types, which may be null or lack; what an end may write, what the other reads. |
| `Framing` | the 12-byte header and its builders and parsers, `TunnelFrame` | Operators on byte sequences, over bytes of `Base` values and ids of `IdLen` bytes. |
| `Lanes` | – (abstract) | What the PC's way to a phone promises of text, chunks, and pictures or sounds. |
| `Wire` | the writers and readers of a whole session: `run_connection`'s queues, the LAN writer, the pump, `host_loop`'s and `client_loop`'s queues, the phone's `onMessage` | Every queue a message goes through, as bytes, by either route; what each end said and took. A behaviour has one of four scenes: the screen, files in both directions, typing, or any message. |
| `RemoteInput` | the gesture loop, `runMacro`, `dispatch` | A gesture's stage, a pc per macro, the wire, the keys that are down on both sides. |
| `PhoneTransfers` | `incomingFiles`, `_fileEvents`, `AppViewModel`'s cards | A pc of the reader thread per download, files, events, cards, timers. |

`Relay_proofs` (of `RelayHub` and `HostRegistry`), `Pairing_proofs`,
`FileSend_proofs`, `ScreenStream_proofs`, `RemoteInput_proofs`, `FrameClock_proofs`
(of `VideoPlayer` too), `Transfers_proofs` (of `FileUpload` and `PhoneTransfers`) and
`Wire_proofs` (of `MftEncoder`, `Framing`, `Protocol` and `Wire`) hold the theorems.
Modules whose proofs share a module use different names: `HostRegistry`'s
specification is `StoreSpec`, that of `PhoneTransfers` `PhoneSpec`, and so on.

How they compose. `SessionSlot` is implemented twice: by the relay's `online`
table (`RelayHub!OnlineIsSessionSlot`) and by the PC's bridge
(`FileSend!BridgeIsSessionSlot`), which borrowed the instance trick from it.
`Lanes` is implemented by `Wire` (`Promise`, `LanesKept`), whichever the route.
`FrameClock` extends `VideoPlayer`: its steps are the player's, with what they do
to the clock, and those of the output half. `Wire` extends `MftEncoder` and
`TextMirror`, whose steps put messages on the wire and take them from it, and
`Framing` and `Protocol`, which say what the messages are made of.

Most modules hold both ends of a conversation, because that is where the
hazards are: `Pairing` (phone, PC, relay's close), `FileSend` (browser, session,
streamer, phone), `FileUpload` (phone's thread, PC's loop), `ScreenStream`
(threads, session, queues), `RemoteInput` (phone, PC), `Wire` (PC, relay,
phone). Where a part's behaviour is another module's subject it is kept as far
as that module's properties need it: `HostTunnel` sees a `run_connection` that
takes, sends, streams and returns; `PhoneTransfers` sees an upload as what its
card is told; `ScreenStream` sees the relay as two queues whose order is not
kept; `Wire` sees both ends authenticated and no link that breaks.

Conventions. An action is named for the function or branch it models and its
comment quotes what the code does. The few operators marked "Mutated" beside a
definition are plausible slips of that definition, kept next to it to show
that the properties notice them; no specification uses them.

## 3. The runs

All pass; the properties are the INVARIANTS and PROPERTIES of the config. Sizes
are distinct states.

| config | what it shows | states |
|---|---|---|
| `RelayHub.cfg` | Two host_loops of one PC, two phones, one of which is sent frames and pings, links that wedge and die. A loop that runs is published or told to stop (`LiveSessionPublished`), `online` implements the slot. Must-deliver frames are delivered in order, none skipped (`BulkInOrder`). The PC never keeps a phone that is gone with no ClientClose on its way (`NoOrphanSession`), and no reader routes to it (`NoStaleRoute`). | 3.0 M |
| `RelayHub_live.cfg` | Under fairness: a phone's end reaches the PC, `client_loop` returns although its queues have other senders, and a phone attached to a displaced session leaves it. | 61 k |
| `HostRegistry.cfg` | Three PCs register, two of them at once; writes, syncs and renames fail; the relay restarts or loses power between any two file operations. A PC that has its token is registered afterwards, unless its own write was the one that failed or a power loss undid its rename or what was never synced (`AcknowledgedSurvive`), and the file is whole (`NeverHalfWritten`): both unless overlapping handlers left the file, until one that is alone repairs it, and the second unless a power loss met a file whose sync had failed. | 1.3 M |
| `HostTunnel.cfg` | Two dials, a phone. The connections of a tunnel that is gone end, those of a phone that is gone too. | 11 k |
| `Pairing.cfg` | Two dials over LAN and relay, two codes, a crash, every fault. A code pairs at most once, a token handed out is in the file or was revoked or lost with it, a welcome with the wrong signature takes no stored server and no connection from the user (`WrongKeyTakesNothing`), a fallback is dialled once, every dial ends or was given up by the user. | 458 k |
| `FileSend.cfg` | One file, two sessions. A spool file on the disk has an owner that will unlink it, except on the ways section 7 names; it is never unlinked under a streamer that can still finish; the phone gets the chunks in order and a file it is told is complete is whole; every send ends; the bridge implements the slot. | 153 k |
| `FileUpload.cfg` | Two uploads of one name. No partial file stays and complete is whole (`DownloadsWhole`); a card does not say failed for a file the PC keeps. | 123 k |
| `PhoneTransfers.cfg` | A download and two uploads, cancel, disconnect, link and disk. No half-written file stays and complete is there (`ReceivedWhole`); cards settle. | 1.44 M |
| `ScreenStream.cfg` | Two streams one after the other, all four ways to fail. The encoder may keep frames back, and hands out none, one or two packets in a turn. A key frame asked for is still asked for somewhere until a frame has taken it in, StreamStarted comes first on the LAN, a stream without a receiver frees the screen. | 53 k |
| `FrameClock.cfg` | Four frames, IDR at 1 and 3, two surfaces, a codec that may fail, an audio that seeds and refines the clock or has left it set. A codec starts with an IDR frame and gets all that follows, but for what a full buffer pushed out (`Decodable`); a frame is posted or shown once, and never left to a later codec (`PostedOnce`); it is shown when its sound is heard (`InSync`); all are shown (`EveryFrameShown`). | 656 k |
| `RemoteInput.cfg` | Three gestures, two macros, a link that ends, a surface that goes. What was pressed is released in order, a double click lands where the first click did, nothing stays down. | 563 k |
| `Wire.cfg` | By the LAN and by the relay, every queue full at one message: pictures and sounds with a request for a key frame, a file in each direction, edits of the mirrored text with a character of two UTF-16 units, any message of the protocol with any of its optional fields. The lanes are kept, nothing written is refused by its reader, the PC's field follows the phone's until a wide character is deleted (`Mirrored`), the transform, which asks when it likes, and `pending_inputs` do not wait for each other unless a request it made while `encode` polled was forgotten (`NeverStarved`), all that must arrive does. | 461 k |

Every component's module has a `TypeOK` (`StoreTypeOK`, `PhoneTypeOK`); no config
lists it (`FrameClock` and `Wire`, which put modules together, have those of what
they extend). For `RelayHub`, `HostRegistry`, `Pairing`, `FileSend`, `ScreenStream`,
`RemoteInput` and `VideoPlayer` it is proved, in the others it is stated for the reader and for
proofs, and holds on the same instance. The same is true of further properties
that are in no config: `PublishedSessionRuns`, `OneCapture`, `AbandonedIsStopped`,
`NobodyWaits`, `NeverOverfed` and `MarkedAsAsked` (proved); `DisplacedLoopStops`, `EndedIsForgotten`,
`UploadCloses`, `PlayerCatchesUp`, `RejectedIsForgotten`,
`LetterWithModifier`, `PressedOnce`, `OwnCard`, `FinishedCardsGo`,
`StreamerReturns`, `FailureEndsStream`. The temporal ones among
them need the module's `FairSpec`. What stands under "What the comments say, and
the code does not do", or after a comment that quotes the source, does not hold:
section 7.

Properties with exceptions. Some say "unless": the exception is a behaviour
the code has and no property could forbid, kept in a history variable or named
by an operator, so that it excuses that behaviour and no other: a read error
that ends a send without a word (`FileSend!Truncated`), a dial the user leaves
(`Pairing!Abandoned`), a devices file that a fault lost (`Pairing!lost`), a later
reconnect with a token of the PC's own (`WrongKeyTakesNothing`), a registry file
two overlapping handlers had their hands on (`HostRegistry!mixed`) or whose sync
failed before a power loss (`Torn`), a request for a key frame that a frame kept back
took into the encoder (`ScreenStream!kept`), a request of the transform made and
forgotten in one call (`MftEncoder!hasty`), a deleted character of two units
(`TextMirror!cutWide`), a write error
that comes with `flush` (`FileUpload!lost`), frames a full buffer drops
(`VideoPlayer!dropped`), a gesture cut off by the surface or a tap after a
drag (`RemoteInput!cutOff`, `strayed`), a cancel with the last chunk, an entry
between disconnect's loop and its clear, two transfers with one id, an event
pushed out (`PhoneTransfers!cancelled`, `late`, `overtaken`, `Alone`, `dropped`).

## 4. Bounds

- *Actors.* The hazards are between an old and a new holder of something: two
  host_loops, sessions, tunnels, dials, streams or uploads of one name. Three
  host_loops were run once as well, with one phone (5.5 M states), and in
  `RelayHub` the theorems cover any number. Of `RelayHub`'s two phones one is sent
  frames and pings (`Busy`); the other opens and closes beside it, so that the table
  of phones has two entries and `to_host` two phones' ends. That one phone waits
  behind another's full queue is in the model, and no property forbids it (section
  7). `HostRegistry` has three PCs so that two handlers that overlap have one after
  them that repairs the file; they are interchangeable (`HostSymmetry`; its
  properties are invariants).
- *Queues.* Capacity one or two: every sender meets a full queue, and two
  elements are enough for an order. The bounds of the code (16 to 512) only
  delay that.
- *Frames and chunks.* Two must-deliver frames, two chunks, four video frames
  two key frames: enough for a first, a last and a skipped one. An encoder that
  keeps frames back (`"lag"`) hands out up to two packets in a turn (`MaxOut`): more
  than it took in, or none. (Eight
  frames with `VideoPlayer` alone, before it had a clock, showed nothing else.)
- *Time* is in ticks: a frame's period and the slack are one tick, the start-up
  latency two, the longest delay three. What the audio device says is any of
  three origins: at once, within the delay, beyond it.
- *Bytes.* `Base` 4 and `IdLen` 2: a byte still has room for both flags and the
  three types, an id and a pts need several bytes, and the sequence number and
  the id of a chunk differ in every byte that is not zero.
- *Text.* Two characters, one of one UTF-16 unit and one of two, two of them in
  the field, two changes, each any text with any part of it composing.
- *The transform* asks whenever it has room, two requests ahead (`Depth`), between
  the calls of `encode` and during them. (`MftEncoder` alone, with three ahead and
  six frames, showed nothing else: 422 k states.)
- *Faults.* The sets `Faults`, `Crashes`, `Cancels`, `Links`, `Acts` name which
  may happen; a fault may happen at every point where the code can meet it.
  Bounds are constants whose comment starts with "bound".
- *Deadlock* is not checked: dials, frames and gestures are bounded, so every
  model stops at its bound. That nobody waits for ever is what the liveness
  properties say.
- `PhoneTransfers` was also run with two downloads and one upload, with an
  event flow of two (6.7 M states) and of three (12.9 M).

## 5. Fairness

Weak fairness on what a scheduler runs: tasks of tokio, okhttp's reader thread,
Android's main looper, threads. Never on what a user, a network or a fault does,
with these exceptions, each named in its module:

- `RelayHub` (`TasksRun`, `LinksSettle`, `PhonesPing`, `StaleLinksDie`): a
  wedged link is found dead in the end (TCP's retransmission limit), an attached
  phone pings every 2 s (`AppViewModel.kt:102`), and a displaced
  session's link does not live for ever. `RelayHub_live.cfg` takes all.
- `FileSend`: weak for the loop and its teardown, strong for the pump and the
  streamer, which compete for one bounded queue; tokio's channels are first
  come, first served. A wedged link is dropped in the end.
- `HostTunnel`: tasks and links as in `RelayHub`.
- `Pairing`: the handshake's two ends, okhttp's callbacks and the collectors of
  its state; the user is not fair.
- `ScreenStream`: both threads, the session's loop and the writer.
- `FrameClock` (`FairClock`): the main looper with the codec's callbacks, the
  render thread, and time; the audio device is not fair.
- `Wire` (`FairWire`): the PC's writer or pump, the relay's reader and writer, the
  phone's reader, the PC's loop. What is said, and when, is not.
- `RemoteInput`: a finger is lifted, what is on the wire is applied, a macro's
  `delay` ends.

## 6. Proofs

| theorem | property | module |
|---|---|---|
| `LiveSession` | `LiveSessionPublished` | `Relay_proofs` |
| `PublishedSession` | `PublishedSessionRuns` | `Relay_proofs` |
| `OnlineImplementsSlot` | `OnlineIsSessionSlot` | `Relay_proofs` |
| `RelayTypes` | `TypeOK` | `Relay_proofs` |
| `NoPhoneLeftMapped` | `NoStaleRoute` | `Relay_proofs` |
| `PhonesEndReachesPC` | `NoOrphanSession` | `Relay_proofs` |
| `FramesInOrder` | `BulkInOrder` | `Relay_proofs` |
| `TokensSurvive` | `AcknowledgedSurvive` | `Relay_proofs` |
| `FileIsWhole` | `NeverHalfWritten` | `Relay_proofs` |
| `CodesPairOnce` | `CodePairsOnce` | `Pairing_proofs` |
| `TokensAreOnDisk` | `TokenIsOnDisk` | `Pairing_proofs` |
| `WrongKeysTakeNothing` | `WrongKeyTakesNothing` | `Pairing_proofs` |
| `FallbackDialledOnce` | `FallbackOnce` | `Pairing_proofs` |
| `BridgeImplementsSlot` | `BridgeIsSessionSlot` | `FileSend_proofs` |
| `SpoolIsOwned` | `SpoolHasOwner` | `FileSend_proofs` |
| `SpoolIsKept` | `SpoolKeptWhileStreaming` | `FileSend_proofs` |
| `FileArrivesWhole` | `ArrivesWhole` | `FileSend_proofs` |
| `StreamTypesHold` | `TypeOK` | `ScreenStream_proofs` |
| `KeyframesComeThrough` | `KeyframeNotLost` | `ScreenStream_proofs` |
| `PacketsAreAnnounced` | `AnnouncedFirst` | `ScreenStream_proofs` |
| `OneStreamCaptures` | `OneCapture` | `ScreenStream_proofs` |
| `AbandonedStreamsStop` | `AbandonedIsStopped` | `ScreenStream_proofs` |
| `InputTypes` | `TypeOK` | `RemoteInput_proofs` |
| `KeysFollowThePhone` | `KeysFollow` | `RemoteInput_proofs` |
| `ClicksLandThere` | `ClicksLand` | `RemoteInput_proofs` |
| `PlayerDecodable`, `FramesDecodable` | `Decodable` | `FrameClock_proofs` |
| `BuffersGoBackOnce` | `PostedOnce` | `FrameClock_proofs` |
| `FramesInSync` | `InSync` | `FrameClock_proofs` |
| `FailuresAreTrue` | `FailedIsNotThere` | `Transfers_proofs` |
| `DownloadsAreWhole` | `DownloadsWhole`, given `OneCreates` | `Transfers_proofs` |
| `FilesReceivedWhole` | `ReceivedWhole` | `Transfers_proofs` |
| `CardsComeToRest` | `CardsSettle` | `Transfers_proofs` |
| `TransformNotOverfed` | `NeverOverfed`, `MarkedAsAsked` | `Wire_proofs` |
| `TransformNotStarved` | `NeverStarved` | `Wire_proofs` |
| `TunnelGivesBack` | `Decode` of `EncodeData` | `Wire_proofs` |
| `PictureGivesBack`, `SoundGivesBack`, `ChunksGiveBack` | `Parse`, `ParseFileChunk` and `IncomingChunk` of what is built | `Wire_proofs` |
| `NothingIsRefused` | `NothingRefused` | `Wire_proofs` |
| `WireKeepsLanes` | `LanesKept` | `Wire_proofs` |
| `FieldIsMirrored` | `Mirrored` | `Wire_proofs` |

They hold for every number of PCs, phones, loops, handlers at once, dials, codes,
restarts, transfers, sessions, streams, frames, gestures, macros and edits, every
queue capacity, every base of a byte and length of an id, and every choice of faults.
Assumed is only what each module's ASSUME says of its constants
(`ConstantsAssumption`, `RegistryAssumption`, `PairingAssumption`,
`FileSendAssumption`, `StreamAssumption`, `InputAssumption`, `VideoAssumption`,
`ClockAssumption`, `TransferAssumption`, `EncoderAssumption`, `TextAssumption`,
`FramingAssumption`, `WireAssumption`, `NumbersFit`: capacities and bounds are
naturals, ids and `NoHost` or `Nobody` are different things, there is a PC, there is a
place to touch, a byte has an even number of values, more than three, the numbers of
chunks and the pts fit into their fields), and `Cardinality` for what the bound on
handlers at once counts. `DownloadsAreWhole` has one hypothesis about the behaviour: no
two sessions are at once between `unique_dest_path` and `File::create` (`OneCreates`,
connection.rs:859-872), as with a single phone; without it the property is false
(`OwnFile`, section 7). The exceptions of the properties are those of section 3,
stated in the properties themselves: the theorems hold for an encoder that keeps
frames back, syncs that fail, a transform that asks while it is polled, and any
characters, and say what these can break and nothing else.

`LiveSessionPublished` is not inductive: that a loop's clean-up leaves its
successor alone depends on who the table names and on the order of instance
numbers. `RegistryInv` adds that the table names only loops that exist
and serve that PC (`RegistryTypeOK`), that instances above the counter are unused
(`InstancesInOrder`), that who was displaced had been published
(`DisplacedWasThere`), and `PublishedSessionRuns`. The refinement uses the same
invariant: a clean-up that removes an entry is a `Release` by its holder, a
swap-in is a `Claim`, and all else stutters.

`TypeInv` is `TypeOK` with two facts about what a loop holds between two awaits
(`RoutesAFrame`, `LooksUpAHost`), on top of `RegistryInv`.
`NoStaleRoute` is proved from `MappedWhileAttached`: a uuid in a clients map
belongs to a client_loop that has not reached its clean-up, and that was
attached to that very session. `BridgeInv` says that the bridge's slot names a
session that has not deregistered.

`Relay_proofs` has an invariant per direction of the frames. `ToPcInv` says where a
phone's ClientOpen and ClientClose can be: frames in a tunnel are of phones that
opened there (`FramesOfOpened`, `SessionKnown`), what the PC believes follows
from them (`ViewOfOpened`), a ClientClose stands behind the ClientOpen
(`CloseBehindOpen`), and one that is owed and whose tunnel works is queued or
about to be (`CloseComes`, which with the others is `NoOrphanSession`).
`ToPhoneInv` says the same of must-deliver frames element by element: the k-th of
those in the writer's hand, the queue and the blocked reader is the one routed k
after the last delivered (`AllNumbered`), given where the writer can be
(`WriterAt`) and that a reader routes only by its own map (`RoutesOwn`);
`NumberedIsOrdered` turns that into the equality of sequences of `BulkInOrder`.

`StoreInv` of `Relay_proofs` follows who may have touched which inode:
of two handlers that persist, both count as overlapped, and a snapshot holds its
own PC and no more than the memory (`Handles`); one that never overlapped has the
memory's state in its snapshot, and the temporary file to itself, filled as far
as it got (`LoneHandler`); what hosts_file names or may fall back to holds a whole
snapshot, synced unless its sync failed, if no overlapping handler had its hands on
it and no power loss met it unsynced (`CleanFiles`);
and every PC whose handler came through is in the memory and in such a file, or
is `unsaved` (`KnownHosts`).

`PairingInv` orders what the phone and the PC did: what the phone's fields and the
wire speak of was dialled (`Numbered`, `Undialled`), nobody keeps anything of a
handshake that is not over (`Ordered`), the code of a connection that got past
`verify_and_consume` is used up (`Used`), and a device is in the memory and the file
before the phone can keep its token (`Kept`, with `TokenIsOnDisk`).

`DataInv` of `FileSend_proofs` follows a transfer from its handler to the
phone. It waits in one place of one queue, and nobody has touched it while it does
(`HandedOnce`, `HandedFresh`); then it belongs to the session that took it
(`Owned`, `TableOwned`), its chunks and its one announcement are in that session's
queues (`ChunksOwned`, `AnnouncedOnce`), and a FileSendComplete can only follow
the end of its streamer (`CompletesDone`), which is why unlinking without setting
the flag is safe. While the pump runs and the phone still takes the file
(`Flows`), the chunks in flight are those from `nextSeq` to `sent`, rising
(`InRange`, `AllThere`, `Rising`), behind the announcement (`Announced`): these
are `ChunksContinue`, place by place. `SpoolOwned` names the place in the queue
that `SpoolHasOwner` leaves open.

`ScreenStream_proofs` has three invariants. `KeyframeDue` says that a key frame
the loop or the send still owes is remembered by the stream's flag or the encoder's,
or was taken in with a frame.
`HolderInv` says who has a stream's packets channel and the screen: a stream is one
session's (`HeldByOne`), one that is held has a receiver (`HeldIsReceived`), one
that was not started has no thread (`UnstartedIsQuiet`), and one thread captures
(`OneCapture`); `AbandonedIsStopped` follows. `Announced` puts StreamStarted before
the packets in the one queue of the LAN.

In `RemoteInput_proofs` `KeysFollow` is inductive together with the types, which
include that a drag has sent its press (`DragHoldsLeft`); it is stated by the last
message under way about a key, so that no fold is needed. `ClickInv`
says that every press under way will find the cursor where it is meant, by the last
move before it (`AllAimed`), and that as long as a second tap may come, which sends
no move, the cursor ends where the first one was (`SecondTapAimed`).

`QueueInv` of `FrameClock_proofs` says of the player's three buffers together that
they are one rising sequence (`Rising`), that what was emitted and is in none of
them was fed or dropped (`NothingLost`, `Collected`, `SeenMeansKept`), that a codec
that was not fed yet has an IDR frame first (`FirstIsIdr`), and that no frame waits
beside a waiting buffer (`NobodyWaits`). `PostInv` says of the output half that a
frame the handler holds is of the codec that runs (`ItsOwn`), and that buffers out
and given back agree in number (`Counted`). `ClockStepsThePlayer` is the projection:
a step with the clock is a step of the player or leaves it as it was.

`UploadsInv` of `Transfers_proofs` follows an upload through both programs: its
messages are on its own socket (`AtHome`), it is announced once (`BegunOnce`), then
created, then open, and only then reported (`Stages`); its last chunk goes out when
its thread is done, and only that completes it (`LastEnds`); and a card says failed
because the thread gave up before the last chunk, or because the PC said so
(`FailedHow`). `DownloadsInv` adds the files: begin, chunks and last keep their
order on the wire (`Ordered`), what was sent of an upload that can still be
completed is written or under way (`Accounted`), before its file is created nothing
is written and its path stays free (`Early`, where `OneCreates` is needed), a file
that is open or complete is its own and holds what was written (`Placed`), and
nothing else is in the directory (`OnlyPlaced`).

`ReceiveInv` says of each download of the phone: before its first chunk nothing
knows it (`Fresh`), the reader thread works on an entry it has just read
(`ReaderKnows`), an entry has a partial file (`FirstWritten`), a file is closed by
its end or by what removes it (`ClosedOrWhole`), the main thread fails only what its
card cancelled (`MainCancels`), a complete one stays (`CompleteStays`), and a
partial one without an entry came late (`PartialIsKnown`). `CardsInv` follows the
cards: as long as no event was dropped, one that says sending is of a transfer that
goes on or of which a thread is about to emit the last event (`Known`), or that event
is in the flow; an `Incoming` still in the flow has it behind itself (`EndsAfter`);
and a download that was not announced has neither (`Quiet`).

`EncoderInv` of `Wire_proofs` counts the transform's requests. One that finds
`pending_inputs` empty is forgotten (nvenc_mft.rs:221), so what saves the encoder is
that a transform that has asked for all it may always has one still to be read. In a
call the first that is read takes the frame, so the transform gets room for one
request more: if it asks again while it is polled, that request is read after those
older than the call (`early`), and either is left or was forgotten (`hasty`). That is
`RequestIsLeft`; the mark of
a key frame is due exactly when force_keyframe came after the last frame (`MarkIsDue`).

The three theorems about `Framing` say that what one end packs the other unpacks,
from the digits of a number up: a number is its four bytes (`FourBytes`), the parts of
a frame are found where they were put (`PacketParts`, `FrameParts`), and two numbers
packed into the eight bytes of a pts come out of it (`Digits`, `SameBits`). For
`Protocol`, `DownTables` and `UpTables` go through the four tables: a field that may
be written as null is taken as null, one that may be left out may lack (`Lenient`,
`AgreeingTableUp`). `WireInv` puts both on the way: every message in a queue is bytes,
or a text that its reader's table takes (`Queued`), every packet of the tunnel holds
one (`Carried`), and what is committed in the text field is a text, so that the
difference sent is a finite sequence of keys. With that no step sets `refused`.

That `Wire` implements `Lanes` goes by places. The way to the phone has eight, from
`heard` to the PC's three queues, and each holds the numbers of its messages in the
order of sending. `LaneOrder` says what the queues have in common: no number is in two
places, every text and chunk is in one, and none is nearer to the phone than one it has
to follow. Three moves are all a step can do to that: a new number goes where nothing
it must be behind comes later (`PutKeepsOrder`), one is passed on over places that hold
nothing it must stay behind (`PassKeepsOrder`: this is where the order of the PC's
select, of the relay's writer, and what goes into `bulk` matter), a picture or a sound
is left out (`LeftOutKeepsOrder`, `DroppedKeepsOrder`). `OnItsWay` ties the numbers to
the bytes: a place holds what its messages look like there (`Looks`), so that what
`onMessage` reads is what was said, by the lemmas that the formats give back what was
packed. The step of `Lanes` that a move is needs two facts about what is said. The k-th
message heard has one number, that is, no two messages of a session are alike, and a
chunk has its announcement ahead of it, without which the phone would drop it
(`Saying`). For that an upload is answered once, and so its messages are followed on the
way up with the same lemmas (`Uploads`). `Saying`, `Uploads` and `FramesKept` make
`SessionInv`; `MayBeDelivered` and `LanesStep` are the refinement's step.

For `Mirrored` nothing need be known of a difference but where it leads. What waits
between the keys taken and those told is a stretch of `told`, first in the relay's
queue and then in the socket (`KeysWait`), and there is a course of texts along it,
from the PC's field to the committed text (`Leads`). A key that is taken cuts the
course at its beginning (`KeyTaken`); an edit lengthens it by that of its difference
(`EditLeads`), which `DiffTurns` builds if it takes no wide character away
(`CutsWide`): the backspaces lead to the common beginning (`TapsShorten`, with
`AgreeIsText`), the text to the new one. Once one was taken away nothing is claimed
(`CutStays`). That the function in `Mirrored` is this course needs induction on the
number of a key, which is done with the least one where they differ
(`LeadsToCommitted`).

Model-checked only: everything temporal under fairness (`PhoneGoneReachesPC`,
`ClientLoopReturns`, `DisplacedPhoneLeaves`, `EverySendEnds`, `OrphansEnd`, `DialEnds`,
`ScreenIsFreed`, `EveryFrameShown`, `NothingStaysDown`, `AllArrives`): fairness needs
ENABLED, which the proof system does not handle. All other properties of the runs are
proved; of `HostTunnel`, whose one property is temporal, nothing is.

## 7. Where the code departs from what it says

Met while modelling; each is reproduced by checking the named property with the
constants given (those not given as in the module's config, `Faults` or
`Acts` empty). Line numbers are of `src/`. They are kept out of the
configs, which check what the code does keep.

| module, property | instance | the source says, the code does |
|---|---|---|
| `RelayHub`: ClearingTheMapClosesQueues | one instance, a dead PC link | relay/src/main.rs:726-728: "dropping the map closes them, so phone client_loops exit". `client_loop` keeps its own senders (760-763), so the queues stay open; the phone leaves only when its own reader fails to send. |
| `RelayHub`: BlockedReaderReturns | `FairSpec`, one instance, a wedged phone, MaxBulk 3 | main.rs:921-928 presents the 15 s timeout as the way out of a wedged link. After it `sink.close()` is awaited without one (864) while the receivers live: the host reader and all other phones wait. |
| `HostRegistry`: DiskFollowsMemory; AcknowledgedSurvive without mixed | no faults | main.rs:209-212: the disk is updated after each registration. Snapshots are persisted outside the lock (475-489), so an older one can overwrite a newer one; after a restart an acknowledged PC is unknown. |
| `HostRegistry`: NeverHalfWritten without mixed | no faults, restart | main.rs:89-91: "never a half-written one". Handlers share one temporary file (179-188): one truncates what another is about to rename. |
| `HostRegistry`: NeverHalfWritten without Torn | Faults {"sync"}, a power loss | The same sentence of main.rs:89-91. The failure of `open` or `sync_all` is ignored (192-197) and the rename follows; after a power loss `hosts_file` may be half a snapshot, and the next start knows no PC, acknowledged or not. main.rs:192-194 names "a crash window". |
| `FileSend`: SpoolUnlinked | one session, drop | server-pc/src/file_send.rs:27-31: the task "unlinks the temp file on completion (success OR failure)". A `Send` still queued when the loop breaks is dropped with its file left (connection.rs:408). |
| `FileSend`: NoSessionNoStreamer | two sessions, drop | qr_server.rs:296-298: without a live session the streamer "is already done". A displaced session streams on, and the cancel goes to the slot's holder. |
| `FileSend`: CancelReachesPhone | `FairSpec`, a browser's cancel, no fault | file_send.rs:46-50: "Phone-side receiver also gets `FileSendFailed`". connection.rs:357 sends nothing; the phone keeps its half. |
| `HostTunnel`: BothTasksDropped | one tunnel, a dead link | relay_client.rs:558: "Whichever side dies first, drop the other". A dropped JoinHandle detaches its task. |
| `HostTunnel`: NoBacklog | one tunnel, a wedged link, MaxOut 4, OutCap 1 | relay_client.rs:377-380: the bounded channel keeps a backlog from growing. The pump drains it into an unbounded one. |
| `HostTunnel`: SilentPeerDropped | `FairSpec`, no link fault | connection.rs:120-129: without an inbound message for 45 s the connection ends. The sleep starts anew with every packet of a stream (143). |
| `Pairing`: DialEnds without Abandoned | a PC that goes offline, the relay's Close | ConnectionClient.kt:247-251: an unreachable PC surfaces as Failed. A clean close while Connecting leaves the state at Connecting (922). |
| `Pairing`: ConnectedByThisSocket | MaxDial 3 | ConnectionClient.kt:873-877: an old socket's callback "must NOT touch any shared state". `onMessage` has no such check (797): a Welcome of a socket already left connects the phone. |
| `Pairing`: EntryNamesItsServer | two PCs, MaxDial 3 | TrustedServers.kt:21-23: `wsUrl` is where the phone connected last. `handleWelcome` takes the URL of the last dial (950): the token of one PC is stored with the address of another. |
| `Pairing`: FallbackOfTheFailedDial | LAN and relay, MaxDial 3, link | ConnectionClient.kt:185-190: the fallback belongs to the first failure of its dial. `pendingFallback` outlives it and is used by a later reconnect's failure (896). |
| `Pairing`: SignedWithTheCodesKey | MaxCode 2 | pairing.rs:10-12: the QR's key signs the nonce. A rotate between the two locks (connection.rs:456) replaces it. |
| `ScreenStream`: FailureEndsStream for the video thread alone | audio, a capture fault | connection.rs:301, stream.rs:347: the channel ends when the worker fails. The audio thread holds a clone and goes on: no picture, and no StreamStopped. |
| `ScreenStream`: AnnouncedFirst for Relayed | a relayed session | docs/PROTOCOL.md:256-258: stream_started, then packets. The relay sends text through the queue its writer polls last (main.rs:666-693). |
| `ScreenStream`: KeyframeNotLost without kept | "lag" | nvenc_sdk.rs:420-428 (NEED_MORE_INPUT): "no output this round". The flag is cleared before the frame is submitted (411), and the turn counts as idle; on a screen that stands still the key frame waits for 30 idle turns or the phone's next request. The CPU encoders clear theirs too before they know of a packet (nvenc_mft.rs:308-318, mf_h264.rs:208-222). |
| `ScreenStream`: (a dropped last frame is replaced) | - | connection.rs:314-316: after a drop "the encoder will produce another in ~33 ms". On a screen that stands still it does not (stream.rs:418-432). |
| `FileUpload`: CompleteIsWhole without lost | a write error | ConnectionClient.kt and connection.rs:983-1008 take the count for the file. tokio reports a write's error with the next call, the last chunk is empty, and an error of `flush` is only logged (987). |
| `FileUpload`: OwnFile | two sessions | connection.rs:1237: "Resolve a non-colliding destination path". Between the look and the create another session may take it (1240). |
| `FileUpload`: CardSettles | `FairSpec`, link | AppViewModel.kt:284-287: terminal cards are pruned. When the link breaks after the last chunk nothing makes the card terminal. |
| `VideoPlayer`: StartsWithIdr without dropped | eight frames | H264Player.kt:26: frames before the first IDR are dropped. A full `pendingFrames` drops the IDR frame itself (212), and the codec starts with what follows. |
| `VideoPlayer`: AfterStopDropped | eight frames | H264Player.kt:201: "`stop()` ran. Drop the frame in that case." It is queued for the next start. |
| `VideoPlayer`: WindowBridged | eight frames | ConnectionClient.kt:109-118: the buffer bridges the window before collect. A SharedFlow without replay drops what nobody collects. |
| `VideoPlayer`: OneRenderThread | codec fault | H264Player.kt:74-75: the render thread does not leak. `stop` returns at its first line when no codec was made (173). |
| `FrameClock`: ShownInOrder | as in the config | H264Player.kt:250-253: after a re-anchoring "a couple frames render slightly fast or slow". With a new origin far enough ahead a frame is shown before one that was posted earlier, and the older picture follows the newer one. |
| `FrameClock`: OwnAudio | as in the config | ConnectionClient.kt:970: the reset in `handleStreamStarted` keeps a stale reference from anchoring the new stream. The former stream's audio player may publish after it, from its own thread. |
| `FrameClock`: RefinedOnce | as in the config | OpusPlayer.kt:299-300: once published, "subsequent calls here are no-ops". Each sample may publish again. |
| `Framing` against `Protocol.kt` | - | Protocol.kt:428-431: the parser returns null for an unknown type or reserved bytes that are not zero. Only the length is checked; a frame of an unknown type is dropped by its consumer. |
| `Wire`: Mirrored without cutWide | as in the config | KeyboardOverlay.kt:65: the field "works for CJK/emoji". `length` counts UTF-16 units (297-303), so a deleted character outside the BMP takes two backspaces and the PC's field loses the character before it. |
| `TextMirror` against `KeyboardOverlay.kt` | - | KeyboardOverlay.kt:69-72: the whole text is shipped and the field cleared. The code mirrors each change as a difference. |
| `RemoteInput`: ClicksLand without strayed | MaxGesture 3 | StreamSurface.kt:317-318: the second click stays at the first one's place. A quick drag between two taps moves it (313). |
| `RemoteInput`: NothingStaysDown without cutOff | link | docs/PROTOCOL.md:152: a press has its release. When the link ends in between, neither side releases (connection.rs:391). |
| `RemoteInput`: KeysFollow without cutOff | surface | The same: the gesture's coroutine is cancelled when the surface goes (StreamSurface.kt:137), the session goes on with the button down. |
| `PhoneTransfers`: CompleteIsThere without cancelled | cancel | ConnectionClient.kt:541-544: a cancel unlinks a partial file. It may meet the last chunk (548) and unlink a file reported complete. |
| `PhoneTransfers`: NoPartialStays without late | disconnect | ConnectionClient.kt:569-572: "Drop every partially-received file on disconnect". An entry added between the loop and `clear` (584) stays. |
| `PhoneTransfers`: CardsSettle without overtaken | disconnect | A download's `Failed` may be emitted before its `Incoming`, which then makes a card that stays at sending until its timer. |
| `PhoneTransfers`: OwnCard without Alone | one download, one upload | AppViewModel.kt:190-192: the per-id status stays consistent. Both directions count from 1 (ConnectionClient.kt:520, file_send.rs:87). |
| `PhoneTransfers`: CardsSettle without dropped | two uploads, EventCap 2 | AppViewModel.kt:290-291: terminal entries go. The flow drops its oldest event when full (ConnectionClient.kt:394), and that may be the terminal one. |
| `Wire`: NeverStarved without hasty | as in the config | nvenc_mft.rs:17-20: frames are pulled in "when it asks". A request that finds nothing is forgotten (221); a transform that asks again while `encode` polls runs out of requests, and a frame waits for ever. |

For `VideoPlayer` the instance is MaxFrame 8, Keys {1, 4}, FlowCap 2, PendingCap 2,
MaxInput 2, MaxSurface 3, Faults {"codec"}, with `Spec`.

## 8. What is not modelled, and why

- *Codecs, capture, scaling, colour, clipboard, layout, camera*: calls into the
  system without a state of their own, or arithmetic on pixels and samples.
- *The NVENC SDK's* calls come one after the other in one thread; what they return
  is a packet, none or an error, and `ScreenStream` has all three: none also for a
  frame that was captured and took a request for a key frame with it.
- *The tray, configuration and start*: a window's message loop, environment
  variables and a file read once; the tasks they start are modelled where they run.
- *JSON's syntax* is the two libraries'; the QR's text and the pages of the local
  server are wording.
- *OpusPlayer's input queues* are H264Player's without key frames.
- *Cryptography*: a hash or HMAC is equal exactly when what it was computed of is.
- *Pacing*: a timeout is a step that may come whenever its timer runs; sleeps and
  bit rates are left out, as is that `start_stream` sleeps on a runtime thread.
- *A crash of the PC during an upload*: nothing is stored about it and nothing
  looks for it at the next start.
- *A `remove_file` that fails* (`FileUpload`, `FileSend`): its error is logged, or ignored, and the
  file stays; nobody tries again.

Coarser than the code: `abortAllIncomingFiles`' loop is one step
(`PhoneTransfers`), which also has one session only; macros are told apart by
their modifier (`RemoteInput`), so that two overlapping macros of one modifier
are not seen; `MftEncoder` has neither errors nor `flush`; an upload with
chunks out of order cannot happen on one socket (`FileUpload`); a picture's wait in
the stream's own channel is in `ScreenStream` and not in `Wire`; the field on the PC
is one that appends and deletes at its end (`TextMirror`).

## 9. Plan

What is left, the most useful first.

1. *Proofs*: type correctness of the modules where no other proof needed it; that what
   `HostTunnel`'s fair tasks have left to do falls with every step of theirs, which is
   the part of its liveness that is not about fairness.
2. *Sessions*: two sessions in `FileUpload` and `PhoneTransfers`; two phones in
   `HostTunnel`.
3. *Input*: mouse and macros in the scenes of `Wire`; overlapping macros of one
   modifier.
4. *The tray and the configuration*, as far as they start and stop what is
   modelled: restarts of the PC in `HostTunnel` and `ScreenStream`.
