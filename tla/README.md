# TermCall: a verification project in TLA+

TermCall is a video call in the terminal. A small server introduces clients to
each other over WebSockets and runs a TURN relay; the clients then talk to each
other directly over WebRTC, send audio as Opus and video as coloured text. This
directory holds TLA+ models of its concurrent parts, TLC configurations that
check them on small instances, and TLAPS proofs of the most important results.

Paths in this file are relative to the repository (`src/`).

## 1. The system

| Part | State | Operations | Talks to |
|---|---|---|---|
| Room manager, `internal/signaling/room.go` | rooms, their peers, one bounded queue per peer | Admit, Leave, Broadcast, Route, enqueue | handlers |
| Signaling server, `internal/signaling/handler.go` | connection slots, per session: current room, context, writer | accept, read loop, join, leave, relay, write pump, shutdown | room manager, clients |
| TURN quota, `internal/turn/server.go` | reservations, allocations, four counters, timers | allow, created, deleted, release | TURN library |
| Signaling client, `internal/signaling/client.go` | connection, context, received queue, one error, send lock | Dial, Send, Close, read pump | server, mesh |
| Mesh, `internal/rtc/mesh.go` | peers by ID, audio track, context | Start, Stop, signaling loop, joins and leaves, WebRTC callbacks, mute, broadcast | client, peers, UI |
| Remote peer, `internal/rtc/peer.go` | connection, waiting candidates, player, channel, sequence number | descriptions, candidates, Close | WebRTC, playback |
| Playback, `internal/playback` | decoded queue, left-over samples, device | WriteOpus, onAudioRequest, Close | OnTrack, audio thread |
| Video codec, `internal/ascii` | baseline of the stabiliser, previous frame, keyframe counter, decoder grid | Stabilise, Encode, Decode, Reset, SetMode | camera, data channel, call screen |
| Capture, `internal/capture` | session, generation, device track | Start, reader, Close | call screen |
| Terminal UI, `internal/tui`, and the client program, `cmd/termcall` | screens, tiles, toggles, the clean-up function | messages and keys, startCall, quitting | all of the client |
| Server program, `cmd/termcall-server`, and its settings, `internal/config` | settings, sockets, the HTTP server | load, listen, serve, shut down | TURN and signaling servers |

What is hard here is concurrency and loss. The server has two goroutines per
session, holds its locks briefly and enqueues after it has released them, so
announcements of different handlers cross. The client has the signaling loop, the UI, the
callbacks of the WebRTC library, one goroutine per audio track, a camera reader
and the audio thread of the system. Video goes over a data channel that neither
orders nor retransmits. The list of hazards in `PROJECT.json` says, at its
line, what can go wrong and which property would show it.

What makes each part correct, in a sentence:

* **rooms**: a client that is not disconnected knows exactly the members of its room, and
  hears of a peer before it hears from it;
* **sessions**: slots are counted exactly, every session ends, shutdown drains;
* **quota**: the counters are exact and every reservation ends;
* **client**: events are handled without a gap, the end of the session is seen,
  `leave_room` is the last word;
* **mesh**: no connection is orphaned, Stop leaves nothing open, the UI and the
  audio tracks follow the map, but for the exceptions of section 3;
* **negotiation**: one side offers, early candidates wait, two clients that stay connect;
* **video**: an up-to-date viewer sees exactly what was encoded;
* **playback**: sound in order, the latest packets kept, every device released;
* **camera**: one device, released at the end, no frame of a camera that is off;
* **screens and microphone**: what is shown is so, and the program can always be left;
* **server program**: settings that were accepted work, sockets are given back, a
  signal ends it.

## 2. Modules

`RoomDirectory` is an abstract specification; the others follow the code, one
action per critical section or channel operation. A module `MCx` instantiates
`x` for TLC. Definitions whose comment begins "Mutant of" are faults for the
properties to find; no specification uses them. Bounds are constants named
`Max...` and appear only in guards.

**RoomDirectory.** What the room manager promises: clients create, enter and
leave rooms atomically within the limits.

**Signaling.** One handler per connection (`pc`), its writer, its queue. `Accept`
.. `Release` are `HandleWebSocket` from slot to deferred calls. `JoinNew` and
`JoinExisting` are a join up to `join_accepted`, including `Admit`, which is one
critical section; `SnapshotRoom` and `Deliver` are the `Broadcast` that follows,
one enqueue at a time in any order (the order of a Go map). `LeaveRoom`,
`RouteLookup` and `ReceiveBad`/`FatalDone` are leaving, relaying and fatal errors.
`Write`, `WriteFail`, `PingFail`, `WriterDone` are the write pump. History: `view`, what the client
has been told by messages it received; `told`, the same including its queue.
A cancelled session is still read from until its `Read` fails, so
receiving a message and the first critical section of its handling are one
step, and that step is allowed after cancellation too. `Write` needs a live
context, as the WebSocket library does. A fresh room ID is one that neither the map nor a
handler holds. With `Rejoin = FALSE` a client says nothing after `leave_room`,
which is what this repository's client does (`SignalClient!LeaveIsLast`).

**TurnQuota.** `quotaTracker`, keyed by user and source. Reserving and arming the
timer are two steps, as in `allow`; timers are counted per key, since nothing
stops them. The relay's own actions (`Requested`, `BindFails`) are external.

**SignalClient.** `Dial` with each of its ways out, the read pump and the error
channel, the loop of the mesh that consumes them, `Send` and `Close` with the
lock. The server numbers its events, so that a gap can be seen.

**MeshManager.** The map of peers under its lock, the loop's `handlePeerJoined`
step by step (create, insert or discard, notify, offer), `handlePeerLeft` in the loop
and in the callbacks of every connection, `Stop`, and `SetMuteAudio`. The server announces a peer at
most twice, in `join_accepted` and in a `peer_joined` that crossed it; `handlePeerJoined` looks only at the
map, so that the second announcement makes a second connection when the first could not be
created or was given up in the meantime. Each connection has a callback for its closing, which can run
from then on (`Due`), and a goroutine for each of `Reports`, the constant that names the ways in which it may be
given up: the failed state, and the timers of disconnections. The run has one of them, the proofs
any number. All know only the peer's ID. `SetMuteAudio` is called by `CallModel.Update`, and `Stop` by `main` when
no `Update` runs any more, so the two never overlap. A sender that refuses the track is reported by
`OnError`; here it returns, in the program it does not (`TrackRefused` of `CallApp`). History: `missed`, connections
`SetMuteAudio` did not reach, and `overlapped`, peers two notices of which were under way at once.

**Negotiation.** Two ends with a signaling loop and a gatherer each. A loop
looks the peer up, checks `closed`, applies the description, sets the flag and
takes the waiting candidates, adds them, answers: the steps between which the code
holds no lock. Removal of the peer (`RemovePeer`, `ClosePeer`, `CloseConn`) may
come between any two. `Unusable` candidates are those the connection refuses.

**VideoStream.** Stabiliser, encoder, a channel from which messages are taken in
any order or lost, the sequence filter, decoder and tile. Frames are grids of
small colours; the text encoding is abstracted to what it carries.

**CameraControl.** `Camera.Start` in its steps, the reader goroutine, `Close`, and
the call screen with its one waiting command per session, up to the clean-up of
`main`.

**Playback.** `OnTrack`, its goroutine, `SetPlayer`/`ClearPlayer`, `Player.Close`
under its lock, `WriteOpus` as its three selects, and `onAudioRequest`, which takes
no lock. Samples are numbered through.

**CallApp.** The client program as its event loop sees it. One goroutine runs every
`Update`; the input reader, `startCall`, `Microphone.Start`, the mesh and its callbacks
reach it with `Send`, which blocks until the message is taken and does nothing after
the end. `SubmitForm`, `Resize`, `CallReady`, `QuitKey`, `EnterKey` are `AppModel.Update`;
`PeerJoin`, `PeerFrame`, `PeerLeave`, `Tick`, `ToggleMic`, `MicStarted` are `CallModel.Update`.
`SetMuteAudio` and `Tick` take the lock of the mesh from inside `Update`, which is why
handlers that notify must not hold it (`mu`). `BeginStart`, `OpenDevice`, `InstallTrack` are
the parts of `Microphone.Start`; `Cancel` to `StopWait` are what `main` has deferred. `RunFails` and
`Abort` are the other way out: `program.Run` returns an error and `main` calls `os.Exit`.

**ServerStart.** `LoadServer` with the precedence of flags, environment and `.env` file,
`validateServer`, the two `NewServer` functions and `run`. A setting is a number or a class of
texts or addresses; `Input` writes two settings in any place with values on both sides of every limit.
The HTTP server is external: what `ListenAndServe` and `Shutdown` do to each other in
either order is modelled from their use and their documentation.

**TurnQuotaProofs, SignalingProofs, NegotiationProofs, MeshManagerProofs,
SignalClientProofs, CallAppProofs, ServerStartProofs, MediaProofs.** The theorems about
the modules they are named after; section 5. `MediaProofs` is about what captures, carries and plays
media: it extends `CameraControl`, `VideoStream` and `Playback`, which is why the latter two call their
specifications `VideoSpec` and `PlaybackSpec`, and their types `VideoTypeOK` and `PlaybackTypeOK`.

The parts meet in this way: `Signaling` gives `Negotiation` its introductions
(`NoMissingPeer`, `SignalsIntroduced`); `SignalClient` gives `Signaling` the
assumption that `leave_room` comes last; `MeshManager` owns the connections
whose inner life `Negotiation`, `Playback` and `VideoStream` show, and whose notices
`CallApp` turns into tiles; `ServerStart` opens and closes what `Signaling` and `TurnQuota`
run in.

## 3. Runs

| Run | Checks | Bounds | Distinct states |
|---|---|---|---|
| `signaling_rooms` | `MembershipAgrees`, `NoGhostPeer`, `NoMissingPeer`, `ViewsConverge`, `SlotsAccounted`, `ImplementsDirectory` (refinement) | 3 clients of one address with 2 slots, that join and leave, queues of 3, failing reads and handshakes | 219 k |
| `signaling_live` | `SignalsIntroduced`, `SessionsEnd`, `AnnouncementsArrive` | 2 clients, queues that fill, every fault, shutdown | 134 k |
| `turn_quota` | `CountersExact`, `OverdraftBounded`, `ReservationsTimed` | 2 users, 2 sources, 1 per user, 2 in all, 2 timers a key | 11 k |
| `mesh` | `OpenConnsOwned`, `UIFollowsMap`, `AudioFollowsMute`, `StopCompletes` | 2 peers, 2 connections, each of which may fail and reports its closing, 1 toggle | 735 k |
| `negotiation` | `NoGlare`, `CandidatesKept`, `Connects` | 3 candidates an end, one unusable, 2 may wait | 211 k |
| `video` | `TileExact`, `NoiseBounded` | 2 cells, 3 colours, 2 modes, 4 frames, 2 in flight | 2.0 M |
| `camera` | `OneDevice`, `FramesFromLiveSession`, `DeviceReleased`, `DeadStreamNoticed` | 3 sessions, 1 frame each | 254 k |
| `signal_client` | `NoGaps`, `LeaveIsLast`, `EndNoticed`, `EndsCleanly` | queue of 1, 3 events, 2 sends | 141 k |
| `playback` | `SoundInOrder`, `NewestKept`, `OpenPlayersOwned`, `SilentAfterLeaving` | 2 tracks, 3 packets of 2 samples, requests of 3, queues of 2 | 926 k |
| `call_app` | `ScreenFollowsCall`, `TilesFollowMesh`, `MicTruthful`, `Responsive` | 1 peer, 3 keys or resizes besides quitting | 334 k |
| `server_start` | `AcceptedSettingsStart`, `EverythingReleased`, `StopsWhenAsked` | 2 settings at a time, 2 to 16 values each, in 3 places | 96 k |

`TypeOK` of a module says what its variables hold and is the base of the proofs; it
is proved for every component of the system. It may be added to the `INVARIANTS`
of any configuration, and holds there too.

Why these bounds are enough to be interesting: with three clients an
announcement crosses a third one's join or leave; a queue of one or two fills;
fewer slots than clients make a slot pass from one session to the next; two timers of one
key let an old one release a newer reservation; two connections may be those of two peers, or of one
peer, and then a callback of the first, still under way, meets the second in the map; one toggle finds
two peers listed, of whom one refuses the track; three sessions let a stale reader meet
a restart that is itself followed by another; packets of two samples and
requests of three end requests inside packets and begin others across them; three packets
overflow a queue of two; three keys switch the microphone on, off and on again, or
submit the form and toggle; two settings at a time meet every comparison of one with another.

One more run shows a disagreement between the code and what the repository says:

* `signaling_rejoin`: the server allows a session to join again after leaving.
  An announcement made for its old room then reaches it in the new one, and it
  keeps a peer who is not there. This repository's client never does this.

The models also show things that no document denies, stated as exceptions of
the properties: a connection that is being created while the user switches the
microphone keeps the track it was created with until the next switch, and so does one whose sender
refuses the new one (`AudioFollowsMute`); when the first connection of a peer is given up before its
second announcement, the `OnPeerLeave` of the first may come after the `OnPeerJoin` of the second, whose
tile is then missing, or a late callback of the first removes the second before its `OnPeerJoin`, and a tile stays
behind (`UIFollowsMap`, whose second part says that only such peers are excepted);
when `program.Run` returns an error, which a SIGINT from outside or a panic in a handler causes,
`main` exits by `os.Exit` and skips its deferred function: the context is not cancelled, camera and
microphone are not closed and the mesh is not stopped, so that no `leave_room` is sent and the operating
system is left to close what is open (`Abort`; `MicTruthful` speaks of what `main` leaves behind when it returns,
`Responsive` counts both exits as an end);
one early candidate that the connection refuses leaves an offer unanswered
(`Connects`); after a lost frame the decoder applies the next delta to a picture it was
not computed from, so that a tile may show what was never sent until the next
keyframe (`TileExact` says when it is right); a reservation of the relay whose timer fires
before its allocation is created lets one allocation in beyond the quota, and no more
than one each (`OverdraftBounded`); and when an audio sender refuses a track, `SetMuteAudio` reports
it with `Send` from inside `Update`, and the event loop waits for itself
(`TrackRefused`, the exception of `Responsive`).

Of the settings: a message rate of `NaN` passes both validators, since no comparison with it holds;
HTTP on an IPv4 address and TURN on one port are accepted, and the start then fails with everything released
(TURN listens on IPv4 only, so with an IPv6 bind address both may start);
a malformed variable is an error even where a flag replaces it; and an empty variable
hides the `.env` file and means the default for a number, the empty text for a text.

## 4. Fairness

Liveness is checked under weak fairness of what a goroutine does when it can:
handlers, writers, loops, readers, and calls that have timeouts. A read
is bound to end only when its context or connection has ended, which is what the
library promises. Never fair: clients and users, faults, pings that fail, the removal of peers. `SignalClient` assumes
strong fairness of `CloseStep` because `Client.mu` is a Go mutex, which does not
starve a waiter although others take it again and again. `Negotiation` assumes that a connection that
can come up does, and that gathering ends.

In `CallApp` the event loop takes every message that waits, each kind fairly, since the
senders queue on one channel; `startCall` and `GetUserMedia` end, with a result or an error. In
`ServerStart` `run` and the serving goroutine go on, and the closing of the socket is noticed by
`Accept`; that a request ends is not assumed.

`CHECK_DEADLOCK` is on everywhere but in `call_app`, whose `Next` ends with the process;
elsewhere a `Finished` step or its like says that a program is over.

## 5. Proofs

Each theorem holds for every value of the constants that its named `ASSUME`
allows; TLC evaluates the assumptions in the runs. The bounds of the models (`MaxKeys`,
`MaxEvents`, ...) are constants too, so that a theorem holds for every bound. Every
invariant below was checked by TLC on the instance of its run before it was proved.
Each is a conjunction of named parts, with one lemma per part that says which other parts its
preservation needs, and in it one case per action.

| Theorem | Property | Assumptions |
|---|---|---|
| `TurnQuotaProofs!CountersAlwaysExact`, `OverdraftAlwaysBounded`, `ReservationsAlwaysTimed` | `CountersExact`, `OverdraftBounded`, `ReservationsTimed` | finite users and sources, positive quotas |
| `SignalingProofs!MembershipAlwaysAgrees`, `SlotsAlwaysAccounted`, `DirectoryImplemented` | `MembershipAgrees`, `SlotsAccounted`, `ImplementsDirectory` | finite connections and rooms, the limits `NewServer` demands |
| `SignalingProofs!NobodyMissed` | `NoMissingPeer` | the same |
| `SignalingProofs!NoGhosts`, `ViewsAlwaysConverge`, `SignalsAlwaysIntroduced` | `NoGhostPeer`, `ViewsConverge`, `SignalsIntroduced` | the same, and `~Rejoin` |
| `NegotiationProofs!NeverGlare`, `CandidatesAlwaysKept` | `NoGlare`, `CandidatesKept` | bounds in `Nat` |
| `MeshManagerProofs!OpenConnsAlwaysOwned`, `AudioAlwaysFollowsMute`, `UIAlwaysFollowsMap` | `OpenConnsOwned`, `AudioFollowsMute`, `UIFollowsMap` | finite peers, bounds in `Nat`, `None` is neither |
| `MediaProofs!OneDeviceAlways`, `FramesAlwaysLive` | `OneDevice`, `FramesFromLiveSession` | bounds in `Nat` |
| `MediaProofs!CodecExact`, `NoDrift` | `TileExact`, `NoiseBounded` | a finite grid, colours from -1 to 255, a threshold in `Nat`, a keyframe every one or more frames |
| `MediaProofs!PlaybackInOrder`, `PlaybackFresh`, `NoPlayerLeaks` | `SoundInOrder`, `NewestKept`, `OpenPlayersOwned` | queue, packet and request of one or more, bounds in `Nat` |
| `SignalClientProofs!LeaveAlwaysLast`, `EventsNeverSkipped` | `LeaveIsLast`, `NoGaps` | a queue of one or more, bounds in `Nat` |
| `CallAppProofs!ScreenAlwaysFollowsCall`, `TilesAlwaysFollowMesh`, `MicAlwaysTruthful` | `ScreenFollowsCall`, `TilesFollowMesh`, `MicTruthful` | `None` is no peer |
| `ServerStartProofs!AcceptedSettingsAlwaysStart`, `EverythingAlwaysReleased` | `AcceptedSettingsStart`, `EverythingReleased` | numbers are written as integers |

and `TypeOK` of each of these modules.

**TurnQuotaProofs.** The inductive invariant is the conjunction of the type,
freshness of requests (a key that is pending is not also being requested anew
without a reservation), `CountersExact`, `OverdraftBounded` and `ReservationsTimed`. The counters
need cardinality lemmas for adding and removing one key. `CountersAlwaysExact` means
that the clamps at zero in `removePendingLocked` and `deleted` never act.

**SignalingProofs.** `RoomInv` is `TypeOK`, `HandlerRooms` (a handler that is not
attached has no room) and `MembershipAgrees`. The actions of `Next` are first
reduced to a few effects (nothing happens to rooms, one is admitted, one departs,
messages are told), lemma `StepEffect`; the invariants are then proved once per
effect, not once per action. `SlotInv` adds `WritersInSession`, that only an open WebSocket
has a writer: without it `SlotsAccounted` is not inductive, for a failed handshake could give
its slot back while a writer runs. `DirectoryImplemented` maps each effect to a step of `RoomDirectory` or to
a stutter: `Admit` within one critical section is why a join is one step.

The rest of the module is about what the members of a room hear of each other. `NobodyMissed` follows from `RoomInv` and the effects:
a member is told of everyone present when it is admitted, and everyone admitted
later has it in its snapshot. `NoGhosts` needs more: `OnceInv` says that a peer is announced to
another by at most one pending announcement, that one who leaves says so after it was announced
(`LastWords`), that announcements go to members of the room they were made for
(`AnnouncedAtHome`) and never to oneself. It assumes `~Rejoin`; the run
`signaling_rejoin` shows that the assumption is needed. `ViewsConverge` and `SignalsIntroduced` are about
what has left the queue. `QueueLeads` relates `view`, what the client has received,
through the queue to `told`, what it will have received, position by position, so that no induction over
the queue is needed; `RelayAfterNews` says that a sender is in the target's `told` when it relays.

**NegotiationProofs.** `Introduced` and `Roles` say that each end is introduced once, before all
else, and that only the lower ID offers. `OfferOnce` and `AnswerOnce` follow the one offer and the one answer
from the decision to send over the wire into the loop of the other end, and say for each
place in which state both connections are; `NoGlare` is what is left of it where a description is applied. `Ready`: a peer
that says its remote description is set has a connection that takes candidates, and there is a batch only
while it is handed over. `Kept` is the first part of `CandidatesKept`, also for a peer not yet introduced.
What is in a queue is said by `Holds`, `Single` and `First`, with one lemma for `Tail` and one for
`Append`, so that the steps reason about kinds of messages and not about positions.

**MeshManagerProofs.** `OneHolder` says that an open connection has exactly one holder: the map,
`handlePeerJoined` before it inserts, a goroutine that took it out in `handlePeerLeft`, or `Stop`; and
that the map holds open connections of the right peer. `HandsFull` says that
a goroutine works on something that is there, `Stopping` how far `Stop` has come: from `Stop`'s taking
of the map on it stays empty, because an insertion looks at the context under the same lock.
`Tuned` and `UIInv` are proved on top of it. `UIInv` has three parts. `Callers`: whoever is about to
call `handlePeerLeft` for a peer is the loop or a callback of a connection made for that peer.
`Overlapping`: two notices of a peer are under way at once only if it is in `overlapped`, and such a peer has had
two connections: lemmas `InsertOverlaps` and `TakeOverlaps` find the second one. `Tiles`, which holds while `Stop` has not been
called: for the other peers, the tile and the map differ exactly by the one notice that is on its way.
How often a peer is announced does not matter to the proof.

**MediaProofs.** The camera. `Holder`: the device is held by the installed session or by `Start`, never by
both, and the UI knows of the installed session or is about to. `OneStart`: one start is under way at
most, in the hands of its command or of one message. `Listened`: the channel the UI listens to is never
that of a session the user switched off; from it the action property follows without a further induction.

The codec. `EncodedFrame` shows that a delta put on the picture it was computed from gives the
picture sent, `NextExact` that a viewer who holds that picture decodes the next frame exactly. That both hold the same picture is the
induction: `FramesFit` (a delta fits the picture of the frame before it, on the wire and at the viewer),
`SenderKnows` (the encoder's previous picture is that of the last frame sent), `ViewerExact` and
`OffShown`. That a viewer who lost the keyframe is not left behind for long needs
`KeyframesCounted`: the frames can be given counts below `KeyframeEvery` such that a delta counts one more than
the frame before it; a viewer without a keyframe has had only deltas, so fewer than `KeyframeEvery` of them.

Playback. `Streams` describes each track by `Stream(q, taken, last)`: the queue holds
consecutive packets up to the last one offered, and what was taken is in order and ends before them, so that
discarding the oldest packet leaves a gap but never turns the order round. `StreamPut`,
`StreamDrop` and `StreamTake` say that the three things that happen to a queue preserve this, and are
proved without the state machine; `PacketNumbers` is the arithmetic from samples to packets and back.
`UpToDate`: an empty queue was taken to its end, and a writer that tries again after discarding has
room, so the newest packet is never the one that is lost. `OpenPlayersOwned` is inductive with the type and
`NotYetOpen` (a track not yet seen has no player).

**SignalClientProofs.** `InOrder` numbers what lies between the server and the mesh: the handled events are
1 to n, and the queue, the pump's hand and the wire continue the count without a gap. `LastWord`: who
writes holds `Client.mu`, and `Close` keeps it from `leave_room` until the connection is closed.
`Admission` ties the pump to the outcome of `Dial`; `FailedDialLeavesNothing` is the state part of `EndsCleanly`.

**CallAppProofs.** `OneCall` ties the screen, the error and the mesh to how far the one call has come;
`Noted` says what the event loop has noted of each peer, so that a frame that comes after `PeerLeave` makes no
tile; `Muting` and `OneTrack` say in whose hands the microphone is while `Start` is between its two critical
sections; `Ending` how far the clean-up has come. `Abort` takes no part in it: after an error of `Run`
the last part of `MicTruthful` promises nothing.

**ServerStartProofs.** `ValidatorsAgree` compares the three validators for every configuration of
integers: no step on the way from `validateServer` to a running server can refuse it.
`WrittenOK` carries that what stands for a number is one, in each place where it may be
written; `Holdings` and `ServingOK` say which sockets `run` and the serving goroutine hold where each stands.

Every invariant and every action property of the passing runs is stated by a theorem. Only model-checked is liveness,
which is outside the prover's reach, as is `ENABLED`: `SessionsEnd`, `AnnouncementsArrive`, `StopCompletes`,
`Connects`, `DeviceReleased`, `DeadStreamNoticed`, `EndNoticed`, `EndsCleanly` (except its state part),
`SilentAfterLeaving`, `Responsive` and `StopsWhenAsked`.

## 6. Not modelled

Field validation of protocol messages, the text encoding of frames and its size
limits, rendering of images to cells, Opus, the credentials of TURN, the quoting rules of
the `.env` file, layout and themes: pure functions or library calls without
interleaving. Rate limits (messages per session, frames per peer) only drop what
arrives; refusals by rate appear as refused requests. The statistics of a peer are
arithmetic on what WebRTC reports; that they appear and go with the peer is in `CallApp`.
The builds without cgo have no microphone and no player: their `Start` returns an
error, which is one of the outcomes modelled. `CallApp` sees the mesh from outside and each peer arrives
once in it, so that the part of `AddPeer` which takes a returning peer out of `removedPeers` is not exercised.
Two connections of one peer, one after the other, are in `MeshManager`, whose `ui` is the set of tiles and
not the call screen. A client that comes back after `peer_left` has a new peer ID, and is another peer.

## 7. Plan

What is left is a composition of `SignalClient` with `Signaling`, in place of the assumption that
`leave_room` comes last, which `SignalClient` keeps (`LeaveAlwaysLast`) and `Signaling` takes (`~Rejoin`).
