------------------------------ MODULE CallApp ------------------------------
(***************************************************************************)
(* The client program around a call: the screens (internal/tui/app.go,     *)
(* home.go), the call screen's messages (call.go), the microphone          *)
(* (internal/capture/microphone_cgo.go) and what main does from the first  *)
(* screen to the exit (cmd/termcall/main.go).                              *)
(*                                                                         *)
(* One goroutine, bubbletea's event loop, runs every Update.  Everything   *)
(* else reaches it with Send: the input reader, the commands (startCall,   *)
(* Microphone.Start, tea.Quit), the mesh's loop and the callbacks of its   *)
(* connections.  Send blocks until the event loop takes the message, and   *)
(* does nothing once the program has ended.  The mesh is here what the UI  *)
(* sees of it: who is in Peers, its lock, and its notifications; module    *)
(* MeshManager has the rest.                                               *)
(***************************************************************************)
EXTENDS Naturals

CONSTANTS PeerIDs,   \* remote peers
          MaxKeys,   \* bound: key presses and resizes, not counting quits
          None

ASSUME AppAssumption == MaxKeys \in Nat /\ None \notin PeerIDs

VARIABLES
  \* AppModel
  screen,       \* "home", "connecting" or "call"
  home,         \* homeModel: "editing", "completed", or "nil"
  connectError, \* an error is shown on the connecting screen
  sized,        \* who knows the size of the window: "app", "call"
  \* startCall
  call,         \* "none", "dialing", "ready" and "failed" (the message is
                \* being sent), "inCall" and "gaveUp" (it was handled)
  cleanup,      \* main's cleanup function is set
  \* bubbletea and main
  ui,           \* the event loop: "idle"; in SetMuteAudio "locking", then
                \* "replacing"; "stuck" in a Send of its own
  want,         \* the argument of SetMuteAudio
  key, keys,    \* the input being sent, and how many there were
  quitting,     \* a QuitMsg is being sent
  main,         \* "running"; "quit", "cancelled", "closed", "stopping" and
                \* "exited", main has returned; or "failed" and "aborted"
  \* MeshManager
  mesh,         \* "off", "start" in Start, "loop" in the loop, "ended"
  at, cur,      \* handlePeerJoined: "idle", "inserted", "joining"; its peer
  mu,           \* handlePeerJoined holds the manager's lock
  peer,         \* peer[p]: "new", "in" Peers, "leaving" (taken out, the
                \* message is being sent), "left"
  frame,        \* frame[p]: a frame of p is being sent
  muted,
  \* CallModel
  tiles,        \* peers, peerNames
  removed,      \* removedPeers
  stats,        \* peers with statistics and volumes
  micOn, micStarting,
  \* Microphone
  track,        \* a track is installed
  starting, generation,
  start,        \* Start: "idle", "called", "opening", "opened", "installed", "failed"
  startGen,     \* the generation Start has read
  device        \* the device is open

appVars == <<screen, home, connectError, sized>>
callVars == <<call, cleanup>>
teaVars == <<ui, want, key, keys, quitting, main>>
meshVars == <<mesh, at, cur, mu, peer, frame>>
tileVars == <<tiles, removed, stats>>
audioVars == <<muted, micOn, micStarting>>
micVars == <<track, starting, generation, start, startGen, device>>

vars == <<appVars, callVars, teaVars, meshVars, tileVars, audioVars, micVars>>

Inputs == {"submit", "toggle", "resize", "enter"}

\* With -username and -room the call is set up before the program starts,
\* and its Init command runs mesh.Start; otherwise there is the form.
Init ==
  /\ \/ screen = "home" /\ home = "editing" /\ call = "none" /\ mesh = "off"
     \/ screen = "call" /\ home = "nil" /\ call = "inCall" /\ mesh = "start"
  /\ cleanup = (call = "inCall")
  /\ connectError = FALSE /\ sized = {}
  /\ ui = "idle" /\ want = FALSE /\ key = None /\ keys = 0
  /\ quitting = FALSE /\ main = "running"
  /\ at = "idle" /\ cur = None /\ mu = FALSE
  /\ peer = [p \in PeerIDs |-> "new"] /\ frame = [p \in PeerIDs |-> FALSE]
  /\ tiles = {} /\ removed = {} /\ stats = {}
  /\ muted = TRUE /\ micOn = FALSE /\ micStarting = FALSE
  /\ track = FALSE /\ starting = FALSE /\ generation = 0
  /\ start = "idle" /\ startGen = 0 /\ device = FALSE

\* The event loop can take a message; Send has become a no-op.
Receives == main = "running" /\ ui = "idle"
Ended    == main # "running"

\* What is sent to the call model is dropped on the other screens.
Handled == Receives /\ screen = "call"

\* main has cancelled the context.
CtxDone == main \in {"cancelled", "closed", "stopping", "exited"}

----------------------------------------------------------------------------
\* The user.  (A second quit before the first is obeyed adds nothing.)

Press(k) ==
  /\ key = None /\ main = "running"
  /\ IF k = "quit" THEN ~quitting ELSE keys < MaxKeys
  /\ key' = k
  /\ keys' = IF k = "quit" THEN keys ELSE keys + 1
  /\ UNCHANGED <<appVars, callVars, ui, want, quitting, main, meshVars,
                 tileVars, audioVars, micVars>>

\* The event loop takes input k.
Take(k) == Receives /\ key = k /\ key' = None /\ UNCHANGED keys

\* Mutant of SubmitForm: the completed home model is kept.
SubmitKeeping ==
  /\ Take("submit")
  /\ IF screen = "home"
     THEN /\ screen' = "connecting" /\ connectError' = FALSE
          /\ home' = "completed"
          /\ call' = "dialing"
     ELSE UNCHANGED <<screen, connectError, home, call>>
  /\ UNCHANGED <<sized, cleanup, ui, want, quitting, main, meshVars, tileVars,
                 audioVars, micVars>>

\* The last field of the form is submitted: onReady changes the screen and
\* returns the command that runs startCall; the home model is dropped.
SubmitForm ==
  /\ Take("submit")
  /\ IF screen = "home"
     THEN /\ screen' = "connecting" /\ connectError' = FALSE
          /\ home' = "nil"
          /\ call' = "dialing"
     ELSE UNCHANGED <<screen, connectError, home, call>>
  /\ UNCHANGED <<sized, cleanup, ui, want, quitting, main, meshVars, tileVars,
                 audioVars, micVars>>

\* WindowSizeMsg goes to both models; a completed form calls onReady again,
\* and the command it returns is dropped.
Resize ==
  /\ Take("resize")
  /\ screen' = IF home = "completed" THEN "connecting" ELSE screen
  /\ connectError' = IF home = "completed" THEN FALSE ELSE connectError
  /\ sized' = sized \cup {"app"} \cup
              (IF call = "inCall" THEN {"call"} ELSE {})
  /\ UNCHANGED <<home, callVars, ui, want, quitting, main, meshVars, tileVars,
                 audioVars, micVars>>

\* Microphone.Close.
CloseMic ==
  /\ generation' = generation + 1
  /\ track' = FALSE
  /\ device' = (device /\ ~track)
  /\ UNCHANGED <<starting, start, startGen>>

\* "ctrl+c" on any screen, "q" on the last two: the call screen closes the
\* camera and the microphone first; all return the command tea.Quit.
QuitKey ==
  /\ Take("quit")
  /\ quitting' = TRUE
  /\ IF screen = "call" THEN CloseMic ELSE UNCHANGED micVars
  /\ UNCHANGED <<appVars, callVars, ui, want, main, meshVars, tileVars,
                 audioVars>>

\* "enter" quits only where an error is shown.
EnterKey ==
  /\ Take("enter")
  /\ quitting' = (quitting \/ (screen = "connecting" /\ connectError))
  /\ UNCHANGED <<appVars, callVars, ui, want, main, meshVars, tileVars,
                 audioVars, micVars>>

----------------------------------------------------------------------------
\* startCall in its command.

\* Dial and NewMeshManager succeed (or not, as when the context is done);
\* cleanup is set under its lock.
BuildCall ==
  /\ call = "dialing"
  /\ \/ call' = "ready" /\ cleanup' = TRUE
     \/ call' = "failed" /\ UNCHANGED cleanup
  /\ UNCHANGED <<appVars, teaVars, meshVars, tileVars, audioVars, micVars>>

\* CallReadyMsg; Init of the call model runs mesh.Start in a command.
CallReady ==
  /\ Receives /\ call \in {"ready", "failed"}
  /\ IF call = "failed"
     THEN /\ connectError' = TRUE /\ call' = "gaveUp"
          /\ UNCHANGED <<screen, sized, mesh>>
     ELSE /\ screen' = "call" /\ call' = "inCall"
          /\ sized' = IF "app" \in sized THEN sized \cup {"call"} ELSE sized
          /\ mesh' = "start"
          /\ UNCHANGED connectError
  /\ UNCHANGED <<home, cleanup, teaVars, at, cur, mu, peer, frame, tileVars,
                 audioVars, micVars>>

----------------------------------------------------------------------------
\* The mesh.

\* handlePeerJoined puts the peer into Peers under the lock ...
InsertPeer(p) ==
  /\ mesh \in {"start", "loop"} /\ at = "idle" /\ ~CtxDone
  /\ peer[p] = "new"
  /\ peer' = [peer EXCEPT ![p] = "in"]
  /\ at' = "inserted" /\ cur' = p /\ mu' = TRUE
  /\ UNCHANGED <<appVars, callVars, teaVars, mesh, frame, tileVars, audioVars,
                 micVars>>

\* Mutant of Unlock: OnPeerJoin is called with the lock held.
NotifyLocked ==
  /\ at = "inserted"
  /\ at' = "joining"
  /\ UNCHANGED <<appVars, callVars, teaVars, mesh, cur, mu, peer, frame,
                 tileVars, audioVars, micVars>>

\* ... lets go of it, and calls OnPeerJoin, which sends PeerJoinMsg.
Unlock ==
  /\ at = "inserted"
  /\ at' = "joining" /\ mu' = FALSE
  /\ UNCHANGED <<appVars, callVars, teaVars, mesh, cur, peer, frame, tileVars,
                 audioVars, micVars>>

\* PeerJoinMsg: AddPeer.
PeerJoin ==
  /\ at = "joining" /\ (Receives \/ Ended)
  /\ at' = "idle" /\ mu' = FALSE
  /\ IF Handled
     THEN tiles' = tiles \cup {cur} /\ removed' = removed \ {cur}
     ELSE UNCHANGED <<tiles, removed>>
  /\ UNCHANGED <<appVars, callVars, teaVars, mesh, cur, peer, frame, stats,
                 audioVars, micVars>>

\* The data channel of p hands a frame to OnFrame, once it was registered.
FrameArrives(p) ==
  /\ peer[p] = "in" /\ ~(cur = p /\ at # "idle") /\ ~frame[p]
  /\ frame' = [frame EXCEPT ![p] = TRUE]
  /\ UNCHANGED <<appVars, callVars, teaVars, mesh, at, cur, mu, peer, tileVars,
                 audioVars, micVars>>

\* Mutant of PeerFrame: removedPeers is not looked at.
PeerFrameAlways(p) ==
  /\ frame[p] /\ (Receives \/ Ended)
  /\ frame' = [frame EXCEPT ![p] = FALSE]
  /\ tiles' = IF Handled THEN tiles \cup {p} ELSE tiles
  /\ UNCHANGED <<appVars, callVars, teaVars, mesh, at, cur, mu, peer, removed,
                 stats, audioVars, micVars>>

\* PeerFrameMsg: handlePeerFrame.
PeerFrame(p) ==
  /\ frame[p] /\ (Receives \/ Ended)
  /\ frame' = [frame EXCEPT ![p] = FALSE]
  /\ tiles' = IF Handled /\ p \notin removed
              THEN tiles \cup {p} ELSE tiles
  /\ UNCHANGED <<appVars, callVars, teaVars, mesh, at, cur, mu, peer, removed,
                 stats, audioVars, micVars>>

\* handlePeerLeft, in the loop or in a callback of the connection.
TakePeer(p) ==
  /\ peer[p] = "in" /\ ~(cur = p /\ at # "idle") /\ ~mu
  /\ peer' = [peer EXCEPT ![p] = "leaving"]
  /\ UNCHANGED <<appVars, callVars, teaVars, mesh, at, cur, mu, frame,
                 tileVars, audioVars, micVars>>

\* PeerLeaveMsg: RemovePeer.
PeerLeave(p) ==
  /\ peer[p] = "leaving" /\ (Receives \/ Ended)
  /\ peer' = [peer EXCEPT ![p] = "left"]
  /\ IF Handled
     THEN /\ tiles' = tiles \ {p} /\ stats' = stats \ {p}
          /\ removed' = removed \cup {p}
     ELSE UNCHANGED tileVars
  /\ UNCHANGED <<appVars, callVars, teaVars, mesh, at, cur, mu, frame,
                 audioVars, micVars>>

\* Start has handled the initial peers; the loop runs until it is cancelled.
StartLoop ==
  /\ mesh = "start" /\ at = "idle"
  /\ mesh' = "loop"
  /\ UNCHANGED <<appVars, callVars, teaVars, at, cur, mu, peer, frame,
                 tileVars, audioVars, micVars>>

EndLoop ==
  /\ mesh = "loop" /\ at = "idle" /\ CtxDone
  /\ mesh' = "ended"
  /\ UNCHANGED <<appVars, callVars, teaVars, at, cur, mu, peer, frame,
                 tileVars, audioVars, micVars>>

\* StatsTickMsg and VolumeTickMsg read Peers under the lock.
Tick ==
  /\ Handled /\ ~mu
  /\ stats' = stats \cup {p \in PeerIDs : peer[p] = "in"}
  /\ UNCHANGED <<appVars, callVars, teaVars, meshVars, tiles, removed,
                 audioVars, micVars>>

----------------------------------------------------------------------------
\* The microphone.

\* toggleMicrophone, the key "m".  Switched on it is a command that runs
\* Start; switched off, SetMuteAudio comes first.
ToggleMic ==
  /\ Take("toggle")
  /\ \/ /\ screen # "call" \/ micStarting
        /\ UNCHANGED <<ui, want, micStarting, start>>
     \/ /\ screen = "call" /\ ~micStarting /\ micOn
        /\ ui' = "locking" /\ want' = TRUE
        /\ UNCHANGED <<micStarting, start>>
     \/ /\ screen = "call" /\ ~micStarting /\ ~micOn
        /\ micStarting' = TRUE /\ start' = "called"
        /\ UNCHANGED <<ui, want>>
  /\ UNCHANGED <<appVars, callVars, quitting, main, meshVars, tileVars, muted,
                 micOn, track, starting, generation, startGen, device>>

\* Microphone.Start: the first critical section.
BeginStart ==
  /\ start = "called"
  /\ IF track \/ starting
     THEN start' = "failed" /\ UNCHANGED <<starting, startGen>>
     ELSE start' = "opening" /\ starting' = TRUE /\ startGen' = generation
  /\ UNCHANGED <<appVars, callVars, teaVars, meshVars, tileVars, audioVars,
                 track, generation, device>>

\* GetUserMedia, which may fail, as may the tests of the context and of the
\* tracks around it.
OpenDevice ==
  /\ start = "opening"
  /\ \/ start' = "opened" /\ device' = TRUE
     \/ start' = "failed" /\ UNCHANGED device
  /\ UNCHANGED <<appVars, callVars, teaVars, meshVars, tileVars, audioVars,
                 track, starting, generation, startGen>>

\* Mutant of InstallTrack: what happened meanwhile is not looked at.
InstallAnyway ==
  /\ start = "opened"
  /\ start' = "installed" /\ track' = TRUE /\ UNCHANGED device
  /\ UNCHANGED <<appVars, callVars, teaVars, meshVars, tileVars, audioVars,
                 starting, generation, startGen>>

\* The second critical section: the track is installed unless Close came in
\* between or the context is done, and closed otherwise.
InstallTrack ==
  /\ start = "opened"
  /\ IF generation # startGen \/ CtxDone
     THEN start' = "failed" /\ device' = FALSE /\ UNCHANGED track
     ELSE start' = "installed" /\ track' = TRUE /\ UNCHANGED device
  /\ UNCHANGED <<appVars, callVars, teaVars, meshVars, tileVars, audioVars,
                 starting, generation, startGen>>

\* The deferred reset of `starting', then MicrophoneStartedMsg: with a
\* track, SetLocalAudioTrack and SetMuteAudio(false).
MicStarted ==
  /\ start \in {"installed", "failed"} /\ (Receives \/ Ended)
  /\ start' = "idle" /\ starting' = FALSE
  /\ micStarting' = (micStarting /\ ~Handled)
  /\ IF Handled /\ start = "installed"
     THEN ui' = "locking" /\ want' = FALSE
     ELSE UNCHANGED <<ui, want>>
  /\ UNCHANGED <<appVars, callVars, key, keys, quitting, main, meshVars,
                 tileVars, muted, micOn, track, generation, startGen, device>>

\* SetMuteAudio stores its argument under the lock ...
SetMuteAudio ==
  /\ ui = "locking" /\ ~mu
  /\ muted' = want
  /\ ui' = "replacing"
  /\ UNCHANGED <<appVars, callVars, want, key, keys, quitting, main, meshVars,
                 tileVars, micOn, micStarting, micVars>>

\* ... and gives the track to every peer; then the handler that called it
\* ends, closing the microphone if it was switched off.
AfterMute ==
  /\ ui = "replacing"
  /\ ui' = "idle" /\ micOn' = ~want
  /\ IF want THEN CloseMic ELSE UNCHANGED micVars
  /\ UNCHANGED <<appVars, callVars, want, key, keys, quitting, main, meshVars,
                 tileVars, muted, micStarting>>

\* A sender refuses the track: notifyError calls OnError, whose Send waits
\* for the event loop, and the event loop is here.
TrackRefused ==
  /\ ui = "locking" /\ ~mu /\ \E p \in PeerIDs : peer[p] = "in"
  /\ muted' = want
  /\ ui' = "stuck"
  /\ UNCHANGED <<appVars, callVars, want, key, keys, quitting, main, meshVars,
                 tileVars, micOn, micStarting, micVars>>

----------------------------------------------------------------------------
\* The end.

\* SIGTERM: bubbletea sends itself a QuitMsg.
Terminate ==
  /\ main = "running" /\ ~quitting
  /\ quitting' = TRUE
  /\ UNCHANGED <<appVars, callVars, ui, want, key, keys, main, meshVars,
                 tileVars, audioVars, micVars>>

\* Run returns an error: SIGINT was sent to the process, the input could not
\* be read, or a handler or command panicked ...
RunFails ==
  /\ Receives
  /\ main' = "failed"
  /\ UNCHANGED <<appVars, callVars, ui, want, key, keys, quitting, meshVars,
                 tileVars, audioVars, micVars>>

\* ... and main calls os.Exit, which runs no deferred function: nothing is
\* cancelled, closed or stopped.
Abort ==
  /\ main = "failed"
  /\ main' = "aborted"
  /\ UNCHANGED <<appVars, callVars, ui, want, key, keys, quitting, meshVars,
                 tileVars, audioVars, micVars>>

\* QuitMsg: Run returns, without an error.
Quit ==
  /\ Receives /\ quitting
  /\ main' = "quit" /\ quitting' = FALSE
  /\ UNCHANGED <<appVars, callVars, ui, want, key, keys, meshVars, tileVars,
                 audioVars, micVars>>

\* main's deferred function: cancel; then, if there is a call, camera and
\* microphone are closed ...
Cancel ==
  /\ main = "quit"
  /\ main' = "cancelled"
  /\ UNCHANGED <<appVars, callVars, ui, want, key, keys, quitting, meshVars,
                 tileVars, audioVars, micVars>>

CleanupMic ==
  /\ main = "cancelled"
  /\ IF cleanup THEN main' = "closed" /\ CloseMic
     ELSE main' = "exited" /\ UNCHANGED micVars
  /\ UNCHANGED <<appVars, callVars, ui, want, key, keys, quitting, meshVars,
                 tileVars, audioVars>>

\* ... and mesh.Stop takes the peers out and waits for the loop, if Start
\* has got as far as starting it.
StopTake ==
  /\ main = "closed" /\ ~mu
  /\ main' = "stopping"
  /\ peer' = [p \in PeerIDs |-> IF peer[p] = "in" THEN "left" ELSE peer[p]]
  /\ UNCHANGED <<appVars, callVars, ui, want, key, keys, quitting, mesh, at,
                 cur, mu, frame, tileVars, audioVars, micVars>>

StopWait ==
  /\ main = "stopping" /\ mesh # "loop"
  /\ main' = "exited"
  /\ UNCHANGED <<appVars, callVars, ui, want, key, keys, quitting, meshVars,
                 tileVars, audioVars, micVars>>

----------------------------------------------------------------------------
User == \E k \in Inputs \cup {"quit"} : Press(k)

HandleInput == SubmitForm \/ Resize \/ QuitKey \/ EnterKey \/ ToggleMic

MicStep == BeginStart \/ OpenDevice \/ InstallTrack \/ MicStarted

Update == SetMuteAudio \/ AfterMute

MeshStep == Unlock \/ PeerJoin \/ StartLoop \/ EndLoop

MainStep == Quit \/ Cancel \/ CleanupMic \/ StopTake \/ StopWait \/ Abort

\* With main the process ends, and every goroutine with it.
Next ==
  /\ main \notin {"exited", "aborted"}
  /\ \/ User \/ HandleInput \/ BuildCall \/ CallReady \/ Tick
     \/ MicStep \/ Update \/ TrackRefused \/ MeshStep \/ MainStep
     \/ Terminate \/ RunFails
     \/ \E p \in PeerIDs : InsertPeer(p) \/ FrameArrives(p) \/ PeerFrame(p)
                           \/ TakePeer(p) \/ PeerLeave(p)

Spec == Init /\ [][Next]_vars

\* Goroutines run, and the event loop takes each message that waits (the
\* senders queue on the channel).  The user, the peers and the signaling
\* server need not act.
Fairness ==
  /\ WF_vars(HandleInput) /\ WF_vars(BuildCall) /\ WF_vars(CallReady)
  /\ WF_vars(MicStep) /\ WF_vars(Update) /\ WF_vars(MeshStep)
  /\ WF_vars(MainStep)
  /\ \A p \in PeerIDs : WF_vars(PeerFrame(p)) /\ WF_vars(PeerLeave(p))

FairSpec == Spec /\ Fairness

----------------------------------------------------------------------------
\* Properties.

\* Every variable keeps the shape of the Go value it stands for.
TypeOK ==
  /\ screen \in {"home", "connecting", "call"}
  /\ home \in {"editing", "completed", "nil"}
  /\ connectError \in BOOLEAN /\ sized \subseteq {"app", "call"}
  /\ call \in {"none", "dialing", "ready", "failed", "inCall", "gaveUp"}
  /\ cleanup \in BOOLEAN
  /\ ui \in {"idle", "locking", "replacing", "stuck"} /\ want \in BOOLEAN
  /\ key \in Inputs \cup {"quit", None} /\ keys \in 0..MaxKeys
  /\ quitting \in BOOLEAN
  /\ main \in {"running", "quit", "cancelled", "closed", "stopping", "exited",
               "failed", "aborted"}
  /\ mesh \in {"off", "start", "loop", "ended"}
  /\ at \in {"idle", "inserted", "joining"} /\ cur \in PeerIDs \cup {None}
  /\ mu \in BOOLEAN
  /\ peer \in [PeerIDs -> {"new", "in", "leaving", "left"}]
  /\ frame \in [PeerIDs -> BOOLEAN]
  /\ tiles \subseteq PeerIDs /\ removed \subseteq PeerIDs
  /\ stats \subseteq PeerIDs
  /\ muted \in BOOLEAN /\ micOn \in BOOLEAN /\ micStarting \in BOOLEAN
  /\ track \in BOOLEAN /\ starting \in BOOLEAN /\ device \in BOOLEAN
  /\ generation \in Nat /\ startGen \in Nat
  /\ start \in {"idle", "called", "opening", "opened", "installed", "failed"}

\* The screen is where the call is: the connecting screen without an error
\* has a startCall under way (the user is never stranded there), the call
\* screen has the call, and the call is drawn at the size of the window
\* whichever of the two came first.
ScreenFollowsCall ==
  /\ screen = "connecting" =>
       IF connectError THEN call = "gaveUp"
       ELSE call \in {"dialing", "ready", "failed"}
  /\ screen = "call" <=> call = "inCall"
  /\ screen = "call" /\ "app" \in sized => "call" \in sized

\* The tiles are the peers: a peer in the map whose join was taken has one,
\* and one that left has none, nor statistics, although a frame of it or a
\* tick came after its leave.
TilesFollowMesh ==
  main = "running" =>
    \A p \in PeerIDs :
      /\ peer[p] = "in" /\ ~(cur = p /\ at # "idle") => p \in tiles
      /\ p \in tiles \cup stats => peer[p] \in {"in", "leaving"}

\* What the screen says of the microphone is so.  While it says off, the
\* device is closed and the mesh muted; until the user quits, on means that
\* the device is installed and the mesh unmuted.  And when main returns, it
\* leaves the device to nobody but a Start that will close it, and no mesh
\* running; an exit because Run failed skips all of that (Abort) and is not
\* promised anything.
MicTruthful ==
  /\ ui = "idle" /\ ~micOn /\ ~micStarting /\ main = "running" =>
       muted /\ ~device
  /\ ui = "idle" /\ micOn /\ ~quitting /\ main = "running" =>
       ~muted /\ track /\ device
  /\ main = "exited" =>
       /\ device => start = "opened"
       /\ call = "inCall" => \A p \in PeerIDs : peer[p] # "in"

\* The program can always be left: a quit, pressed on whatever screen and
\* whatever the peers, the microphone and startCall are doing, ends it.  And
\* a peer that left goes from the screen.  The one exception is an audio
\* sender that refuses a track inside Update.
Responsive ==
  /\ key = "quit" ~> main \in {"exited", "aborted"} \/ ui = "stuck"
  /\ \A p \in PeerIDs :
       peer[p] = "leaving" ~> peer[p] = "left" \/ main # "running" \/ ui = "stuck"

=============================================================================
