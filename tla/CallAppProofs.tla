--------------------------- MODULE CallAppProofs ---------------------------
(***************************************************************************)
(* Proofs about the client program, for any number of peers and of key     *)
(* presses.                                                                *)
(***************************************************************************)
EXTENDS CallApp, TLAPS

----------------------------------------------------------------------------
\* The inductive invariant.

\* One call at most, and the screen that goes with how far it has come; the
\* mesh and the microphone are used by a call only.
OneCall ==
  /\ home # "completed"
  /\ screen = "home" <=> call = "none"
  /\ screen = "call" <=> call = "inCall"
  /\ connectError <=> call = "gaveUp"
  /\ call = "inCall" /\ "app" \in sized => "call" \in sized
  /\ call \in {"ready", "inCall"} => cleanup
  /\ call # "inCall" =>
       mesh = "off" /\ start = "idle" /\ ui = "idle" /\ ~micOn /\ ~micStarting
       /\ ~track /\ ~device

\* While the program runs, the UI has taken note of what the mesh has told it:
\* a peer that left is remembered, for its last frame may come later.
Noted ==
  /\ at # "idle" => mesh \in {"start", "loop"} /\ cur \in PeerIDs
  /\ \A p \in PeerIDs : peer[p] # "new" => mesh # "off"
  /\ \A p \in PeerIDs : frame[p] => peer[p] # "new"
  /\ main = "running" =>
       /\ at # "idle" => peer[cur] = "in"
       /\ \A p \in PeerIDs : peer[p] = "left" => p \in removed

\* What SetMuteAudio is called for.
Muting ==
  /\ ui # "idle" => main = "running" /\ ~micStarting
  /\ ui \in {"locking", "replacing", "stuck"} => (micOn <=> want)
  /\ ui = "replacing" => (muted <=> want)
  /\ ui = "idle" => (muted <=> ~micOn)

\* A start is under way while the UI says so, and the device is in the hands of
\* Start or of the installed track, which the UI knows of or is told of.
OneTrack ==
  /\ micStarting => ~micOn
  /\ main = "running" => (micStarting <=> start # "idle")
  /\ start \in {"called", "opening", "opened", "failed"} => ~track
  /\ start = "opened" => device
  /\ track => device
  /\ device => track \/ start = "opened"
  /\ main = "running" /\ track => micOn \/ start = "installed" \/ ui # "idle"
  /\ main = "running" /\ ~quitting /\ (micOn \/ start = "installed" \/ ui # "idle")
       => track

\* How far the end has come.
Ending ==
  /\ main \in {"closed", "stopping", "exited"} => ~track
  /\ main = "stopping" \/ (main = "exited" /\ call = "inCall") =>
       \A p \in PeerIDs : peer[p] # "in"

AppInv ==
  TypeOK /\ OneCall /\ Noted /\ TilesFollowMesh /\ Muting /\ OneTrack /\ Ending

----------------------------------------------------------------------------
\* The conjuncts of the invariant over a step.

\* Every action keeps the types.
LEMMA TypeStep ==
  ASSUME TypeOK, Noted, [Next]_vars
  PROVE  TypeOK'
<1> USE AppAssumption DEF TypeOK, Inputs, Noted, appVars, callVars, teaVars,
        meshVars, tileVars, audioVars, micVars
<1>1. ASSUME NEW k \in Inputs \cup {"quit"}, Press(k) PROVE TypeOK'
  BY <1>1 DEF Press
<1>2. CASE SubmitForm
  <2>1. /\ screen' \in {"home", "connecting", "call"}
        /\ home' \in {"editing", "completed", "nil"}
        /\ call' \in {"none", "dialing", "ready", "failed", "inCall", "gaveUp"}
        /\ key' \in Inputs \cup {"quit", None}
    BY <1>2 DEF SubmitForm, Take, Receives
  <2>2. connectError' \in BOOLEAN
    BY <1>2 DEF SubmitForm, Take, Receives
  <2> QED
    BY <1>2, <2>1, <2>2 DEF SubmitForm, Take
<1>3. CASE Resize
  <2>1. /\ screen' \in {"home", "connecting", "call"}
        /\ sized' \subseteq {"app", "call"}
        /\ key' \in Inputs \cup {"quit", None}
    BY <1>3 DEF Resize, Take, Receives
  <2>2. connectError' \in BOOLEAN
    BY <1>3 DEF Resize, Take, Receives
  <2>3. UNCHANGED <<home, call, cleanup, ui, want, keys, quitting, main, mesh,
                    at, cur, mu, peer, frame, tiles, removed, stats>>
    BY <1>3 DEF Resize, Take
  <2>4. UNCHANGED <<muted, micOn, micStarting, track, starting, generation,
                    start, startGen, device>>
    BY <1>3 DEF Resize
  <2> QED
    BY <2>1, <2>2, <2>3, <2>4
<1>4. CASE QuitKey
  <2>1. /\ key' \in Inputs \cup {"quit", None}
        /\ generation' \in Nat
    BY <1>4 DEF QuitKey, Take, Receives, CloseMic
  <2>2. /\ quitting' \in BOOLEAN
        /\ track' \in BOOLEAN
        /\ device' \in BOOLEAN
    BY <1>4 DEF QuitKey, Take, Receives, CloseMic
  <2> QED
    BY <1>4, <2>1, <2>2 DEF QuitKey, Take, CloseMic
<1>5. CASE EnterKey
  BY <1>5 DEF EnterKey, Take, Receives
<1>6. CASE ToggleMic
  <2>1. /\ key' \in Inputs \cup {"quit", None}
        /\ ui' \in {"idle", "locking", "replacing", "stuck"}
        /\ start' \in {"idle", "called", "opening", "opened", "installed", "failed"}
    BY <1>6 DEF ToggleMic, Take, Receives
  <2>2. /\ want' \in BOOLEAN
        /\ micStarting' \in BOOLEAN
    BY <1>6 DEF ToggleMic, Take, Receives
  <2> QED
    BY <1>6, <2>1, <2>2 DEF ToggleMic, Take
<1>7. CASE BuildCall
  <2>1. call' \in {"none", "dialing", "ready", "failed", "inCall", "gaveUp"}
    BY <1>7 DEF BuildCall
  <2>2. cleanup' \in BOOLEAN
    BY <1>7 DEF BuildCall
  <2> QED
    BY <1>7, <2>1, <2>2 DEF BuildCall
<1>8. CASE CallReady
  <2>1. /\ screen' \in {"home", "connecting", "call"}
        /\ call' \in {"none", "dialing", "ready", "failed", "inCall", "gaveUp"}
        /\ sized' \subseteq {"app", "call"}
        /\ mesh' \in {"off", "start", "loop", "ended"}
    BY <1>8 DEF CallReady, Receives
  <2>2. connectError' \in BOOLEAN
    BY <1>8 DEF CallReady, Receives
  <2> QED
    BY <1>8, <2>1, <2>2 DEF CallReady
<1>9. CASE Tick
  BY <1>9 DEF Tick, Handled, Receives
<1>10. CASE BeginStart
  <2>1. /\ start' \in {"idle", "called", "opening", "opened", "installed", "failed"}
        /\ startGen' \in Nat
    BY <1>10 DEF BeginStart
  <2>2. starting' \in BOOLEAN
    BY <1>10 DEF BeginStart
  <2> QED
    BY <1>10, <2>1, <2>2 DEF BeginStart
<1>11. CASE OpenDevice
  <2>1. start' \in {"idle", "called", "opening", "opened", "installed", "failed"}
    BY <1>11 DEF OpenDevice
  <2>2. device' \in BOOLEAN
    BY <1>11 DEF OpenDevice
  <2> QED
    BY <1>11, <2>1, <2>2 DEF OpenDevice
<1>12. CASE InstallTrack
  <2>1. start' \in {"idle", "called", "opening", "opened", "installed", "failed"}
    BY <1>12 DEF InstallTrack, CtxDone
  <2>2. /\ device' \in BOOLEAN
        /\ track' \in BOOLEAN
    BY <1>12 DEF InstallTrack, CtxDone
  <2> QED
    BY <1>12, <2>1, <2>2 DEF InstallTrack
<1>13. CASE MicStarted
  <2>1. /\ start' \in {"idle", "called", "opening", "opened", "installed", "failed"}
        /\ ui' \in {"idle", "locking", "replacing", "stuck"}
    BY <1>13 DEF MicStarted, Handled, Receives, Ended
  <2>2. /\ starting' \in BOOLEAN
        /\ micStarting' \in BOOLEAN
        /\ want' \in BOOLEAN
    BY <1>13 DEF MicStarted, Handled, Receives, Ended
  <2> QED
    BY <1>13, <2>1, <2>2 DEF MicStarted
<1>14. CASE SetMuteAudio
  BY <1>14 DEF SetMuteAudio
<1>15. CASE AfterMute
  <2>1. /\ ui' \in {"idle", "locking", "replacing", "stuck"}
        /\ generation' \in Nat
    BY <1>15 DEF AfterMute, CloseMic
  <2>2. /\ micOn' \in BOOLEAN
        /\ track' \in BOOLEAN
        /\ device' \in BOOLEAN
    BY <1>15 DEF AfterMute, CloseMic
  <2> QED
    BY <1>15, <2>1, <2>2 DEF AfterMute, CloseMic
<1>16. CASE TrackRefused
  BY <1>16 DEF TrackRefused
<1>17. CASE Unlock
  <2>1. at' \in {"idle", "inserted", "joining"}
    BY <1>17 DEF Unlock
  <2>2. mu' \in BOOLEAN
    BY <1>17 DEF Unlock
  <2> QED
    BY <1>17, <2>1, <2>2 DEF Unlock
<1>18. CASE PeerJoin
  <2>1. /\ at' \in {"idle", "inserted", "joining"}
        /\ tiles' \subseteq PeerIDs
        /\ removed' \subseteq PeerIDs
    BY <1>18 DEF PeerJoin, Handled, Receives, Ended
  <2>2. mu' \in BOOLEAN
    BY <1>18 DEF PeerJoin, Handled, Receives, Ended
  <2> QED
    BY <1>18, <2>1, <2>2 DEF PeerJoin
<1>19. CASE StartLoop
  BY <1>19 DEF StartLoop
<1>20. CASE EndLoop
  BY <1>20 DEF EndLoop, CtxDone
<1>21. CASE Quit
  <2>1. main' \in {"running", "quit", "cancelled", "closed", "stopping",
                 "exited", "failed", "aborted"}
    BY <1>21 DEF Quit, Receives
  <2>2. quitting' \in BOOLEAN
    BY <1>21 DEF Quit, Receives
  <2> QED
    BY <1>21, <2>1, <2>2 DEF Quit
<1>22. CASE Cancel
  BY <1>22 DEF Cancel
<1>23. CASE CleanupMic
  <2>1. /\ main' \in {"running", "quit", "cancelled", "closed", "stopping",
                    "exited", "failed", "aborted"}
        /\ generation' \in Nat
    BY <1>23 DEF CleanupMic, CloseMic
  <2>2. /\ track' \in BOOLEAN
        /\ device' \in BOOLEAN
    BY <1>23 DEF CleanupMic, CloseMic
  <2> QED
    BY <1>23, <2>1, <2>2 DEF CleanupMic, CloseMic
<1>24. CASE StopTake
  BY <1>24 DEF StopTake
<1>25. CASE StopWait
  BY <1>25 DEF StopWait
<1>26. ASSUME NEW p \in PeerIDs, InsertPeer(p) PROVE TypeOK'
  BY <1>26 DEF InsertPeer, CtxDone
<1>27. ASSUME NEW p \in PeerIDs, FrameArrives(p) PROVE TypeOK'
  BY <1>27 DEF FrameArrives
<1>28. ASSUME NEW p \in PeerIDs, PeerFrame(p) PROVE TypeOK'
  BY <1>28 DEF PeerFrame, Handled, Receives, Ended
<1>29. ASSUME NEW p \in PeerIDs, TakePeer(p) PROVE TypeOK'
  BY <1>29 DEF TakePeer
<1>30. ASSUME NEW p \in PeerIDs, PeerLeave(p) PROVE TypeOK'
  BY <1>30 DEF PeerLeave, Handled, Receives, Ended
<1>31. CASE Terminate
  BY <1>31 DEF Terminate
<1>32. CASE RunFails
  BY <1>32 DEF RunFails, Receives
<1>33. CASE Abort
  BY <1>33 DEF Abort
<1>34. CASE UNCHANGED vars
  BY <1>34 DEF vars
<1> QED
  BY <1>1, <1>2, <1>3, <1>4, <1>5, <1>6, <1>7, <1>8, <1>9, <1>10, <1>11, <1>12,
     <1>13, <1>14, <1>15, <1>16, <1>17, <1>18, <1>19, <1>20, <1>21, <1>22,
     <1>23, <1>24, <1>25, <1>26, <1>27, <1>28, <1>29, <1>30, <1>31, <1>32, <1>33,
     <1>34
  DEF Next, User, HandleInput, MicStep, Update, MeshStep, MainStep

\* The form is submitted once, and startCall answers once.
LEMMA OneCallStep ==
  ASSUME TypeOK, OneCall, [Next]_vars
  PROVE  OneCall'
<1> USE DEF TypeOK, OneCall, appVars, callVars, teaVars, meshVars, tileVars,
        audioVars, micVars
<1>1. ASSUME NEW k \in Inputs \cup {"quit"}, Press(k) PROVE OneCall'
  BY <1>1 DEF Press
<1>2. CASE SubmitForm
  BY <1>2 DEF SubmitForm, Take, Receives
<1>3. CASE Resize
  BY <1>3 DEF Resize, Take, Receives
<1>4. CASE QuitKey
  BY <1>4 DEF QuitKey, Take, Receives, CloseMic
<1>5. CASE EnterKey
  BY <1>5 DEF EnterKey, Take, Receives
<1>6. CASE ToggleMic
  BY <1>6 DEF ToggleMic, Take, Receives
<1>7. CASE BuildCall
  BY <1>7 DEF BuildCall
<1>8. CASE CallReady
  <2>1. CASE call = "failed"
    BY <1>8, <2>1 DEF CallReady
  <2>2. CASE call = "ready"
    <3>1. /\ screen' = "call" /\ call' = "inCall" /\ connectError' = FALSE
          /\ cleanup' /\ home' # "completed"
      BY <1>8, <2>2 DEF CallReady
    <3>2. "app" \in sized' => "call" \in sized'
      BY <1>8, <2>2 DEF CallReady
    <3> QED
      BY <3>1, <3>2
  <2> QED
    BY <1>8, <2>1, <2>2 DEF CallReady
<1>9. CASE Tick
  BY <1>9 DEF Tick, Handled, Receives
<1>10. CASE BeginStart
  BY <1>10 DEF BeginStart
<1>11. CASE OpenDevice
  BY <1>11 DEF OpenDevice
<1>12. CASE InstallTrack
  BY <1>12 DEF InstallTrack, CtxDone
<1>13. CASE MicStarted
  BY <1>13 DEF MicStarted, Handled, Receives, Ended
<1>14. CASE SetMuteAudio
  BY <1>14 DEF SetMuteAudio
<1>15. CASE AfterMute
  BY <1>15 DEF AfterMute, CloseMic
<1>16. CASE TrackRefused
  BY <1>16 DEF TrackRefused
<1>17. CASE Unlock
  BY <1>17 DEF Unlock
<1>18. CASE PeerJoin
  BY <1>18 DEF PeerJoin, Handled, Receives, Ended
<1>19. CASE StartLoop
  BY <1>19 DEF StartLoop
<1>20. CASE EndLoop
  BY <1>20 DEF EndLoop, CtxDone
<1>21. CASE Quit
  BY <1>21 DEF Quit, Receives
<1>22. CASE Cancel
  BY <1>22 DEF Cancel
<1>23. CASE CleanupMic
  BY <1>23 DEF CleanupMic, CloseMic
<1>24. CASE StopTake
  BY <1>24 DEF StopTake
<1>25. CASE StopWait
  BY <1>25 DEF StopWait
<1>26. ASSUME NEW p \in PeerIDs, InsertPeer(p) PROVE OneCall'
  BY <1>26 DEF InsertPeer, CtxDone
<1>27. ASSUME NEW p \in PeerIDs, FrameArrives(p) PROVE OneCall'
  BY <1>27 DEF FrameArrives
<1>28. ASSUME NEW p \in PeerIDs, PeerFrame(p) PROVE OneCall'
  BY <1>28 DEF PeerFrame, Handled, Receives, Ended
<1>29. ASSUME NEW p \in PeerIDs, TakePeer(p) PROVE OneCall'
  BY <1>29 DEF TakePeer
<1>30. ASSUME NEW p \in PeerIDs, PeerLeave(p) PROVE OneCall'
  BY <1>30 DEF PeerLeave, Handled, Receives, Ended
<1>31. CASE Terminate
  BY <1>31 DEF Terminate
<1>32. CASE RunFails
  BY <1>32 DEF RunFails, Receives
<1>33. CASE Abort
  BY <1>33 DEF Abort
<1>34. CASE UNCHANGED vars
  BY <1>34 DEF vars
<1> QED
  BY <1>1, <1>2, <1>3, <1>4, <1>5, <1>6, <1>7, <1>8, <1>9, <1>10, <1>11, <1>12,
     <1>13, <1>14, <1>15, <1>16, <1>17, <1>18, <1>19, <1>20, <1>21, <1>22,
     <1>23, <1>24, <1>25, <1>26, <1>27, <1>28, <1>29, <1>30, <1>31, <1>32, <1>33,
     <1>34
  DEF Next, User, HandleInput, MicStep, Update, MeshStep, MainStep

\* The event loop takes every notification of the mesh in order; a frame may
\* be late.
LEMMA NotedStep ==
  ASSUME TypeOK, OneCall, Noted, [Next]_vars
  PROVE  Noted'
<1> USE DEF TypeOK, OneCall, Noted, appVars, callVars, teaVars, meshVars,
        tileVars, audioVars, micVars
<1>1. ASSUME NEW k \in Inputs \cup {"quit"}, Press(k) PROVE Noted'
  BY <1>1 DEF Press
<1>2. CASE SubmitForm
  BY <1>2 DEF SubmitForm, Take, Receives
<1>3. CASE Resize
  BY <1>3 DEF Resize, Take, Receives
<1>4. CASE QuitKey
  BY <1>4 DEF QuitKey, Take, Receives, CloseMic
<1>5. CASE EnterKey
  BY <1>5 DEF EnterKey, Take, Receives
<1>6. CASE ToggleMic
  BY <1>6 DEF ToggleMic, Take, Receives
<1>7. CASE BuildCall
  BY <1>7 DEF BuildCall
<1>8. CASE CallReady
  BY <1>8 DEF CallReady, Receives
<1>9. CASE Tick
  BY <1>9 DEF Tick, Handled, Receives
<1>10. CASE BeginStart
  BY <1>10 DEF BeginStart
<1>11. CASE OpenDevice
  BY <1>11 DEF OpenDevice
<1>12. CASE InstallTrack
  BY <1>12 DEF InstallTrack, CtxDone
<1>13. CASE MicStarted
  BY <1>13 DEF MicStarted, Handled, Receives, Ended
<1>14. CASE SetMuteAudio
  BY <1>14 DEF SetMuteAudio
<1>15. CASE AfterMute
  BY <1>15 DEF AfterMute, CloseMic
<1>16. CASE TrackRefused
  BY <1>16 DEF TrackRefused
<1>17. CASE Unlock
  BY <1>17 DEF Unlock
<1>18. CASE PeerJoin
  BY <1>18 DEF PeerJoin, Handled, Receives, Ended
<1>19. CASE StartLoop
  BY <1>19 DEF StartLoop
<1>20. CASE EndLoop
  BY <1>20 DEF EndLoop, CtxDone
<1>21. CASE Quit
  BY <1>21 DEF Quit, Receives
<1>22. CASE Cancel
  BY <1>22 DEF Cancel
<1>23. CASE CleanupMic
  BY <1>23 DEF CleanupMic, CloseMic
<1>24. CASE StopTake
  BY <1>24 DEF StopTake
<1>25. CASE StopWait
  BY <1>25 DEF StopWait
<1>26. ASSUME NEW p \in PeerIDs, InsertPeer(p) PROVE Noted'
  BY <1>26 DEF InsertPeer, CtxDone
<1>27. ASSUME NEW p \in PeerIDs, FrameArrives(p) PROVE Noted'
  BY <1>27 DEF FrameArrives
<1>28. ASSUME NEW p \in PeerIDs, PeerFrame(p) PROVE Noted'
  BY <1>28 DEF PeerFrame, Handled, Receives, Ended
<1>29. ASSUME NEW p \in PeerIDs, TakePeer(p) PROVE Noted'
  BY <1>29 DEF TakePeer
<1>30. ASSUME NEW p \in PeerIDs, PeerLeave(p) PROVE Noted'
  BY <1>30 DEF PeerLeave, Handled, Receives, Ended
<1>31. CASE Terminate
  BY <1>31 DEF Terminate
<1>32. CASE RunFails
  BY <1>32 DEF RunFails, Receives
<1>33. CASE Abort
  BY <1>33 DEF Abort
<1>34. CASE UNCHANGED vars
  BY <1>34 DEF vars
<1> QED
  BY <1>1, <1>2, <1>3, <1>4, <1>5, <1>6, <1>7, <1>8, <1>9, <1>10, <1>11, <1>12,
     <1>13, <1>14, <1>15, <1>16, <1>17, <1>18, <1>19, <1>20, <1>21, <1>22,
     <1>23, <1>24, <1>25, <1>26, <1>27, <1>28, <1>29, <1>30, <1>31, <1>32, <1>33,
     <1>34
  DEF Next, User, HandleInput, MicStep, Update, MeshStep, MainStep

\* A frame makes no tile for a peer that is gone.
LEMMA TilesStep ==
  ASSUME TypeOK, OneCall, Noted, TilesFollowMesh, [Next]_vars
  PROVE  TilesFollowMesh'
<1> USE DEF TypeOK, OneCall, Noted, TilesFollowMesh, appVars, callVars,
        teaVars, meshVars, tileVars, audioVars, micVars
<1>1. ASSUME NEW k \in Inputs \cup {"quit"}, Press(k) PROVE TilesFollowMesh'
  BY <1>1 DEF Press
<1>2. CASE SubmitForm
  BY <1>2 DEF SubmitForm, Take, Receives
<1>3. CASE Resize
  BY <1>3 DEF Resize, Take, Receives
<1>4. CASE QuitKey
  BY <1>4 DEF QuitKey, Take, Receives, CloseMic
<1>5. CASE EnterKey
  BY <1>5 DEF EnterKey, Take, Receives
<1>6. CASE ToggleMic
  BY <1>6 DEF ToggleMic, Take, Receives
<1>7. CASE BuildCall
  BY <1>7 DEF BuildCall
<1>8. CASE CallReady
  BY <1>8 DEF CallReady, Receives
<1>9. CASE Tick
  BY <1>9 DEF Tick, Handled, Receives
<1>10. CASE BeginStart
  BY <1>10 DEF BeginStart
<1>11. CASE OpenDevice
  BY <1>11 DEF OpenDevice
<1>12. CASE InstallTrack
  BY <1>12 DEF InstallTrack, CtxDone
<1>13. CASE MicStarted
  BY <1>13 DEF MicStarted, Handled, Receives, Ended
<1>14. CASE SetMuteAudio
  BY <1>14 DEF SetMuteAudio
<1>15. CASE AfterMute
  BY <1>15 DEF AfterMute, CloseMic
<1>16. CASE TrackRefused
  BY <1>16 DEF TrackRefused
<1>17. CASE Unlock
  BY <1>17 DEF Unlock
<1>18. CASE PeerJoin
  BY <1>18 DEF PeerJoin, Handled, Receives, Ended
<1>19. CASE StartLoop
  BY <1>19 DEF StartLoop
<1>20. CASE EndLoop
  BY <1>20 DEF EndLoop, CtxDone
<1>21. CASE Quit
  BY <1>21 DEF Quit, Receives
<1>22. CASE Cancel
  BY <1>22 DEF Cancel
<1>23. CASE CleanupMic
  BY <1>23 DEF CleanupMic, CloseMic
<1>24. CASE StopTake
  BY <1>24 DEF StopTake
<1>25. CASE StopWait
  BY <1>25 DEF StopWait
<1>26. ASSUME NEW p \in PeerIDs, InsertPeer(p) PROVE TilesFollowMesh'
  BY <1>26 DEF InsertPeer, CtxDone
<1>27. ASSUME NEW p \in PeerIDs, FrameArrives(p) PROVE TilesFollowMesh'
  BY <1>27 DEF FrameArrives
<1>28. ASSUME NEW p \in PeerIDs, PeerFrame(p) PROVE TilesFollowMesh'
  BY <1>28 DEF PeerFrame, Handled, Receives, Ended
<1>29. ASSUME NEW p \in PeerIDs, TakePeer(p) PROVE TilesFollowMesh'
  BY <1>29 DEF TakePeer
<1>30. ASSUME NEW p \in PeerIDs, PeerLeave(p) PROVE TilesFollowMesh'
  BY <1>30 DEF PeerLeave, Handled, Receives, Ended
<1>31. CASE Terminate
  BY <1>31 DEF Terminate
<1>32. CASE RunFails
  BY <1>32 DEF RunFails, Receives
<1>33. CASE Abort
  BY <1>33 DEF Abort
<1>34. CASE UNCHANGED vars
  BY <1>34 DEF vars
<1> QED
  BY <1>1, <1>2, <1>3, <1>4, <1>5, <1>6, <1>7, <1>8, <1>9, <1>10, <1>11, <1>12,
     <1>13, <1>14, <1>15, <1>16, <1>17, <1>18, <1>19, <1>20, <1>21, <1>22,
     <1>23, <1>24, <1>25, <1>26, <1>27, <1>28, <1>29, <1>30, <1>31, <1>32, <1>33,
     <1>34
  DEF Next, User, HandleInput, MicStep, Update, MeshStep, MainStep

\* The event loop does nothing else while SetMuteAudio runs.
LEMMA MutingStep ==
  ASSUME TypeOK, OneCall, Muting, OneTrack, [Next]_vars
  PROVE  Muting'
<1> USE DEF TypeOK, OneCall, Muting, OneTrack, appVars, callVars, teaVars,
        meshVars, tileVars, audioVars, micVars
<1>1. ASSUME NEW k \in Inputs \cup {"quit"}, Press(k) PROVE Muting'
  BY <1>1 DEF Press
<1>2. CASE SubmitForm
  BY <1>2 DEF SubmitForm, Take, Receives
<1>3. CASE Resize
  BY <1>3 DEF Resize, Take, Receives
<1>4. CASE QuitKey
  BY <1>4 DEF QuitKey, Take, Receives, CloseMic
<1>5. CASE EnterKey
  BY <1>5 DEF EnterKey, Take, Receives
<1>6. CASE ToggleMic
  <2>1. CASE screen # "call" \/ micStarting
    BY <1>6, <2>1 DEF ToggleMic, Take, Receives
  <2>2. CASE screen = "call" /\ ~micStarting /\ micOn
    BY <1>6, <2>2 DEF ToggleMic, Take, Receives
  <2>3. CASE screen = "call" /\ ~micStarting /\ ~micOn
    BY <1>6, <2>3 DEF ToggleMic, Take, Receives
  <2> QED
    BY <1>6, <2>1, <2>2, <2>3 DEF ToggleMic
<1>7. CASE BuildCall
  BY <1>7 DEF BuildCall
<1>8. CASE CallReady
  BY <1>8 DEF CallReady, Receives
<1>9. CASE Tick
  BY <1>9 DEF Tick, Handled, Receives
<1>10. CASE BeginStart
  BY <1>10 DEF BeginStart
<1>11. CASE OpenDevice
  BY <1>11 DEF OpenDevice
<1>12. CASE InstallTrack
  BY <1>12 DEF InstallTrack, CtxDone
<1>13. CASE MicStarted
  BY <1>13 DEF MicStarted, Handled, Receives, Ended
<1>14. CASE SetMuteAudio
  BY <1>14 DEF SetMuteAudio
<1>15. CASE AfterMute
  BY <1>15 DEF AfterMute, CloseMic
<1>16. CASE TrackRefused
  BY <1>16 DEF TrackRefused
<1>17. CASE Unlock
  BY <1>17 DEF Unlock
<1>18. CASE PeerJoin
  BY <1>18 DEF PeerJoin, Handled, Receives, Ended
<1>19. CASE StartLoop
  BY <1>19 DEF StartLoop
<1>20. CASE EndLoop
  BY <1>20 DEF EndLoop, CtxDone
<1>21. CASE Quit
  BY <1>21 DEF Quit, Receives
<1>22. CASE Cancel
  BY <1>22 DEF Cancel
<1>23. CASE CleanupMic
  BY <1>23 DEF CleanupMic, CloseMic
<1>24. CASE StopTake
  BY <1>24 DEF StopTake
<1>25. CASE StopWait
  BY <1>25 DEF StopWait
<1>26. ASSUME NEW p \in PeerIDs, InsertPeer(p) PROVE Muting'
  BY <1>26 DEF InsertPeer, CtxDone
<1>27. ASSUME NEW p \in PeerIDs, FrameArrives(p) PROVE Muting'
  BY <1>27 DEF FrameArrives
<1>28. ASSUME NEW p \in PeerIDs, PeerFrame(p) PROVE Muting'
  BY <1>28 DEF PeerFrame, Handled, Receives, Ended
<1>29. ASSUME NEW p \in PeerIDs, TakePeer(p) PROVE Muting'
  BY <1>29 DEF TakePeer
<1>30. ASSUME NEW p \in PeerIDs, PeerLeave(p) PROVE Muting'
  BY <1>30 DEF PeerLeave, Handled, Receives, Ended
<1>31. CASE Terminate
  BY <1>31 DEF Terminate
<1>32. CASE RunFails
  BY <1>32 DEF RunFails, Receives
<1>33. CASE Abort
  BY <1>33 DEF Abort
<1>34. CASE UNCHANGED vars
  BY <1>34 DEF vars
<1> QED
  BY <1>1, <1>2, <1>3, <1>4, <1>5, <1>6, <1>7, <1>8, <1>9, <1>10, <1>11, <1>12,
     <1>13, <1>14, <1>15, <1>16, <1>17, <1>18, <1>19, <1>20, <1>21, <1>22,
     <1>23, <1>24, <1>25, <1>26, <1>27, <1>28, <1>29, <1>30, <1>31, <1>32, <1>33,
     <1>34
  DEF Next, User, HandleInput, MicStep, Update, MeshStep, MainStep

\* Start and Close hand the device over under the microphone's lock.
LEMMA OneTrackStep ==
  ASSUME TypeOK, OneCall, Muting, OneTrack, Ending, [Next]_vars
  PROVE  OneTrack'
<1> USE DEF TypeOK, OneCall, Muting, OneTrack, Ending, appVars, callVars,
        teaVars, meshVars, tileVars, audioVars, micVars
<1>1. ASSUME NEW k \in Inputs \cup {"quit"}, Press(k) PROVE OneTrack'
  BY <1>1 DEF Press
<1>2. CASE SubmitForm
  BY <1>2 DEF SubmitForm, Take, Receives
<1>3. CASE Resize
  BY <1>3 DEF Resize, Take, Receives
<1>4. CASE QuitKey
  BY <1>4 DEF QuitKey, Take, Receives, CloseMic
<1>5. CASE EnterKey
  BY <1>5 DEF EnterKey, Take, Receives
<1>6. CASE ToggleMic
  BY <1>6 DEF ToggleMic, Take, Receives
<1>7. CASE BuildCall
  BY <1>7 DEF BuildCall
<1>8. CASE CallReady
  BY <1>8 DEF CallReady, Receives
<1>9. CASE Tick
  BY <1>9 DEF Tick, Handled, Receives
<1>10. CASE BeginStart
  BY <1>10 DEF BeginStart
<1>11. CASE OpenDevice
  BY <1>11 DEF OpenDevice
<1>12. CASE InstallTrack
  BY <1>12 DEF InstallTrack, CtxDone
<1>13. CASE MicStarted
  BY <1>13 DEF MicStarted, Handled, Receives, Ended
<1>14. CASE SetMuteAudio
  BY <1>14 DEF SetMuteAudio
<1>15. CASE AfterMute
  BY <1>15 DEF AfterMute, CloseMic
<1>16. CASE TrackRefused
  BY <1>16 DEF TrackRefused
<1>17. CASE Unlock
  BY <1>17 DEF Unlock
<1>18. CASE PeerJoin
  BY <1>18 DEF PeerJoin, Handled, Receives, Ended
<1>19. CASE StartLoop
  BY <1>19 DEF StartLoop
<1>20. CASE EndLoop
  BY <1>20 DEF EndLoop, CtxDone
<1>21. CASE Quit
  BY <1>21 DEF Quit, Receives
<1>22. CASE Cancel
  BY <1>22 DEF Cancel
<1>23. CASE CleanupMic
  BY <1>23 DEF CleanupMic, CloseMic
<1>24. CASE StopTake
  BY <1>24 DEF StopTake
<1>25. CASE StopWait
  BY <1>25 DEF StopWait
<1>26. ASSUME NEW p \in PeerIDs, InsertPeer(p) PROVE OneTrack'
  BY <1>26 DEF InsertPeer, CtxDone
<1>27. ASSUME NEW p \in PeerIDs, FrameArrives(p) PROVE OneTrack'
  BY <1>27 DEF FrameArrives
<1>28. ASSUME NEW p \in PeerIDs, PeerFrame(p) PROVE OneTrack'
  BY <1>28 DEF PeerFrame, Handled, Receives, Ended
<1>29. ASSUME NEW p \in PeerIDs, TakePeer(p) PROVE OneTrack'
  BY <1>29 DEF TakePeer
<1>30. ASSUME NEW p \in PeerIDs, PeerLeave(p) PROVE OneTrack'
  BY <1>30 DEF PeerLeave, Handled, Receives, Ended
<1>31. CASE Terminate
  BY <1>31 DEF Terminate
<1>32. CASE RunFails
  BY <1>32 DEF RunFails, Receives
<1>33. CASE Abort
  BY <1>33 DEF Abort
<1>34. CASE UNCHANGED vars
  BY <1>34 DEF vars
<1> QED
  BY <1>1, <1>2, <1>3, <1>4, <1>5, <1>6, <1>7, <1>8, <1>9, <1>10, <1>11, <1>12,
     <1>13, <1>14, <1>15, <1>16, <1>17, <1>18, <1>19, <1>20, <1>21, <1>22,
     <1>23, <1>24, <1>25, <1>26, <1>27, <1>28, <1>29, <1>30, <1>31, <1>32, <1>33,
     <1>34
  DEF Next, User, HandleInput, MicStep, Update, MeshStep, MainStep

\* Once the context is done nothing is started or inserted any more.
LEMMA EndingStep ==
  ASSUME TypeOK, OneCall, Ending, [Next]_vars
  PROVE  Ending'
<1> USE DEF TypeOK, OneCall, Ending, appVars, callVars, teaVars, meshVars,
        tileVars, audioVars, micVars
<1>1. ASSUME NEW k \in Inputs \cup {"quit"}, Press(k) PROVE Ending'
  BY <1>1 DEF Press
<1>2. CASE SubmitForm
  BY <1>2 DEF SubmitForm, Take, Receives
<1>3. CASE Resize
  BY <1>3 DEF Resize, Take, Receives
<1>4. CASE QuitKey
  BY <1>4 DEF QuitKey, Take, Receives, CloseMic
<1>5. CASE EnterKey
  BY <1>5 DEF EnterKey, Take, Receives
<1>6. CASE ToggleMic
  BY <1>6 DEF ToggleMic, Take, Receives
<1>7. CASE BuildCall
  BY <1>7 DEF BuildCall
<1>8. CASE CallReady
  BY <1>8 DEF CallReady, Receives
<1>9. CASE Tick
  BY <1>9 DEF Tick, Handled, Receives
<1>10. CASE BeginStart
  BY <1>10 DEF BeginStart
<1>11. CASE OpenDevice
  BY <1>11 DEF OpenDevice
<1>12. CASE InstallTrack
  BY <1>12 DEF InstallTrack, CtxDone
<1>13. CASE MicStarted
  BY <1>13 DEF MicStarted, Handled, Receives, Ended
<1>14. CASE SetMuteAudio
  BY <1>14 DEF SetMuteAudio
<1>15. CASE AfterMute
  BY <1>15 DEF AfterMute, CloseMic
<1>16. CASE TrackRefused
  BY <1>16 DEF TrackRefused
<1>17. CASE Unlock
  BY <1>17 DEF Unlock
<1>18. CASE PeerJoin
  BY <1>18 DEF PeerJoin, Handled, Receives, Ended
<1>19. CASE StartLoop
  BY <1>19 DEF StartLoop
<1>20. CASE EndLoop
  BY <1>20 DEF EndLoop, CtxDone
<1>21. CASE Quit
  BY <1>21 DEF Quit, Receives
<1>22. CASE Cancel
  BY <1>22 DEF Cancel
<1>23. CASE CleanupMic
  BY <1>23 DEF CleanupMic, CloseMic
<1>24. CASE StopTake
  BY <1>24 DEF StopTake
<1>25. CASE StopWait
  BY <1>25 DEF StopWait
<1>26. ASSUME NEW p \in PeerIDs, InsertPeer(p) PROVE Ending'
  BY <1>26 DEF InsertPeer, CtxDone
<1>27. ASSUME NEW p \in PeerIDs, FrameArrives(p) PROVE Ending'
  BY <1>27 DEF FrameArrives
<1>28. ASSUME NEW p \in PeerIDs, PeerFrame(p) PROVE Ending'
  BY <1>28 DEF PeerFrame, Handled, Receives, Ended
<1>29. ASSUME NEW p \in PeerIDs, TakePeer(p) PROVE Ending'
  BY <1>29 DEF TakePeer
<1>30. ASSUME NEW p \in PeerIDs, PeerLeave(p) PROVE Ending'
  BY <1>30 DEF PeerLeave, Handled, Receives, Ended
<1>31. CASE Terminate
  BY <1>31 DEF Terminate
<1>32. CASE RunFails
  BY <1>32 DEF RunFails, Receives
<1>33. CASE Abort
  BY <1>33 DEF Abort
<1>34. CASE UNCHANGED vars
  BY <1>34 DEF vars
<1> QED
  BY <1>1, <1>2, <1>3, <1>4, <1>5, <1>6, <1>7, <1>8, <1>9, <1>10, <1>11, <1>12,
     <1>13, <1>14, <1>15, <1>16, <1>17, <1>18, <1>19, <1>20, <1>21, <1>22,
     <1>23, <1>24, <1>25, <1>26, <1>27, <1>28, <1>29, <1>30, <1>31, <1>32, <1>33,
     <1>34
  DEF Next, User, HandleInput, MicStep, Update, MeshStep, MainStep

----------------------------------------------------------------------------
\* The theorems.

\* The program starts with the form, or in a call that was set up before.
LEMMA AppInit == Init => AppInv
<1> SUFFICES ASSUME Init PROVE AppInv
  OBVIOUS
<1> USE AppAssumption DEF Init
<1>1. TypeOK
  <2>1. 0 \in 0..MaxKeys /\ 0 \in Nat
    OBVIOUS
  <2>2. /\ screen \in {"home", "connecting", "call"}
        /\ home \in {"editing", "completed", "nil"}
        /\ call \in {"none", "dialing", "ready", "failed", "inCall", "gaveUp"}
        /\ mesh \in {"off", "start", "loop", "ended"}
    OBVIOUS
  <2>3. cleanup \in BOOLEAN
    OBVIOUS
  <2>4. /\ peer \in [PeerIDs -> {"new", "in", "leaving", "left"}]
        /\ frame \in [PeerIDs -> BOOLEAN]
    OBVIOUS
  <2> QED
    BY <2>1, <2>2, <2>3, <2>4 DEF TypeOK
<1>2. OneCall
  BY DEF OneCall
<1>3. Noted /\ TilesFollowMesh
  BY DEF Noted, TilesFollowMesh
<1>4. Muting /\ OneTrack /\ Ending
  BY DEF Muting, OneTrack, Ending
<1> QED
  BY <1>1, <1>2, <1>3, <1>4 DEF AppInv

\* Every step keeps the invariant.
LEMMA AppStep == AppInv /\ [Next]_vars => AppInv'
<1> SUFFICES ASSUME AppInv, [Next]_vars PROVE AppInv'
  OBVIOUS
<1>1. /\ TypeOK /\ OneCall /\ Noted /\ TilesFollowMesh /\ Muting /\ OneTrack
      /\ Ending
  BY DEF AppInv
<1> QED
  BY <1>1, TypeStep, OneCallStep, NotedStep, TilesStep, MutingStep,
     OneTrackStep, EndingStep
  DEF AppInv

\* So it holds throughout.
LEMMA AppInvariant == Spec => []AppInv
  BY AppInit, AppStep, PTL DEF Spec

\* Every variable of the client program keeps its type.
THEOREM AppTypeCorrect == Spec => []TypeOK
<1>1. AppInv => TypeOK
  BY DEF AppInv
<1> QED
  BY <1>1, AppInvariant, PTL

\* The screen is where the call is, and the call has the size of the window,
\* whatever the user presses while startCall and the mesh run.
THEOREM ScreenAlwaysFollowsCall == Spec => []ScreenFollowsCall
<1>1. AppInv => ScreenFollowsCall
  BY DEF AppInv, TypeOK, OneCall, ScreenFollowsCall
<1> QED
  BY <1>1, AppInvariant, PTL

\* While the program runs, the tiles are the peers of the mesh, however joins,
\* leaves, frames and ticks reach the event loop.
THEOREM TilesAlwaysFollowMesh == Spec => []TilesFollowMesh
<1>1. AppInv => TilesFollowMesh
  BY DEF AppInv
<1> QED
  BY <1>1, AppInvariant, PTL

\* What the screen says of the microphone is so, and when main returns it
\* leaves neither the device nor a peer behind.
THEOREM MicAlwaysTruthful == Spec => []MicTruthful
<1>1. AppInv => MicTruthful
  <2> SUFFICES ASSUME AppInv PROVE MicTruthful
    OBVIOUS
  <2> USE DEF AppInv, TypeOK
  <2>1. ui = "idle" /\ ~micOn /\ ~micStarting /\ main = "running" =>
          muted /\ ~device
    BY DEF Muting, OneTrack
  <2>2. ui = "idle" /\ micOn /\ ~quitting /\ main = "running" =>
          ~muted /\ track /\ device
    BY DEF Muting, OneTrack
  <2>3. main = "exited" =>
          /\ device => start = "opened"
          /\ call = "inCall" => \A p \in PeerIDs : peer[p] # "in"
    BY DEF OneTrack, Ending
  <2> QED
    BY <2>1, <2>2, <2>3 DEF MicTruthful
<1> QED
  BY <1>1, AppInvariant, PTL

============================================================================
