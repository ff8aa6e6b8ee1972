--------------------------- MODULE CameraControl ---------------------------
(***************************************************************************)
(* Switching the camera on and off (internal/capture/camera.go and the     *)
(* camera part of internal/tui/call.go).  Opening the device takes long,   *)
(* so Start runs in a command goroutine; each session has a reader         *)
(* goroutine; the UI handles one message at a time and gets the results of *)
(* its commands in any order.  Frames of a session are offered on the      *)
(* session's own channel, one at a time.                                   *)
(***************************************************************************)
EXTENDS Naturals, FiniteSets

CONSTANTS MaxSessions,  \* bound: times the device is opened
          MaxFrames,    \* bound: frames read per session
          None

ASSUME CameraAssumption ==
  MaxSessions \in Nat /\ MaxFrames \in Nat /\ None \notin Nat

Sessions == 1..MaxSessions

VARIABLES
  \* Camera, under its lock
  session,     \* the installed session, or None
  starting,
  generation,
  \* Start, in its command goroutine
  start,       \* "idle", "checked", "opening", "opened", "installed", "failed"
  startGen,    \* the generation read at its beginning
  startSess,   \* the session it has opened
  \* Sessions
  track,       \* track[s]: "unused", "open", "closed"
  reader,      \* reader[s]: "none", "reading", "offering", "closing",
               \* "clearing", "ended"; ended means the channel is closed
  frames,      \* frames[s]: frames read so far
  \* CallModel
  camOn, camStarting,
  cameraFrames,  \* the channel it listens to: a session, or None
  waiter,        \* waiter[s]: the command that waits on the channel of s
  inbox,         \* results of commands on their way to the UI
  quit,          \* the user has quit; then main cancels and cleans up
  userClosed,    \* history: sessions the user switched off
  broadcast      \* history: broadcast[s] is the number of frames of s sent out

vars == <<session, starting, generation, start, startGen, startSess, track,
          reader, frames, camOn, camStarting, cameraFrames, waiter, inbox,
          quit, userClosed, broadcast>>

cameraVars == <<session, starting, generation>>
startVars == <<start, startGen, startSess>>
sessionVars == <<track, reader, frames>>
uiVars == <<camOn, camStarting, cameraFrames, quit>>
historyVars == <<userClosed, broadcast>>

Started(s) == [kind |-> "started", from |-> s, closed |-> FALSE]
StartError == [kind |-> "started", from |-> None, closed |-> TRUE]
Frame(s)   == [kind |-> "frame", from |-> s, closed |-> FALSE]
Closed(s)  == [kind |-> "frame", from |-> s, closed |-> TRUE]

Init ==
  /\ session = None /\ starting = FALSE /\ generation = 0
  /\ start = "idle" /\ startGen = 0 /\ startSess = None
  /\ track = [s \in Sessions |-> "unused"]
  /\ reader = [s \in Sessions |-> "none"]
  /\ frames = [s \in Sessions |-> 0]
  /\ camOn = FALSE /\ camStarting = FALSE /\ cameraFrames = None
  /\ waiter = [s \in Sessions |-> FALSE]
  /\ inbox = {} /\ quit = "no"
  /\ userClosed = {} /\ broadcast = [s \in Sessions |-> 0]

\* main has cancelled the context of the call.
CtxDone == quit \in {"cancelled", "clean"}

----------------------------------------------------------------------------
\* Camera.Start.

\* The first critical section: one session at a time.
BeginStart ==
  /\ start = "checked"
  /\ IF session # None \/ starting
     THEN start' = "failed" /\ UNCHANGED <<starting, startGen>>
     ELSE start' = "opening" /\ starting' = TRUE /\ startGen' = generation
  /\ UNCHANGED <<session, generation, startSess, sessionVars, uiVars, waiter,
                 inbox, historyVars>>

\* The device is opened, or refused (or the context is done).
OpenDevice ==
  /\ start = "opening"
  /\ \/ \E s \in Sessions :
          /\ track[s] = "unused" /\ \A r \in Sessions : r < s => track[r] # "unused"
          /\ track' = [track EXCEPT ![s] = "open"]
          /\ startSess' = s
          /\ start' = "opened"
     \/ start' = "failed" /\ UNCHANGED <<track, startSess>>
  /\ UNCHANGED <<cameraVars, startGen, reader, frames, uiVars, waiter, inbox,
                 historyVars>>

\* Mutant of InstallSession: the way out forgets the track it has opened.
InstallForgetting ==
  /\ start = "opened"
  /\ IF generation # startGen \/ CtxDone
     THEN /\ start' = "failed"
          /\ UNCHANGED <<session, reader>>
     ELSE /\ session' = startSess
          /\ reader' = [reader EXCEPT ![startSess] = "reading"]
          /\ start' = "installed"
  /\ UNCHANGED <<track, starting, generation, startGen, startSess, frames,
                 uiVars, waiter, inbox, historyVars>>

\* The second critical section: the session is installed and its reader
\* started, unless Close came in between or the context is done.
InstallSession ==
  /\ start = "opened"
  /\ IF generation # startGen \/ CtxDone
     THEN /\ track' = [track EXCEPT ![startSess] = "closed"]
          /\ start' = "failed"
          /\ UNCHANGED <<session, reader>>
     ELSE /\ session' = startSess
          /\ reader' = [reader EXCEPT ![startSess] = "reading"]
          /\ start' = "installed"
          /\ UNCHANGED track
  /\ UNCHANGED <<starting, generation, startGen, startSess, frames, uiVars,
                 waiter, inbox, historyVars>>

\* The deferred reset of `starting', and the command's message.
EndStart ==
  /\ start \in {"installed", "failed"}
  /\ start' = "idle"
  /\ starting' = FALSE
  /\ inbox' = inbox \cup {IF start = "installed" THEN Started(startSess)
                          ELSE StartError}
  /\ UNCHANGED <<session, generation, startGen, startSess, sessionVars, uiVars,
                 waiter, historyVars>>

----------------------------------------------------------------------------
\* The reader of session s.  Its context is done once the session is closed
\* or the program is over.

Over(s) == track[s] = "closed" \/ CtxDone

ReadFrame(s) ==
  /\ reader[s] = "reading"
  /\ ~Over(s) /\ frames[s] < MaxFrames
  /\ frames' = [frames EXCEPT ![s] = @ + 1]
  /\ reader' = [reader EXCEPT ![s] = "offering"]
  /\ UNCHANGED <<cameraVars, startVars, track, uiVars, waiter, inbox,
                 historyVars>>

\* The context is done, or the device fails.
ReaderStops(s) ==
  /\ \/ reader[s] = "reading"
     \/ reader[s] = "offering" /\ Over(s)
  /\ reader' = [reader EXCEPT ![s] = "closing"]
  /\ UNCHANGED <<cameraVars, startVars, track, frames, uiVars, waiter, inbox,
                 historyVars>>

\* A waiting command takes the frame offered.
TakeFrame(s) ==
  /\ reader[s] = "offering" /\ waiter[s]
  /\ reader' = [reader EXCEPT ![s] = "reading"]
  /\ waiter' = [waiter EXCEPT ![s] = FALSE]
  /\ inbox' = inbox \cup {Frame(s)}
  /\ UNCHANGED <<cameraVars, startVars, track, frames, uiVars, historyVars>>

\* Deferred: session.close, then clearSession, then the channel is closed.
ReaderCloses(s) ==
  /\ reader[s] = "closing"
  /\ track' = [track EXCEPT ![s] = "closed"]
  /\ reader' = [reader EXCEPT ![s] = "clearing"]
  /\ UNCHANGED <<cameraVars, startVars, frames, uiVars, waiter, inbox,
                 historyVars>>

\* Mutant of ClearSession: it clears whatever session is installed.
ClearAnySession(s) ==
  /\ reader[s] = "clearing"
  /\ session' = None
  /\ reader' = [reader EXCEPT ![s] = "ended"]
  /\ UNCHANGED <<starting, generation, startVars, track, frames, uiVars,
                 waiter, inbox, historyVars>>

ClearSession(s) ==
  /\ reader[s] = "clearing"
  /\ session' = IF session = s THEN None ELSE session
  /\ reader' = [reader EXCEPT ![s] = "ended"]
  /\ UNCHANGED <<starting, generation, startVars, track, frames, uiVars,
                 waiter, inbox, historyVars>>

\* A waiting command sees the channel closed.
TakeClosed(s) ==
  /\ reader[s] = "ended" /\ waiter[s]
  /\ waiter' = [waiter EXCEPT ![s] = FALSE]
  /\ inbox' = inbox \cup {Closed(s)}
  /\ UNCHANGED <<cameraVars, startVars, sessionVars, uiVars, historyVars>>

----------------------------------------------------------------------------
\* The UI.

\* Camera.Close.
CloseCamera ==
  /\ generation' = generation + 1
  /\ session' = None
  /\ track' = IF session = None THEN track
              ELSE [track EXCEPT ![session] = "closed"]

\* The key "v" while the camera is on.
ToggleOff ==
  /\ quit = "no" /\ ~camStarting /\ camOn
  /\ CloseCamera
  /\ camOn' = FALSE /\ cameraFrames' = None
  /\ userClosed' = userClosed \cup ({cameraFrames} \ {None})
  /\ UNCHANGED <<starting, startVars, reader, frames, camStarting, waiter,
                 inbox, quit, broadcast>>

\* The key "v" while it is off: the command is started.
ToggleOn ==
  /\ quit = "no" /\ ~camStarting /\ ~camOn
  /\ start = "idle" /\ \E s \in Sessions : track[s] = "unused"
  /\ camStarting' = TRUE
  /\ start' = "checked"
  /\ UNCHANGED <<cameraVars, startGen, startSess, sessionVars, camOn,
                 cameraFrames, waiter, inbox, quit, historyVars>>

\* CameraStartedMsg.
HandleStarted(m) ==
  /\ quit = "no" /\ m \in inbox /\ m.kind = "started"
  /\ inbox' = inbox \ {m}
  /\ camStarting' = FALSE
  /\ IF m.closed
     THEN UNCHANGED <<camOn, cameraFrames, waiter>>
     ELSE /\ camOn' = TRUE /\ cameraFrames' = m.from
          /\ waiter' = [waiter EXCEPT ![m.from] = TRUE]
  /\ UNCHANGED <<cameraVars, startVars, sessionVars, quit, historyVars>>

\* Mutants of HandleFrame: the source of a frame is not looked at, or the
\* next one is not waited for.
HandleAnyFrame(m) ==
  /\ quit = "no" /\ m \in inbox /\ m.kind = "frame"
  /\ inbox' = inbox \ {m}
  /\ broadcast' = IF camOn /\ ~m.closed
                  THEN [broadcast EXCEPT ![m.from] = @ + 1] ELSE broadcast
  /\ waiter' = IF m.closed THEN waiter ELSE [waiter EXCEPT ![m.from] = TRUE]
  /\ UNCHANGED <<cameraVars, startVars, sessionVars, camStarting,
                 cameraFrames, camOn, quit, userClosed>>

HandleFrameOnce(m) ==
  /\ quit = "no" /\ m \in inbox /\ m.kind = "frame"
  /\ inbox' = inbox \ {m}
  /\ IF m.from = cameraFrames /\ m.closed
     THEN cameraFrames' = None /\ camOn' = FALSE
     ELSE UNCHANGED <<camOn, cameraFrames>>
  /\ UNCHANGED <<cameraVars, startVars, sessionVars, camStarting, quit,
                 waiter, historyVars>>

\* LocalFrameMsg: ignored when it is not of the channel listened to;
\* otherwise the end of the stream, or a frame to broadcast.
HandleFrame(m) ==
  /\ quit = "no" /\ m \in inbox /\ m.kind = "frame"
  /\ inbox' = inbox \ {m}
  /\ IF m.from # cameraFrames
     THEN UNCHANGED <<camOn, cameraFrames, waiter, broadcast>>
     ELSE IF m.closed
     THEN /\ cameraFrames' = None /\ camOn' = FALSE
          /\ UNCHANGED <<waiter, broadcast>>
     ELSE /\ broadcast' = IF camOn THEN [broadcast EXCEPT ![m.from] = @ + 1]
                          ELSE broadcast
          /\ waiter' = [waiter EXCEPT ![m.from] = TRUE]
          /\ UNCHANGED <<camOn, cameraFrames>>
  /\ UNCHANGED <<cameraVars, startVars, sessionVars, camStarting, quit,
                 userClosed>>

\* The key "q": the camera is closed and the program ends.
Quit ==
  /\ quit = "no"
  /\ CloseCamera
  /\ quit' = "quit"
  /\ UNCHANGED <<starting, startVars, reader, frames, camOn, camStarting,
                 cameraFrames, waiter, inbox, historyVars>>

\* main's deferred function cancels the context, then closes the camera again.
Cancel ==
  /\ quit = "quit"
  /\ quit' = "cancelled"
  /\ UNCHANGED <<cameraVars, startVars, sessionVars, camOn, camStarting,
                 cameraFrames, waiter, inbox, historyVars>>

Cleanup ==
  /\ quit = "cancelled"
  /\ CloseCamera
  /\ quit' = "clean"
  /\ UNCHANGED <<starting, startVars, reader, frames, camOn, camStarting,
                 cameraFrames, waiter, inbox, historyVars>>

ReaderStep(s) ==
  \/ TakeFrame(s) \/ ReaderCloses(s) \/ ClearSession(s) \/ TakeClosed(s)
  \/ Over(s) /\ ReaderStops(s)

StartStep == BeginStart \/ OpenDevice \/ InstallSession \/ EndStart

Handle == \E m \in inbox : HandleStarted(m) \/ HandleFrame(m)

\* Nothing is left to do after the cleanup.
Finished ==
  /\ quit = "clean" /\ start = "idle"
  /\ \A s \in Sessions : reader[s] \in {"none", "ended"} /\ ~waiter[s]
  /\ UNCHANGED vars

Next ==
  \/ StartStep
  \/ \E s \in Sessions : ReaderStep(s) \/ ReadFrame(s) \/ ReaderStops(s)
  \/ ToggleOff \/ ToggleOn \/ Handle
  \/ Quit \/ Cancel \/ Cleanup
  \/ Finished

Spec == Init /\ [][Next]_vars

\* Goroutines and the UI run; the user and the device need not act.
Fairness ==
  /\ WF_vars(StartStep) /\ WF_vars(Handle) /\ WF_vars(Cancel \/ Cleanup)
  /\ \A s \in Sessions : WF_vars(ReaderStep(s))

FairSpec == Spec /\ Fairness

----------------------------------------------------------------------------
\* Properties.

\* Every variable keeps the shape of the Go value it stands for.
TypeOK ==
  /\ session \in Sessions \cup {None} /\ starting \in BOOLEAN
  /\ generation \in Nat /\ startGen \in Nat
  /\ start \in {"idle", "checked", "opening", "opened", "installed", "failed"}
  /\ startSess \in Sessions \cup {None}
  /\ track \in [Sessions -> {"unused", "open", "closed"}]
  /\ reader \in [Sessions -> {"none", "reading", "offering", "closing",
                              "clearing", "ended"}]
  /\ frames \in [Sessions -> 0..MaxFrames]
  /\ camOn \in BOOLEAN /\ camStarting \in BOOLEAN
  /\ cameraFrames \in Sessions \cup {None}
  /\ waiter \in [Sessions -> BOOLEAN]
  /\ \A m \in inbox : m.from \in Sessions \cup {None}
  /\ quit \in {"no", "quit", "cancelled", "clean"}
  /\ userClosed \subseteq Sessions /\ broadcast \in [Sessions -> 0..MaxFrames]

\* The device is never opened twice: at most one track is open, and it is
\* the one Start holds or the installed one, or its reader is closing it.
\* So what the user asks is possible: when the UI holds the camera to be off
\* and starts it, Start does not find it running or starting.
OneDevice ==
  /\ Cardinality({s \in Sessions : track[s] = "open"}) <= 1
  /\ \A s \in Sessions :
       track[s] = "open" =>
         \/ session = s
         \/ start = "opened" /\ startSess = s
  /\ start = "checked" => session = None /\ ~starting

\* A frame is broadcast only from a session the user has not switched off:
\* not after the camera was switched off, nor after it is on again.
FramesFromLiveSession ==
  [][\A s \in userClosed : broadcast'[s] = broadcast[s]]_vars

\* When the program is over the device is released, even if it was being
\* opened when the user quit.
DeviceReleased ==
  quit = "quit" ~> \A s \in Sessions : track[s] # "open"

\* The UI does not hold a dead camera for a live one: a session whose stream
\* ended is noticed.
DeadStreamNoticed ==
  \A s \in Sessions :
    camOn /\ cameraFrames = s /\ reader[s] = "ended"
      ~> cameraFrames # s \/ quit # "no"

=============================================================================
