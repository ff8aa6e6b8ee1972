---------------------------- MODULE MediaProofs ----------------------------
(***************************************************************************)
(* Proofs about what is seen and heard, for every value of the constants:  *)
(* switching the camera (CameraControl), the picture on its way to the     *)
(* viewers (VideoStream) and the sound of a remote peer (Playback).        *)
(***************************************************************************)
EXTENDS CameraControl, VideoStream, Playback, FiniteSetTheorems, SequenceTheorems,
        TLAPS

----------------------------------------------------------------------------
\* The camera: the inductive invariant.

\* What the UI is sent.
Messages ==
  {StartError} \cup {Started(s) : s \in Sessions} \cup
  {Frame(s) : s \in Sessions} \cup {Closed(s) : s \in Sessions}

\* A frame is broadcast once: what was sent out, what the UI has yet to handle
\* and what the reader offers was read before.
Sent(s) ==
  broadcast[s] + (IF Frame(s) \in inbox THEN 1 ELSE 0)
               + (IF reader[s] = "offering" THEN 1 ELSE 0)

AllSent == \A s \in Sessions : Sent(s) <= frames[s]

InboxOK == inbox \subseteq Messages

TypeInv == TypeOK /\ InboxOK /\ AllSent

\* A start is in the hands of its command, then of one message, and the UI
\* waits for it with the camera off.
OneStart ==
  /\ start # "idle" => camStarting /\ \A m \in inbox : m.kind # "started"
  /\ \A m \in inbox :
       m.kind = "started" =>
         /\ camStarting
         /\ \A n \in inbox : n.kind = "started" => n = m
  /\ camStarting => ~camOn
  /\ camOn <=> cameraFrames # None
  /\ starting => start \in {"opening", "opened", "installed", "failed"}

\* How far each session has come.
SessionAges ==
  /\ start \in {"opened", "installed"} => startSess \in Sessions
  /\ start = "opened" =>
       track[startSess] = "open" /\ reader[startSess] = "none"
  /\ \A s \in Sessions :
       /\ track[s] = "unused" => reader[s] = "none"
       /\ reader[s] \in {"clearing", "ended"} => track[s] = "closed"
       /\ reader[s] \in {"none", "ended"} => session # s
  /\ \A m \in inbox : m.kind = "frame" /\ m.closed => reader[m.from] = "ended"

\* The device is held by the installed session or by Start, never by both, and
\* the UI knows of the installed one or is about to.
Holder ==
  /\ start \in {"checked", "opening", "opened"} => session = None
  /\ \A s \in Sessions :
       track[s] = "open" => session = s \/ (start = "opened" /\ startSess = s)
  /\ quit = "no" /\ session # None =>
       \/ start = "installed" /\ startSess = session
       \/ Started(session) \in inbox
       \/ cameraFrames = session

\* Sessions that are starting have never been listened to, and the one listened
\* to has not been switched off.
Listened ==
  /\ cameraFrames \notin userClosed
  /\ start \in {"opened", "installed"} =>
       /\ startSess \notin userClosed \cup {cameraFrames}
       /\ track[startSess] # "unused"
  /\ \A m \in inbox :
       m.kind = "started" /\ ~m.closed =>
         /\ m.from \notin userClosed \cup {cameraFrames}
         /\ track[m.from] # "unused"
  /\ \A s \in Sessions :
       s \in userClosed \cup {cameraFrames} => track[s] # "unused"

CameraInv == TypeInv /\ OneStart /\ SessionAges /\ Holder /\ Listened

----------------------------------------------------------------------------
\* What a message says.
LEMMA MessageFields ==
  /\ StartError.kind = "started" /\ StartError.closed = TRUE
  /\ StartError.from = None
  /\ \A s : /\ Started(s).kind = "started" /\ Started(s).closed = FALSE
            /\ Frame(s).kind = "frame" /\ Frame(s).closed = FALSE
            /\ Closed(s).kind = "frame" /\ Closed(s).closed = TRUE
            /\ Started(s).from = s /\ Frame(s).from = s /\ Closed(s).from = s
  BY DEF StartError, Started, Frame, Closed

\* And what it can say.
LEMMA MessageKinds ==
  ASSUME NEW m \in Messages
  PROVE  /\ m.kind \in {"started", "frame"} /\ m.closed \in BOOLEAN
         /\ m.kind = "frame" \/ ~m.closed => m.from \in Sessions
         /\ m.kind = "started" /\ ~m.closed => m = Started(m.from)
         /\ m.kind = "frame" /\ ~m.closed => m = Frame(m.from)
<1>1. CASE m = StartError
  BY <1>1, MessageFields
<1>2. ASSUME NEW s \in Sessions, m \in {Started(s), Frame(s), Closed(s)}
      PROVE  /\ m.kind \in {"started", "frame"} /\ m.closed \in BOOLEAN
             /\ m.from \in Sessions
             /\ m.kind = "started" /\ ~m.closed => m = Started(m.from)
             /\ m.kind = "frame" /\ ~m.closed => m = Frame(m.from)
  BY <1>2, MessageFields, ZenonT(30)
<1> QED
  BY <1>1, <1>2 DEF Messages

\* No session is taken for another's absence.
LEMMA NoneIsNoSession == None \notin Sessions
  BY CameraAssumption DEF Sessions

\* Every action keeps the types.  A broadcast is of a frame the UI was handed.
LEMMA TypeStep ==
  ASSUME TypeInv, OneStart, SessionAges, [Next]_vars
  PROVE  TypeOK'
<1> USE CameraAssumption, MessageFields DEF TypeInv, TypeOK, InboxOK,
        SessionAges, cameraVars, startVars, sessionVars, uiVars, historyVars
<1>1. CASE BeginStart
  BY <1>1 DEF BeginStart
<1>2. CASE OpenDevice
  BY <1>2 DEF OpenDevice
<1>3. CASE InstallSession
  BY <1>3 DEF InstallSession
<1>4. CASE EndStart
  <2>1. \A m \in inbox' : m.from \in Sessions \cup {None}
    BY <1>4 DEF EndStart
  <2> QED
    BY <1>4, <2>1 DEF EndStart
<1>5. ASSUME NEW s \in Sessions, ReadFrame(s) PROVE TypeOK'
  BY <1>5 DEF ReadFrame
<1>6. ASSUME NEW s \in Sessions, ReaderStops(s) PROVE TypeOK'
  BY <1>6 DEF ReaderStops
<1>7. ASSUME NEW s \in Sessions, TakeFrame(s) PROVE TypeOK'
  BY <1>7 DEF TakeFrame
<1>8. ASSUME NEW s \in Sessions, ReaderCloses(s) PROVE TypeOK'
  BY <1>8 DEF ReaderCloses
<1>9. ASSUME NEW s \in Sessions, ClearSession(s) PROVE TypeOK'
  BY <1>9 DEF ClearSession
<1>10. ASSUME NEW s \in Sessions, TakeClosed(s) PROVE TypeOK'
  BY <1>10 DEF TakeClosed
<1>11. CASE ToggleOff
  <2>1. userClosed' \subseteq Sessions
    BY <1>11 DEF ToggleOff
  <2>2. track' \in [Sessions -> {"unused", "open", "closed"}]
    BY <1>11 DEF ToggleOff, CloseCamera
  <2>3. generation' \in Nat
    BY <1>11 DEF ToggleOff, CloseCamera
  <2>5. session' = None /\ cameraFrames' = None /\ camOn' = FALSE
    BY <1>11 DEF ToggleOff, CloseCamera
  <2>4. UNCHANGED <<starting, start, startGen, startSess, reader, frames,
                    camStarting, waiter, inbox, quit, broadcast>>
    BY <1>11 DEF ToggleOff
  <2> QED
    BY <2>1, <2>2, <2>3, <2>4, <2>5
<1>12. CASE ToggleOn
  BY <1>12 DEF ToggleOn
<1>13. ASSUME NEW m \in inbox, HandleStarted(m) PROVE TypeOK'
  <2>1. /\ m.kind = "frame" \/ ~m.closed => m.from \in Sessions
        /\ m.closed \in BOOLEAN
    BY MessageKinds
  <2>2. /\ waiter' \in [Sessions -> BOOLEAN] /\ camOn' \in BOOLEAN
        /\ cameraFrames' \in Sessions \cup {None}
    BY <1>13, <2>1 DEF HandleStarted
  <2> QED
    BY <1>13, <2>2 DEF HandleStarted
<1>14. ASSUME NEW m \in inbox, HandleFrame(m) PROVE TypeOK'
  <2>1. /\ m.kind = "frame" \/ ~m.closed => m.from \in Sessions
        /\ m.closed \in BOOLEAN
    BY MessageKinds
  <2>2. /\ waiter' \in [Sessions -> BOOLEAN] /\ camOn' \in BOOLEAN
        /\ cameraFrames' \in Sessions \cup {None}
    BY <1>14, <2>1 DEF HandleFrame
  <2>3. broadcast' \in [Sessions -> 0..MaxFrames]
    <3>1. CASE broadcast' = broadcast
      BY <3>1
    <3>2. CASE
           /\ ~m.closed
           /\ broadcast' =
                [broadcast EXCEPT ![m.from] = broadcast[m.from] + 1]
      <4>1. m = Frame(m.from) /\ m.from \in Sessions
        BY <1>14, <2>1, <3>2, MessageKinds DEF HandleFrame
      <4>2. broadcast[m.from] + 1 \in 0..MaxFrames
        BY <4>1 DEF AllSent, Sent
      <4> QED
        BY <3>2, <4>1, <4>2
    <3> QED
      BY <1>14, <2>1, <3>1, <3>2 DEF HandleFrame
  <2> QED
    BY <1>14, <2>2, <2>3 DEF HandleFrame
<1>15. CASE Quit
  BY <1>15 DEF Quit, CloseCamera
<1>16. CASE Cancel
  BY <1>16 DEF Cancel
<1>17. CASE Cleanup
  BY <1>17 DEF Cleanup, CloseCamera
<1>18. CASE UNCHANGED vars
  BY <1>18 DEF vars
<1> QED
  BY <1>1, <1>2, <1>3, <1>4, <1>5, <1>6, <1>7, <1>8, <1>9, <1>10, <1>11, <1>12,
     <1>13, <1>14, <1>15, <1>16, <1>17, <1>18
  DEF Next, StartStep, ReaderStep, Handle, Finished

\* Messages are of the four kinds.
LEMMA InboxStep ==
  ASSUME TypeInv, SessionAges, [Next]_vars
  PROVE  InboxOK'
<1> USE DEF TypeInv, TypeOK, InboxOK, SessionAges, cameraVars, startVars,
        sessionVars, uiVars, historyVars
<1>1. CASE BeginStart
  BY <1>1 DEF BeginStart
<1>2. CASE OpenDevice
  BY <1>2 DEF OpenDevice
<1>3. CASE InstallSession
  BY <1>3 DEF InstallSession
<1>4. CASE EndStart
  BY <1>4, NoneIsNoSession DEF EndStart, Messages
<1>5. ASSUME NEW s \in Sessions, ReadFrame(s) PROVE InboxOK'
  BY <1>5 DEF ReadFrame
<1>6. ASSUME NEW s \in Sessions, ReaderStops(s) PROVE InboxOK'
  BY <1>6 DEF ReaderStops
<1>7. ASSUME NEW s \in Sessions, TakeFrame(s) PROVE InboxOK'
  BY <1>7 DEF TakeFrame, Messages
<1>8. ASSUME NEW s \in Sessions, ReaderCloses(s) PROVE InboxOK'
  BY <1>8 DEF ReaderCloses
<1>9. ASSUME NEW s \in Sessions, ClearSession(s) PROVE InboxOK'
  BY <1>9 DEF ClearSession
<1>10. ASSUME NEW s \in Sessions, TakeClosed(s) PROVE InboxOK'
  BY <1>10 DEF TakeClosed, Messages
<1>11. CASE ToggleOff
  BY <1>11 DEF ToggleOff, CloseCamera
<1>12. CASE ToggleOn
  BY <1>12 DEF ToggleOn
<1>13. ASSUME NEW m \in inbox, HandleStarted(m) PROVE InboxOK'
  BY <1>13 DEF HandleStarted
<1>14. ASSUME NEW m \in inbox, HandleFrame(m) PROVE InboxOK'
  BY <1>14 DEF HandleFrame
<1>15. CASE Quit
  BY <1>15 DEF Quit, CloseCamera
<1>16. CASE Cancel
  BY <1>16 DEF Cancel
<1>17. CASE Cleanup
  BY <1>17 DEF Cleanup, CloseCamera
<1>18. CASE UNCHANGED vars
  BY <1>18 DEF vars
<1> QED
  BY <1>1, <1>2, <1>3, <1>4, <1>5, <1>6, <1>7, <1>8, <1>9, <1>10, <1>11, <1>12,
     <1>13, <1>14, <1>15, <1>16, <1>17, <1>18
  DEF Next, StartStep, ReaderStep, Handle, Finished

\* A frame moves from its reader to the UI and out, and is counted once.
LEMMA SentStep ==
  ASSUME TypeInv, [Next]_vars
  PROVE  AllSent'
<1> USE MessageFields DEF TypeInv, TypeOK, InboxOK, AllSent, Sent, cameraVars,
        startVars, sessionVars, uiVars, historyVars
<1>1. CASE BeginStart
  BY <1>1 DEF BeginStart
<1>2. CASE OpenDevice
  BY <1>2 DEF OpenDevice
<1>3. CASE InstallSession
  BY <1>3 DEF InstallSession
<1>4. CASE EndStart
  BY <1>4 DEF EndStart
<1>5. ASSUME NEW s \in Sessions, ReadFrame(s) PROVE AllSent'
  BY <1>5 DEF ReadFrame
<1>6. ASSUME NEW s \in Sessions, ReaderStops(s) PROVE AllSent'
  BY <1>6 DEF ReaderStops
<1>7. ASSUME NEW s \in Sessions, TakeFrame(s) PROVE AllSent'
  BY <1>7 DEF TakeFrame
<1>8. ASSUME NEW s \in Sessions, ReaderCloses(s) PROVE AllSent'
  BY <1>8 DEF ReaderCloses
<1>9. ASSUME NEW s \in Sessions, ClearSession(s) PROVE AllSent'
  BY <1>9 DEF ClearSession
<1>10. ASSUME NEW s \in Sessions, TakeClosed(s) PROVE AllSent'
  BY <1>10 DEF TakeClosed
<1>11. CASE ToggleOff
  BY <1>11 DEF ToggleOff, CloseCamera
<1>12. CASE ToggleOn
  BY <1>12 DEF ToggleOn
<1>13. ASSUME NEW m \in inbox, HandleStarted(m) PROVE AllSent'
  BY <1>13 DEF HandleStarted
<1>14. ASSUME NEW m \in inbox, HandleFrame(m) PROVE AllSent'
  <2>1. /\ m.kind = "frame" \/ ~m.closed => m.from \in Sessions
        /\ m.closed \in BOOLEAN
    BY MessageKinds
  <2>2. CASE m.from # cameraFrames \/ m.closed
    BY <1>14, <2>1, <2>2 DEF HandleFrame
  <2>3. CASE m.from = cameraFrames /\ ~m.closed
    <3>1. m = Frame(m.from) /\ m.from \in Sessions
      BY <1>14, <2>3, MessageKinds DEF HandleFrame
    <3>2. \A r \in Sessions : r # m.from => Frame(r) # m
      OBVIOUS
    <3> QED
      BY <1>14, <2>3, <3>1, <3>2 DEF HandleFrame
  <2> QED
    BY <2>2, <2>3
<1>15. CASE Quit
  BY <1>15 DEF Quit, CloseCamera
<1>16. CASE Cancel
  BY <1>16 DEF Cancel
<1>17. CASE Cleanup
  BY <1>17 DEF Cleanup, CloseCamera
<1>18. CASE UNCHANGED vars
  BY <1>18 DEF vars
<1> QED
  BY <1>1, <1>2, <1>3, <1>4, <1>5, <1>6, <1>7, <1>8, <1>9, <1>10, <1>11, <1>12,
     <1>13, <1>14, <1>15, <1>16, <1>17, <1>18
  DEF Next, StartStep, ReaderStep, Handle, Finished

\* The UI starts the camera only when no start is under way, and Start ends in
\* one message.
LEMMA OneStartStep ==
  ASSUME TypeInv, OneStart, [Next]_vars
  PROVE  OneStart'
<1> USE MessageFields DEF TypeInv, TypeOK, InboxOK, OneStart, cameraVars,
        startVars, sessionVars, uiVars, historyVars
<1>1. CASE BeginStart
  BY <1>1 DEF BeginStart
<1>2. CASE OpenDevice
  BY <1>2 DEF OpenDevice
<1>3. CASE InstallSession
  BY <1>3 DEF InstallSession
<1>4. CASE EndStart
  BY <1>4 DEF EndStart
<1>5. ASSUME NEW s \in Sessions, ReadFrame(s) PROVE OneStart'
  BY <1>5 DEF ReadFrame
<1>6. ASSUME NEW s \in Sessions, ReaderStops(s) PROVE OneStart'
  BY <1>6 DEF ReaderStops
<1>7. ASSUME NEW s \in Sessions, TakeFrame(s) PROVE OneStart'
  BY <1>7 DEF TakeFrame
<1>8. ASSUME NEW s \in Sessions, ReaderCloses(s) PROVE OneStart'
  BY <1>8 DEF ReaderCloses
<1>9. ASSUME NEW s \in Sessions, ClearSession(s) PROVE OneStart'
  BY <1>9 DEF ClearSession
<1>10. ASSUME NEW s \in Sessions, TakeClosed(s) PROVE OneStart'
  BY <1>10 DEF TakeClosed
<1>11. CASE ToggleOff
  BY <1>11 DEF ToggleOff, CloseCamera
<1>12. CASE ToggleOn
  BY <1>12 DEF ToggleOn
<1>13. ASSUME NEW m \in inbox, HandleStarted(m) PROVE OneStart'
  <2>1. /\ m.kind = "frame" \/ ~m.closed => m.from \in Sessions
        /\ m.closed \in BOOLEAN
    BY MessageKinds
  <2> QED
    BY <1>13, <2>1, NoneIsNoSession DEF HandleStarted
<1>14. ASSUME NEW m \in inbox, HandleFrame(m) PROVE OneStart'
  BY <1>14 DEF HandleFrame
<1>15. CASE Quit
  BY <1>15 DEF Quit, CloseCamera
<1>16. CASE Cancel
  BY <1>16 DEF Cancel
<1>17. CASE Cleanup
  BY <1>17 DEF Cleanup, CloseCamera
<1>18. CASE UNCHANGED vars
  BY <1>18 DEF vars
<1> QED
  BY <1>1, <1>2, <1>3, <1>4, <1>5, <1>6, <1>7, <1>8, <1>9, <1>10, <1>11, <1>12,
     <1>13, <1>14, <1>15, <1>16, <1>17, <1>18
  DEF Next, StartStep, ReaderStep, Handle, Finished

\* A session is opened, read and closed, in this order.
LEMMA AgesStep ==
  ASSUME TypeInv, OneStart, SessionAges, Holder, [Next]_vars
  PROVE  SessionAges'
<1> USE MessageFields DEF TypeInv, TypeOK, InboxOK, SessionAges, Holder,
        cameraVars, startVars, sessionVars, uiVars, historyVars
<1>1. CASE BeginStart
  BY <1>1 DEF BeginStart
<1>2. CASE OpenDevice
  BY <1>2 DEF OpenDevice
<1>3. CASE InstallSession
  <2>1. CASE generation # startGen \/ CtxDone
    BY <1>3, <2>1 DEF InstallSession
  <2>2. CASE ~(generation # startGen \/ CtxDone)
    <3>1. /\ start = "opened" /\ start' = "installed"
          /\ session' = startSess /\ startSess \in Sessions
          /\ reader' = [reader EXCEPT ![startSess] = "reading"]
          /\ UNCHANGED <<track, inbox, startSess>>
      BY <1>3, <2>2 DEF InstallSession
    <3>2. track[startSess] = "open" /\ reader[startSess] = "none"
      BY <3>1
    <3>3. \A s \in Sessions :
            /\ track'[s] = "unused" => reader'[s] = "none"
            /\ reader'[s] \in {"clearing", "ended"} => track'[s] = "closed"
            /\ reader'[s] \in {"none", "ended"} => session' # s
      BY <3>1, <3>2
    <3>4. \A m \in inbox :
            m.kind = "frame" /\ m.closed => reader'[m.from] = "ended"
      BY <3>1, <3>2, MessageKinds
    <3> QED
      BY <3>1, <3>3, <3>4
  <2> QED
    BY <2>1, <2>2
<1>4. CASE EndStart
  BY <1>4 DEF EndStart
<1>5. ASSUME NEW s \in Sessions, ReadFrame(s) PROVE SessionAges'
  BY <1>5 DEF ReadFrame
<1>6. ASSUME NEW s \in Sessions, ReaderStops(s) PROVE SessionAges'
  BY <1>6 DEF ReaderStops
<1>7. ASSUME NEW s \in Sessions, TakeFrame(s) PROVE SessionAges'
  BY <1>7 DEF TakeFrame
<1>8. ASSUME NEW s \in Sessions, ReaderCloses(s) PROVE SessionAges'
  BY <1>8 DEF ReaderCloses
<1>9. ASSUME NEW s \in Sessions, ClearSession(s) PROVE SessionAges'
  BY <1>9, NoneIsNoSession DEF ClearSession
<1>10. ASSUME NEW s \in Sessions, TakeClosed(s) PROVE SessionAges'
  BY <1>10 DEF TakeClosed
<1>11. CASE ToggleOff
  <2>1. CASE session = None
    BY <1>11, <2>1, NoneIsNoSession DEF ToggleOff, CloseCamera
  <2>2. CASE ~(session = None)
    BY <1>11, <2>2, NoneIsNoSession DEF ToggleOff, CloseCamera
  <2> QED
    BY <2>1, <2>2
<1>12. CASE ToggleOn
  BY <1>12 DEF ToggleOn
<1>13. ASSUME NEW m \in inbox, HandleStarted(m) PROVE SessionAges'
  BY <1>13 DEF HandleStarted
<1>14. ASSUME NEW m \in inbox, HandleFrame(m) PROVE SessionAges'
  BY <1>14 DEF HandleFrame
<1>15. CASE Quit
  <2>1. CASE session = None
    BY <1>15, <2>1, NoneIsNoSession DEF Quit, CloseCamera
  <2>2. CASE ~(session = None)
    BY <1>15, <2>2, NoneIsNoSession DEF Quit, CloseCamera
  <2> QED
    BY <2>1, <2>2
<1>16. CASE Cancel
  BY <1>16 DEF Cancel
<1>17. CASE Cleanup
  <2>1. CASE session = None
    BY <1>17, <2>1, NoneIsNoSession DEF Cleanup, CloseCamera
  <2>2. CASE ~(session = None)
    BY <1>17, <2>2, NoneIsNoSession DEF Cleanup, CloseCamera
  <2> QED
    BY <2>1, <2>2
<1>18. CASE UNCHANGED vars
  BY <1>18 DEF vars
<1> QED
  BY <1>1, <1>2, <1>3, <1>4, <1>5, <1>6, <1>7, <1>8, <1>9, <1>10, <1>11, <1>12,
     <1>13, <1>14, <1>15, <1>16, <1>17, <1>18
  DEF Next, StartStep, ReaderStep, Handle, Finished

\* Close and the readers let the device go before Start can take it again: a
\* start begins only when the last one has been handled and the camera is off.
LEMMA HolderStep ==
  ASSUME TypeInv, OneStart, SessionAges, Holder, [Next]_vars
  PROVE  Holder'
<1> USE MessageFields DEF TypeInv, TypeOK, InboxOK, OneStart, SessionAges,
        Holder, cameraVars, startVars, sessionVars, uiVars, historyVars
<1>1. CASE BeginStart
  BY <1>1 DEF BeginStart
<1>2. CASE OpenDevice
  BY <1>2 DEF OpenDevice
<1>3. CASE InstallSession
  <2>1. CASE generation # startGen \/ CtxDone
    BY <1>3, <2>1, NoneIsNoSession DEF InstallSession
  <2>2. CASE ~(generation # startGen \/ CtxDone)
    BY <1>3, <2>2, NoneIsNoSession DEF InstallSession
  <2> QED
    BY <2>1, <2>2
<1>4. CASE EndStart
  BY <1>4 DEF EndStart
<1>5. ASSUME NEW s \in Sessions, ReadFrame(s) PROVE Holder'
  BY <1>5 DEF ReadFrame
<1>6. ASSUME NEW s \in Sessions, ReaderStops(s) PROVE Holder'
  BY <1>6 DEF ReaderStops
<1>7. ASSUME NEW s \in Sessions, TakeFrame(s) PROVE Holder'
  BY <1>7 DEF TakeFrame
<1>8. ASSUME NEW s \in Sessions, ReaderCloses(s) PROVE Holder'
  BY <1>8 DEF ReaderCloses
<1>9. ASSUME NEW s \in Sessions, ClearSession(s) PROVE Holder'
  BY <1>9 DEF ClearSession
<1>10. ASSUME NEW s \in Sessions, TakeClosed(s) PROVE Holder'
  BY <1>10 DEF TakeClosed
<1>11. CASE ToggleOff
  BY <1>11 DEF ToggleOff, CloseCamera
<1>12. CASE ToggleOn
  BY <1>12 DEF ToggleOn
<1>13. ASSUME NEW m \in inbox, HandleStarted(m) PROVE Holder'
  BY <1>13 DEF HandleStarted
<1>14. ASSUME NEW m \in inbox, HandleFrame(m) PROVE Holder'
  BY <1>14 DEF HandleFrame
<1>15. CASE Quit
  BY <1>15 DEF Quit, CloseCamera
<1>16. CASE Cancel
  BY <1>16 DEF Cancel
<1>17. CASE Cleanup
  BY <1>17 DEF Cleanup, CloseCamera
<1>18. CASE UNCHANGED vars
  BY <1>18 DEF vars
<1> QED
  BY <1>1, <1>2, <1>3, <1>4, <1>5, <1>6, <1>7, <1>8, <1>9, <1>10, <1>11, <1>12,
     <1>13, <1>14, <1>15, <1>16, <1>17, <1>18
  DEF Next, StartStep, ReaderStep, Handle, Finished

\* A session is fresh when it starts, and listened to at most once.
LEMMA ListenedStep ==
  ASSUME TypeInv, OneStart, SessionAges, Listened, [Next]_vars
  PROVE  Listened'
<1> USE MessageFields DEF TypeInv, TypeOK, InboxOK, OneStart, SessionAges,
        Listened, cameraVars, startVars, sessionVars, uiVars, historyVars
<1>1. CASE BeginStart
  BY <1>1 DEF BeginStart
<1>2. CASE OpenDevice
  BY <1>2 DEF OpenDevice
<1>3. CASE InstallSession
  BY <1>3 DEF InstallSession
<1>4. CASE EndStart
  BY <1>4 DEF EndStart
<1>5. ASSUME NEW s \in Sessions, ReadFrame(s) PROVE Listened'
  BY <1>5 DEF ReadFrame
<1>6. ASSUME NEW s \in Sessions, ReaderStops(s) PROVE Listened'
  BY <1>6 DEF ReaderStops
<1>7. ASSUME NEW s \in Sessions, TakeFrame(s) PROVE Listened'
  BY <1>7 DEF TakeFrame
<1>8. ASSUME NEW s \in Sessions, ReaderCloses(s) PROVE Listened'
  BY <1>8 DEF ReaderCloses
<1>9. ASSUME NEW s \in Sessions, ClearSession(s) PROVE Listened'
  BY <1>9 DEF ClearSession
<1>10. ASSUME NEW s \in Sessions, TakeClosed(s) PROVE Listened'
  BY <1>10 DEF TakeClosed
<1>11. CASE ToggleOff
  BY <1>11, NoneIsNoSession DEF ToggleOff, CloseCamera
<1>12. CASE ToggleOn
  BY <1>12 DEF ToggleOn
<1>13. ASSUME NEW m \in inbox, HandleStarted(m) PROVE Listened'
  BY <1>13 DEF HandleStarted
<1>14. ASSUME NEW m \in inbox, HandleFrame(m) PROVE Listened'
  BY <1>14, NoneIsNoSession DEF HandleFrame
<1>15. CASE Quit
  BY <1>15 DEF Quit, CloseCamera
<1>16. CASE Cancel
  BY <1>16 DEF Cancel
<1>17. CASE Cleanup
  BY <1>17 DEF Cleanup, CloseCamera
<1>18. CASE UNCHANGED vars
  BY <1>18 DEF vars
<1> QED
  BY <1>1, <1>2, <1>3, <1>4, <1>5, <1>6, <1>7, <1>8, <1>9, <1>10, <1>11, <1>12,
     <1>13, <1>14, <1>15, <1>16, <1>17, <1>18
  DEF Next, StartStep, ReaderStep, Handle, Finished

----------------------------------------------------------------------------
\* The theorems.

\* Before the first start there is no session and no message.
LEMMA CameraInit == Init => CameraInv
<1> SUFFICES ASSUME Init PROVE CameraInv
  OBVIOUS
<1> USE CameraAssumption DEF Init
<1>1. TypeInv
  <2>1. 0 \in 0..MaxFrames
    OBVIOUS
  <2>2. TypeOK
    BY <2>1 DEF TypeOK
  <2> QED
    BY <2>2 DEF TypeInv, InboxOK, AllSent, Sent
<1>2. OneStart /\ SessionAges /\ Holder /\ Listened
  BY NoneIsNoSession DEF OneStart, SessionAges, Holder, Listened
<1> QED
  BY <1>1, <1>2 DEF CameraInv

\* Every step keeps the invariant.
LEMMA CameraStep == CameraInv /\ [Next]_vars => CameraInv'
<1> SUFFICES ASSUME CameraInv, [Next]_vars PROVE CameraInv'
  OBVIOUS
<1>1. TypeInv /\ OneStart /\ SessionAges /\ Holder /\ Listened
  BY DEF CameraInv
<1>2. TypeInv'
  BY <1>1, TypeStep, InboxStep, SentStep DEF TypeInv
<1> QED
  BY <1>1, <1>2, OneStartStep, AgesStep, HolderStep, ListenedStep DEF CameraInv

\* So it holds throughout.
LEMMA CameraInvariant == Spec => []CameraInv
  BY CameraInit, CameraStep, PTL DEF Spec

\* Every variable of the camera keeps its type; in particular no frame is
\* broadcast twice, for there are never more broadcasts than frames read.
THEOREM CameraTypeCorrect == Spec => []TypeOK
<1>1. CameraInv => TypeOK
  BY DEF CameraInv, TypeInv
<1> QED
  BY <1>1, CameraInvariant, PTL

\* The device is open at most once, in the hands of the installed session or
\* of Start, and a start the user asks for does not find it in use: whatever
\* the order in which Start, Close, the readers and the messages take effect.
THEOREM OneDeviceAlways == Spec => []OneDevice
<1>1. ASSUME CameraInv PROVE OneDevice
  <2> USE <1>1 DEF CameraInv
  <2>1. \A s \in Sessions :
          track[s] = "open" => session = s \/ (start = "opened" /\ startSess = s)
    BY DEF Holder
  <2>2. start = "checked" => session = None /\ ~starting
    BY DEF Holder, OneStart
  <2>3. \A r, s \in Sessions : track[r] = "open" /\ track[s] = "open" => r = s
    BY <2>1, NoneIsNoSession DEF Holder
  <2> DEFINE Opened == {s \in Sessions : track[s] = "open"}
  <2>4. Cardinality(Opened) <= 1
    <3>1. CASE Opened = {}
      BY <3>1, FS_EmptySet
    <3>2. CASE Opened # {}
      <4>1. PICK s : Opened = {s}
        BY <2>3, <3>2
      <4> QED
        BY <4>1, FS_Singleton
    <3> QED
      BY <3>1, <3>2
  <2> QED
    BY <2>1, <2>2, <2>4 DEF OneDevice
<1> QED
  BY <1>1, CameraInvariant, PTL

\* No frame of a session the user has switched off is broadcast, not even
\* after the camera is on again: the channel the UI listens to is never that
\* of such a session.
THEOREM FramesAlwaysLive == Spec => FramesFromLiveSession
<1>1. CameraInv /\ [Next]_vars =>
        [\A s \in userClosed : broadcast'[s] = broadcast[s]]_vars
  <2> SUFFICES ASSUME CameraInv, Next, NEW s \in userClosed
               PROVE  broadcast'[s] = broadcast[s]
    OBVIOUS
  <2>1. ASSUME NEW m \in inbox, HandleFrame(m)
        PROVE  broadcast'[s] = broadcast[s]
    <3>1. s # cameraFrames /\ s \in Sessions
          /\ broadcast \in [Sessions -> 0..MaxFrames]
      BY DEF CameraInv, Listened, TypeInv, TypeOK
    <3> QED
      BY <2>1, <3>1 DEF HandleFrame
  <2>2. CASE ~ \E m \in inbox : HandleFrame(m)
    <3>1. broadcast' = broadcast
      BY <2>2 DEF Next, StartStep, ReaderStep, Handle, Finished, BeginStart,
         OpenDevice, InstallSession, EndStart, ReadFrame, ReaderStops, TakeFrame,
         ReaderCloses, ClearSession, TakeClosed, ToggleOff, ToggleOn,
         HandleStarted, Quit, Cancel, Cleanup, historyVars, vars
    <3> QED
      BY <3>1
  <2> QED
    BY <2>1, <2>2
<1> QED
  BY <1>1, CameraInvariant, PTL DEF Spec, FramesFromLiveSession

----------------------------------------------------------------------------
\* The video stream: the inductive invariant.

\* What a frame carries: a keyframe the whole picture, a delta some of its
\* cells.
MessageOK(m) ==
  /\ m.seq \in 1..seq /\ m.frame.kind \in {"K", "D", "off"}
  /\ m.frame.kind # "off" => m.picture \in Pictures
  /\ m.frame.kind = "K" => m.picture = Picture(m.frame.cells, m.frame.mode)
  /\ m.frame.kind = "D" =>
       /\ m.frame.mode = m.picture.mode
       /\ \A x \in DOMAIN m.frame.cells : m.frame.cells[x] \in Colours

FlightOK == \A m \in flight : MessageOK(m)

VideoTypes == VideoTypeOK /\ FlightOK /\ streak <= lastSeq

\* A delta turns the picture before it into its own.
Patched(p, f) ==
  Picture([x \in CellIDs |->
                   IF x \in DOMAIN f.cells THEN f.cells[x] ELSE p.grid[x]],
                p.mode)

Follows(m, p) == m.frame.kind = "D" => m.picture = Patched(p, m.frame)

\* The sender's previous picture is that of the last frame.
SenderKnows ==
  prev # NoPicture =>
    /\ \A m \in flight :
         m.seq = seq => m.frame.kind # "off" /\ m.picture = Picture(prev, mode)
    /\ intact # 0 /\ intact = seq => latest = Picture(prev, mode)

\* Frames that follow one another fit, in the network and at the receiver.
FramesFit ==
  /\ \A m, n \in flight :
       n.seq = m.seq + 1 /\ m.frame.kind # "off" => Follows(n, m.picture)
  /\ \A n \in flight : intact # 0 /\ n.seq = intact + 1 => Follows(n, latest)

ViewerExact ==
  intact # 0 =>
    intact = lastSeq /\ latest \in Pictures /\ tile = latest /\ decoder = latest

\* The last frame of a camera that is off says so.
OffShown ==
  camera = "off" =>
    /\ \A m \in flight : m.seq = seq => m.frame.kind = "off"
    /\ lastSeq = seq => tile = NoPicture

\* c[s]: deltas in a row up to frame s.  A viewer without a keyframe has had
\* nothing but deltas.
Counts(c) ==
  /\ c \in [1..seq -> 0..KeyframeEvery - 1]
  /\ prev # NoPicture => seq > 0 /\ c[seq] = frameCount
  /\ \A m \in flight : m.frame.kind = "D" => m.seq > 1 /\ c[m.seq] = c[m.seq - 1] + 1
  /\ intact = 0 /\ streak > 0 => c[lastSeq] >= streak

KeyframesCounted == \E c \in [1..seq -> 0..KeyframeEvery - 1] : Counts(c)

VideoInv ==
  /\ VideoTypes /\ SenderKnows /\ FramesFit /\ ViewerExact /\ OffShown
  /\ KeyframesCounted

----------------------------------------------------------------------------
\* The steps of the sender and of the viewer.

\* The stabiliser returns a picture.
LEMMA StabiliseType ==
  ASSUME VideoConstants, VideoTypes, NEW cells \in Grids
  PROVE  Stabilise(cells) \in Grids
  BY DEF VideoTypes, VideoTypeOK, Stabilise, Grids

\* What the camera sends: a frame with the next number, whole or on top of
\* the previous picture.
SendsFrame(m, out) ==
  /\ m.seq = seq + 1 /\ m.frame.kind \in {"K", "D"} /\ m.picture = Picture(out, mode)
  /\ m.frame.kind = "K" => m.picture = Picture(m.frame.cells, m.frame.mode)
  /\ m.frame.kind = "D" =>
       /\ prev # NoPicture /\ frameCount + 1 < KeyframeEvery
       /\ m.frame.mode = mode
       /\ \A x \in DOMAIN m.frame.cells : m.frame.cells[x] \in Colours
       /\ m.picture = Patched(Picture(prev, mode), m.frame)
  /\ frameCount' = IF m.frame.kind = "K" THEN 0 ELSE frameCount + 1

\* The codec loses nothing: a delta and the picture it was made from give the
\* picture back.
LEMMA EncodedFrame ==
  ASSUME VideoConstants, VideoTypes, NEW out \in Grids,
         frameCount' = IF NeedsKeyframe(out) THEN 0 ELSE frameCount + 1
  PROVE  SendsFrame([seq |-> seq + 1, frame |-> Encoded(out),
                    picture |-> Picture(out, mode)], out)
<1> DEFINE f == Encoded(out)
<1> DEFINE m == [seq |-> seq + 1, frame |-> f, picture |-> Picture(out, mode)]
<1>1. CASE NeedsKeyframe(out)
  <2>1. f = [kind |-> "K", mode |-> mode, cells |-> out]
    BY <1>1 DEF Encoded
  <2> QED
    BY <1>1, <2>1 DEF SendsFrame
<1>2. CASE ~NeedsKeyframe(out)
  <2>1. f = [kind |-> "D", mode |-> mode,
             cells |-> [x \in Changed(out) |-> out[x]]]
    BY <1>2 DEF Encoded
  <2>2. prev \in Grids /\ prev # NoPicture /\ frameCount \in Nat /\ KeyframeEvery \in Nat
    BY <1>2
    DEF NeedsKeyframe, VideoTypes, VideoTypeOK, VideoConstants
  <2>3. ~(frameCount + 1 >= KeyframeEvery)
    BY <1>2 DEF NeedsKeyframe
  <2>4. frameCount + 1 < KeyframeEvery
    BY <2>2, <2>3
  <2>5. /\ DOMAIN f.cells = Changed(out)
        /\ Changed(out) \subseteq CellIDs
        /\ \A x \in Changed(out) : f.cells[x] = out[x]
    BY <2>1 DEF Changed
  <2>6. out = [x \in CellIDs |-> IF x \in DOMAIN f.cells THEN f.cells[x] ELSE prev[x]]
    <3>1. \A x \in CellIDs :
            out[x] = IF x \in DOMAIN f.cells THEN f.cells[x] ELSE prev[x]
      BY <2>5 DEF Changed
    <3>2. out = [x \in CellIDs |-> out[x]]
      BY DEF Grids
    <3> HIDE DEF f
    <3> QED
      BY <3>1, <3>2
  <2>7. Picture(out, mode) = Patched(Picture(prev, mode), f)
    BY <2>6 DEF Patched, Picture
  <2>8. \A x \in DOMAIN f.cells : f.cells[x] \in Colours
    BY <2>5 DEF Grids
  <2>9. f.kind = "D" /\ f.mode = mode
    BY <2>1
  <2>10. m.seq = seq + 1 /\ m.frame = f /\ m.picture = Picture(out, mode)
    OBVIOUS
  <2> HIDE DEF f, m
  <2>11. SendsFrame(m, out)
    BY <1>2, <2>2, <2>4, <2>7, <2>8, <2>9, <2>10 DEF SendsFrame
  <2> QED
    BY <2>11 DEF m, f
<1> QED
  BY <1>1, <1>2

\* A picture is sent, or stopped at the channel.
LEMMA PictureSent ==
  ASSUME VideoConstants, VideoTypes, NEW cells \in Grids,
         LocalFrame(cells)
  PROVE  \E m, out :
           /\ out \in Grids /\ SendsFrame(m, out) /\ prev' = out
           /\ flight' \subseteq flight \cup {m}
<1> DEFINE out == Stabilise(cells)
<1>1. out \in Grids
  BY StabiliseType
<1>2. /\ prev' = out
      /\ frameCount' = IF NeedsKeyframe(out) THEN 0 ELSE frameCount + 1
      /\ Broadcast(Encoded(out), Picture(out, mode))
  BY DEF LocalFrame
<1> HIDE DEF out
<1> DEFINE m == [seq |-> seq + 1, frame |-> Encoded(out),
                 picture |-> Picture(out, mode)]
<1>3. flight' \subseteq flight \cup {m}
  BY <1>2 DEF Broadcast
<1>4. SendsFrame(m, out)
  BY <1>1, <1>2, EncodedFrame
<1> HIDE DEF m
<1> QED
  BY <1>1, <1>2, <1>3, <1>4

\* What the sender leaves alone and counts.
SenderKeeps ==
  /\ camera = "on" /\ camera' = camera /\ mode' = mode
  /\ seq' = seq + 1 /\ seq < MaxSeq /\ baseline' = prev' /\ raw' \in Grids
  /\ UNCHANGED receiverVars

LEMMA SenderStep ==
  ASSUME NEW cells \in Grids, LocalFrame(cells)
  PROVE  SenderKeeps
  BY DEF LocalFrame, Broadcast, SenderKeeps

\* What becomes of a frame that is not stale.
Applied(m) ==
  \/ /\ m.frame.kind = "off" /\ streak' = 0
     /\ tile' = NoPicture /\ latest' = NoPicture /\ intact' = 0 /\ decoder' = decoder
  \/ /\ m.frame.kind # "off"
     /\ streak' = IF m.seq = lastSeq + 1 THEN streak + 1 ELSE 1
     /\ \/ /\ Decodable(m.frame) /\ decoder' = Decode(m.frame)
           /\ tile' = Decode(m.frame) /\ latest' = m.picture
           /\ intact' = IntactAfter(m.frame, m.seq)
        \/ /\ ~Decodable(m.frame) /\ intact' = 0
           /\ UNCHANGED <<tile, latest, decoder>>

LEMMA Shown ==
  ASSUME NEW m \in flight, Show(m)
  PROVE  /\ ~(m.seq <= lastSeq) /\ flight' = flight \ {m} /\ lastSeq' = m.seq
         /\ UNCHANGED <<senderVars, seq>> /\ Applied(m)
<1>1. CASE m.frame.kind = "off"
  BY <1>1 DEF Show, Stale, Applied
<1>2. CASE m.frame.kind # "off" /\ Decodable(m.frame)
  BY <1>2 DEF Show, Stale, Applied
<1>3. CASE m.frame.kind # "off" /\ ~Decodable(m.frame)
  BY <1>3 DEF Show, Stale, Applied
<1> QED
  BY <1>1, <1>2, <1>3

\* A delta decoded on top of a picture gives a picture; a keyframe its own.
LEMMA DecodeType ==
  ASSUME VideoTypes, NEW m \in flight, m.frame.kind # "off",
         Decodable(m.frame)
  PROVE  Decode(m.frame) \in Pictures
<1>0. MessageOK(m)
  BY DEF VideoTypes, FlightOK
<1>1. CASE m.frame.kind = "K"
  BY <1>0, <1>1 DEF MessageOK, Decode
<1>2. CASE m.frame.kind = "D"
  <2>1. decoder \in Pictures
    BY <1>2 DEF Decodable, VideoTypes, VideoTypeOK
  <2>2. \A x \in DOMAIN m.frame.cells : m.frame.cells[x] \in Colours
    BY <1>0, <1>2 DEF MessageOK
  <2> QED
    BY <1>2, <2>1, <2>2
    DEF Decode, Picture, Pictures, Grids
<1> QED
  BY <1>0, <1>1, <1>2 DEF MessageOK

\* A viewer that is exact decodes the next frame exactly.
LEMMA NextExact ==
  ASSUME VideoConstants, VideoTypes, ViewerExact, FramesFit,
         NEW m \in flight,
         m.frame.kind = "D", intact # 0, m.seq = intact + 1
  PROVE  Decodable(m.frame) /\ Decode(m.frame) = m.picture
<1>1. m.picture = Patched(latest, m.frame) /\ decoder = latest /\ latest \in Pictures
  BY DEF FramesFit, Follows, ViewerExact
<1>2. Decode(m.frame) = Patched(decoder, m.frame)
  BY DEF Decode, Patched
<1>3. m.frame.mode = m.picture.mode
  BY DEF VideoTypes, FlightOK, MessageOK
<1>4. m.picture.mode = decoder.mode
  BY <1>1 DEF Patched, Picture
<1>5. decoder # NoPicture
  BY <1>1 DEF VideoConstants
<1> QED
  BY <1>1, <1>2, <1>3, <1>4, <1>5 DEF Decodable
----------------------------------------------------------------------------
\* Types.

\* The natural numbers among them.
LEMMA VideoNumbers ==
  ASSUME VideoConstants, VideoTypes
  PROVE  /\ seq \in Nat /\ lastSeq \in Nat /\ intact \in Nat /\ streak \in Nat
         /\ frameCount \in Nat /\ KeyframeEvery \in Nat /\ KeyframeEvery >= 1
         /\ MaxSeq \in Nat /\ seq <= MaxSeq /\ lastSeq <= seq /\ intact <= seq
         /\ streak <= lastSeq /\ frameCount < KeyframeEvery
         /\ \A m \in flight : m.seq \in Nat /\ 1 <= m.seq /\ m.seq <= seq
  BY DEF VideoConstants, VideoTypes, VideoTypeOK, FlightOK, MessageOK

\* Every step keeps the types.
LEMMA VideoTypesStep ==
  ASSUME VideoConstants, VideoTypes, [VideoNext]_videoVars
  PROVE  VideoTypes'
<1> USE VideoNumbers
<1>1. ASSUME NEW cells \in Grids, LocalFrame(cells)
      PROVE  VideoTypes'
  <2>1. PICK m, out : /\ out \in Grids /\ SendsFrame(m, out) /\ prev' = out
                      /\ flight' \subseteq flight \cup {m}
    BY <1>1, PictureSent
  <2>2. SenderKeeps
    BY <1>1, SenderStep
  <2>3. frameCount' \in 0..KeyframeEvery - 1
    BY <2>1 DEF SendsFrame
  <2>5. Picture(out, mode) \in Pictures /\ Picture(out, mode).mode = mode
    BY <2>1 DEF Picture, Pictures, VideoTypes, VideoTypeOK
  <2>6. ASSUME NEW n \in flight' PROVE MessageOK(n)'
    <3>1. CASE n \in flight
      BY <3>1, <2>2 DEF VideoTypes, FlightOK, MessageOK, SenderKeeps
    <3>2. CASE n = m
      BY <3>2, <2>1, <2>2, <2>5 DEF SendsFrame, MessageOK, SenderKeeps
    <3> QED
      BY <2>1, <3>1, <3>2
  <2>7. \A n \in flight' : n.seq \in 1..seq'
    BY <2>6 DEF MessageOK
  <2>8. VideoTypeOK'
    BY <2>1, <2>2, <2>3, <2>7
    DEF SenderKeeps, VideoTypeOK, VideoTypes, receiverVars
  <2> QED
    BY <2>2, <2>8, <2>6
    DEF SenderKeeps, VideoTypes, FlightOK, receiverVars
<1>2. CASE StartCamera
  BY <1>2
  DEF VideoTypes, VideoTypeOK, FlightOK, MessageOK, receiverVars,
      StartCamera, ResetRenderer
<1>3. CASE StopCamera
  <2> DEFINE m == [seq |-> seq + 1, frame |-> OffFrame, picture |-> NoPicture]
  <2>1. m.seq = seq + 1 /\ m.frame = OffFrame /\ flight' \subseteq flight \cup {m}
    BY <1>3 DEF StopCamera, Broadcast
  <2> HIDE DEF m
  <2>2. seq' = seq + 1 /\ seq < MaxSeq
    BY <1>3 DEF StopCamera, Broadcast
  <2>4. ASSUME NEW n \in flight' PROVE MessageOK(n)'
    <3>1. CASE n \in flight
      BY <3>1, <2>2 DEF VideoTypes, FlightOK, MessageOK
    <3>2. CASE n = m
      BY <3>2, <2>1, <2>2 DEF MessageOK, OffFrame
    <3> QED
      BY <2>1, <3>1, <3>2
  <2>5. \A n \in flight' : n.seq \in 1..seq'
    BY <2>4 DEF MessageOK
  <2>6. VideoTypeOK'
    BY <1>3, <2>2, <2>5
    DEF VideoTypeOK, VideoTypes, StopCamera, ResetRenderer,
        receiverVars
  <2> QED
    BY <1>3, <2>4, <2>6
    DEF VideoTypes, FlightOK, StopCamera, receiverVars
<1>4. CASE StreamEnds
  BY <1>4
  DEF VideoTypes, VideoTypeOK, FlightOK, MessageOK, receiverVars,
      StreamEnds
<1>5. ASSUME NEW m \in Modes, ChangeMode(m) PROVE VideoTypes'
  BY <1>5
  DEF VideoTypes, VideoTypeOK, FlightOK, MessageOK, receiverVars,
      ChangeMode, ResetRenderer
<1>6. ASSUME NEW m \in flight, Lose(m) PROVE VideoTypes'
  BY <1>6
  DEF VideoTypes, VideoTypeOK, FlightOK, MessageOK, receiverVars,
      Lose, senderVars
<1>7. ASSUME NEW m \in flight, DropStale(m) PROVE VideoTypes'
  BY <1>7
  DEF VideoTypes, VideoTypeOK, FlightOK, MessageOK, receiverVars,
      DropStale, senderVars
<1>8. ASSUME NEW m \in flight, Show(m) PROVE VideoTypes'
  <2>1. MessageOK(m)
    BY DEF VideoTypes, FlightOK
  <2>2. /\ ~(m.seq <= lastSeq) /\ flight' = flight \ {m} /\ lastSeq' = m.seq
        /\ UNCHANGED <<senderVars, seq>> /\ Applied(m)
    BY <1>8, Shown
  <2>3. streak' \in Nat /\ streak' <= lastSeq'
    BY <2>2 DEF Applied
  <2>4. lastSeq' \in 0..seq' /\ intact' \in 0..seq'
    BY <2>2 DEF Applied, IntactAfter
  <2>5. /\ decoder' \in Pictures \cup {NoPicture}
        /\ tile' \in Pictures \cup {NoPicture}
        /\ latest' \in Pictures \cup {NoPicture}
    BY <2>1, <2>2, DecodeType DEF Applied, VideoTypes, VideoTypeOK, MessageOK
  <2>6. VideoTypeOK'
    BY <2>2, <2>3, <2>4, <2>5 DEF VideoTypes, VideoTypeOK, senderVars
  <2> QED
    BY <2>2, <2>3, <2>6 DEF VideoTypes, FlightOK, MessageOK
<1>9. CASE UNCHANGED videoVars
  BY <1>9 DEF videoVars, VideoTypes, VideoTypeOK, FlightOK, MessageOK
<1> QED
  BY <1>1, <1>2, <1>3, <1>4, <1>5, <1>6, <1>7, <1>8, <1>9
  DEF VideoNext, Grids
----------------------------------------------------------------------------
\* The invariant, part by part.

\* A viewer who is exact stays exact while no frame is missed.
LEMMA ViewerExactStep ==
  ASSUME VideoConstants, VideoTypes, ViewerExact, FramesFit,
         [VideoNext]_videoVars
  PROVE  ViewerExact'
<1> USE VideoNumbers
<1>1. ASSUME NEW cells \in Grids, LocalFrame(cells)
      PROVE  ViewerExact'
  BY <1>1, SenderStep DEF SenderKeeps, ViewerExact, receiverVars
<1>2. CASE StartCamera
  BY <1>2
  DEF ViewerExact, receiverVars, StartCamera, ResetRenderer
<1>3. CASE StopCamera
  BY <1>3
  DEF ViewerExact, receiverVars, StopCamera, ResetRenderer,
      Broadcast, OffFrame
<1>4. CASE StreamEnds
  BY <1>4 DEF ViewerExact, receiverVars, StreamEnds
<1>5. ASSUME NEW m \in Modes, ChangeMode(m) PROVE ViewerExact'
  BY <1>5
  DEF ViewerExact, receiverVars, ChangeMode, ResetRenderer
<1>6. ASSUME NEW m \in flight, Lose(m) PROVE ViewerExact'
  BY <1>6 DEF ViewerExact, receiverVars, Lose, senderVars
<1>7. ASSUME NEW m \in flight, DropStale(m) PROVE ViewerExact'
  BY <1>7
  DEF ViewerExact, receiverVars, DropStale, senderVars
<1>8. ASSUME NEW m \in flight, Show(m) PROVE ViewerExact'
  <2>1. /\ ~(m.seq <= lastSeq) /\ flight' = flight \ {m} /\ lastSeq' = m.seq
        /\ UNCHANGED <<senderVars, seq>> /\ Applied(m)
    BY <1>8, Shown
  <2>2. MessageOK(m)
    BY DEF VideoTypes, FlightOK
  <2>3. ASSUME m.frame.kind = "K" PROVE ViewerExact'
    <3>1. /\ Decodable(m.frame) /\ Decode(m.frame) = m.picture
          /\ m.picture \in Pictures
      BY <2>2, <2>3 DEF MessageOK, Decodable, Decode
    <3> QED
      BY <2>1, <2>3, <3>1 DEF ViewerExact, Applied, IntactAfter
  <2>4. ASSUME m.frame.kind = "D", intact # 0, m.seq = intact + 1
        PROVE  ViewerExact'
    <3>1. m.picture \in Pictures
      BY <2>2, <2>4 DEF MessageOK
    <3>2. Decodable(m.frame) /\ Decode(m.frame) = m.picture
      BY <2>4, NextExact
    <3> QED
      BY <2>1, <2>4, <3>1, <3>2 DEF ViewerExact, Applied, IntactAfter
  <2>5. ASSUME m.frame.kind # "K",
               m.frame.kind = "off" \/ ~(intact # 0 /\ m.seq = intact + 1)
        PROVE  ViewerExact'
    BY <2>1, <2>5 DEF Applied, IntactAfter, ViewerExact
  <2> QED
    BY <2>2, <2>3, <2>4, <2>5 DEF MessageOK
<1>9. CASE UNCHANGED videoVars
  BY <1>9 DEF ViewerExact, videoVars
<1> QED
  BY <1>1, <1>2, <1>3, <1>4, <1>5, <1>6, <1>7, <1>8, <1>9
  DEF VideoNext, Grids

\* The encoder's last picture is that of the last frame sent.
LEMMA SenderKnowsStep ==
  ASSUME VideoConstants, VideoTypes, SenderKnows, ViewerExact,
         [VideoNext]_videoVars
  PROVE  SenderKnows'
<1> USE VideoNumbers
<1>1. ASSUME NEW cells \in Grids, LocalFrame(cells)
      PROVE  SenderKnows'
  <2>1. PICK m, out : /\ out \in Grids /\ SendsFrame(m, out) /\ prev' = out
                      /\ flight' \subseteq flight \cup {m}
    BY <1>1, PictureSent
  <2>2. SenderKeeps
    BY <1>1, SenderStep
  <2>3. \A n \in flight' : n.seq = seq + 1 => n = m
    BY <2>1
  <2>4. m.frame.kind # "off" /\ m.picture = Picture(out, mode)
    BY <2>1 DEF SendsFrame
  <2> QED
    BY <2>1, <2>2, <2>3, <2>4 DEF SenderKeeps, SenderKnows, receiverVars
<1>2. CASE StartCamera
  BY <1>2
  DEF SenderKnows, receiverVars, StartCamera, ResetRenderer
<1>3. CASE StopCamera
  BY <1>3
  DEF SenderKnows, receiverVars, StopCamera, ResetRenderer,
      Broadcast, OffFrame
<1>4. CASE StreamEnds
  BY <1>4 DEF SenderKnows, receiverVars, StreamEnds
<1>5. ASSUME NEW m \in Modes, ChangeMode(m) PROVE SenderKnows'
  BY <1>5
  DEF SenderKnows, receiverVars, ChangeMode, ResetRenderer
<1>6. ASSUME NEW m \in flight, Lose(m) PROVE SenderKnows'
  BY <1>6 DEF SenderKnows, receiverVars, Lose, senderVars
<1>7. ASSUME NEW m \in flight, DropStale(m) PROVE SenderKnows'
  BY <1>7
  DEF SenderKnows, receiverVars, DropStale, senderVars
<1>8. ASSUME NEW m \in flight, Show(m) PROVE SenderKnows'
  <2>1. /\ ~(m.seq <= lastSeq) /\ flight' = flight \ {m} /\ lastSeq' = m.seq
        /\ UNCHANGED <<senderVars, seq>> /\ Applied(m)
    BY <1>8, Shown
  <2>2. MessageOK(m)
    BY DEF VideoTypes, FlightOK
  <2>3. ASSUME intact' # 0 PROVE latest' = m.picture /\ intact' = m.seq
    BY <2>1, <2>3 DEF Applied, IntactAfter
  <2> QED
    BY <2>1, <2>3 DEF SenderKnows, senderVars
<1>9. CASE UNCHANGED videoVars
  BY <1>9 DEF SenderKnows, videoVars
<1> QED
  BY <1>1, <1>2, <1>3, <1>4, <1>5, <1>6, <1>7, <1>8, <1>9
  DEF VideoNext, Grids

\* Every delta fits the frame before it.
LEMMA FramesFitStep ==
  ASSUME VideoConstants, VideoTypes, FramesFit, SenderKnows,
         [VideoNext]_videoVars
  PROVE  FramesFit'
<1> USE VideoNumbers
<1>1. ASSUME NEW cells \in Grids, LocalFrame(cells) PROVE FramesFit'
  <2>1. PICK m, out : /\ out \in Grids /\ SendsFrame(m, out) /\ prev' = out
                      /\ flight' \subseteq flight \cup {m}
    BY <1>1, PictureSent
  <2>2. SenderKeeps
    BY <1>1, SenderStep
  <2>3. m.seq = seq + 1 /\ seq' = seq + 1 /\ UNCHANGED <<intact, latest>>
    BY <2>1, <2>2 DEF SendsFrame, SenderKeeps, receiverVars
  <2>4. ASSUME m.frame.kind = "D"
        PROVE  prev # NoPicture /\ m.picture = Patched(Picture(prev, mode), m.frame)
    BY <2>1, <2>4 DEF SendsFrame
  <2>5. ASSUME NEW a \in flight', NEW n \in flight',
               n.seq = a.seq + 1, a.frame.kind # "off"
        PROVE  Follows(n, a.picture)
    <3>1. a \in flight
      BY <2>1, <2>3, <2>5
    <3>2. CASE n \in flight
      BY <2>5, <3>1, <3>2 DEF FramesFit
    <3>3. CASE n = m
      <4>1. a.seq = seq
        BY <2>3, <2>5, <3>1, <3>3
      <4> QED
        BY <2>4, <3>1, <3>3, <4>1 DEF Follows, SenderKnows
    <3> QED
      BY <2>1, <3>2, <3>3
  <2>6. ASSUME NEW n \in flight', intact # 0, n.seq = intact + 1
        PROVE  Follows(n, latest)
    <3>1. CASE n \in flight
      BY <2>6, <3>1 DEF FramesFit
    <3>2. CASE n = m
      <4>1. intact = seq
        BY <2>3, <2>6, <3>2
      <4> QED
        BY <2>4, <2>6, <3>2, <4>1 DEF Follows, SenderKnows
    <3> QED
      BY <2>1, <3>1, <3>2
  <2> QED
    BY <2>3, <2>5, <2>6 DEF FramesFit, Follows
<1>2. CASE StartCamera
  BY <1>2
  DEF FramesFit, Follows, receiverVars, StartCamera,
      ResetRenderer
<1>3. CASE StopCamera
  <2> DEFINE m == [seq |-> seq + 1, frame |-> OffFrame, picture |-> NoPicture]
  <2>1. /\ m.seq = seq + 1 /\ m.frame.kind = "off"
        /\ flight' \subseteq flight \cup {m} /\ seq' = seq + 1
    BY <1>3 DEF StopCamera, Broadcast, OffFrame
  <2> HIDE DEF m
  <2>2. UNCHANGED <<intact, latest>>
    BY <1>3 DEF StopCamera, receiverVars
  <2>3. \A n \in flight' : n.frame.kind = "D" => n \in flight
    BY <2>1
  <2>4. \A a \in flight' : a.frame.kind # "off" => a \in flight
    BY <2>1
  <2> QED
    BY <2>2, <2>3, <2>4 DEF FramesFit, Follows
<1>4. CASE StreamEnds
  BY <1>4 DEF FramesFit, Follows, receiverVars, StreamEnds
<1>5. ASSUME NEW m \in Modes, ChangeMode(m) PROVE FramesFit'
  BY <1>5
  DEF FramesFit, Follows, receiverVars, ChangeMode,
      ResetRenderer
<1>6. ASSUME NEW m \in flight, Lose(m) PROVE FramesFit'
  BY <1>6
  DEF FramesFit, Follows, receiverVars, Lose, senderVars
<1>7. ASSUME NEW m \in flight, DropStale(m) PROVE FramesFit'
  BY <1>7
  DEF FramesFit, Follows, receiverVars, DropStale, senderVars
<1>8. ASSUME NEW m \in flight, Show(m) PROVE FramesFit'
  <2>1. /\ ~(m.seq <= lastSeq) /\ flight' = flight \ {m} /\ lastSeq' = m.seq
        /\ UNCHANGED <<senderVars, seq>> /\ Applied(m)
    BY <1>8, Shown
  <2>2. MessageOK(m)
    BY DEF VideoTypes, FlightOK
  <2>3. ASSUME intact' # 0
        PROVE  latest' = m.picture /\ intact' = m.seq /\ m.frame.kind # "off"
    BY <2>1, <2>3 DEF Applied, IntactAfter
  <2> QED
    BY <2>1, <2>3 DEF FramesFit, Follows
<1>9. CASE UNCHANGED videoVars
  BY <1>9 DEF FramesFit, Follows, videoVars
<1> QED
  BY <1>1, <1>2, <1>3, <1>4, <1>5, <1>6, <1>7, <1>8, <1>9
  DEF VideoNext, Grids

\* The last thing a camera that is off has said is that it is off.
LEMMA OffShownStep ==
  ASSUME VideoConstants, VideoTypes, OffShown, [VideoNext]_videoVars
  PROVE  OffShown'
<1> USE VideoNumbers
<1>1. ASSUME NEW cells \in Grids, LocalFrame(cells) PROVE OffShown'
  BY <1>1, SenderStep DEF SenderKeeps, OffShown
<1>2. CASE StartCamera
  BY <1>2
  DEF OffShown, receiverVars, StartCamera, ResetRenderer
<1>3. CASE StopCamera
  <2> DEFINE m == [seq |-> seq + 1, frame |-> OffFrame, picture |-> NoPicture]
  <2>1. /\ m.seq = seq + 1 /\ m.frame.kind = "off"
        /\ flight' \subseteq flight \cup {m} /\ seq' = seq + 1
    BY <1>3 DEF StopCamera, Broadcast, OffFrame
  <2> HIDE DEF m
  <2>2. \A n \in flight' : n.seq = seq' => n = m
    BY <2>1
  <2> QED
    BY <1>3, <2>1, <2>2 DEF OffShown, StopCamera, receiverVars
<1>4. CASE StreamEnds
  BY <1>4 DEF OffShown, receiverVars, StreamEnds
<1>5. ASSUME NEW m \in Modes, ChangeMode(m) PROVE OffShown'
  BY <1>5
  DEF OffShown, receiverVars, ChangeMode, ResetRenderer
<1>6. ASSUME NEW m \in flight, Lose(m) PROVE OffShown'
  BY <1>6 DEF OffShown, receiverVars, Lose, senderVars
<1>7. ASSUME NEW m \in flight, DropStale(m) PROVE OffShown'
  BY <1>7 DEF OffShown, receiverVars, DropStale, senderVars
<1>8. ASSUME NEW m \in flight, Show(m) PROVE OffShown'
  <2>1. /\ ~(m.seq <= lastSeq) /\ flight' = flight \ {m} /\ lastSeq' = m.seq
        /\ UNCHANGED <<senderVars, seq>> /\ Applied(m)
    BY <1>8, Shown
  <2>2. MessageOK(m)
    BY DEF VideoTypes, FlightOK
  <2> QED
    BY <2>1, <2>2 DEF OffShown, Applied, senderVars, MessageOK
<1>9. CASE UNCHANGED videoVars
  BY <1>9 DEF OffShown, videoVars
<1> QED
  BY <1>1, <1>2, <1>3, <1>4, <1>5, <1>6, <1>7, <1>8, <1>9
  DEF VideoNext, Grids

\* Deltas in a row are counted, and a viewer who got so many has a keyframe.
LEMMA CountedStep ==
  ASSUME VideoConstants, VideoTypes, KeyframesCounted, ViewerExact,
         FramesFit, [VideoNext]_videoVars
  PROVE  KeyframesCounted'
<1> USE VideoNumbers
<1>1. ASSUME NEW cells \in Grids, LocalFrame(cells)
      PROVE  KeyframesCounted'
  <2>1. PICK m, out : /\ out \in Grids /\ SendsFrame(m, out) /\ prev' = out
                      /\ flight' \subseteq flight \cup {m}
    BY <1>1, PictureSent
  <2>2. seq' = seq + 1 /\ UNCHANGED <<intact, streak, lastSeq>>
    BY <1>1, SenderStep DEF SenderKeeps, receiverVars
  <2>3. PICK c \in [1..seq -> 0..KeyframeEvery - 1] : Counts(c)
    BY DEF KeyframesCounted
  <2>4. frameCount' \in 0..KeyframeEvery - 1
    BY <2>1 DEF SendsFrame
  <2>5. PICK d \in [1..(seq + 1) -> 0..KeyframeEvery - 1] :
          d[seq + 1] = frameCount' /\ \A i \in 1..seq : d[i] = c[i]
    <3> DEFINE e == [i \in 1..(seq + 1) |-> IF i = seq + 1 THEN frameCount' ELSE c[i]]
    <3>1. /\ e \in [1..(seq + 1) -> 0..KeyframeEvery - 1]
          /\ e[seq + 1] = frameCount'
          /\ \A i \in 1..seq : e[i] = c[i]
      BY <2>4
    <3> HIDE DEF e
    <3> QED
      BY <3>1
  <2>6. ASSUME NEW n \in flight', n.frame.kind = "D"
        PROVE  n.seq > 1 /\ d[n.seq] = d[n.seq - 1] + 1
    <3>1. CASE n \in flight
      <4>1. n.seq > 1 /\ c[n.seq] = c[n.seq - 1] + 1
        BY <2>3, <2>6, <3>1 DEF Counts
      <4>2. n.seq \in 1..seq /\ n.seq - 1 \in 1..seq
        BY <3>1, <4>1
      <4> QED
        BY <2>5, <4>1, <4>2
    <3>2. CASE n = m
      <4>1. n.seq = seq + 1 /\ prev # NoPicture /\ frameCount' = frameCount + 1
        BY <2>1, <2>6, <3>2 DEF SendsFrame
      <4>2. seq > 0 /\ c[seq] = frameCount
        BY <2>3, <4>1 DEF Counts
      <4> QED
        BY <2>5, <4>1, <4>2
    <3> QED
      BY <2>1, <3>1, <3>2
  <2>7. intact = 0 /\ streak > 0 => d[lastSeq] >= streak
    BY <2>3, <2>5 DEF Counts
  <2>8. Counts(d)'
    BY <2>2, <2>5, <2>6, <2>7 DEF Counts
  <2> QED
    BY <2>2, <2>5, <2>8 DEF KeyframesCounted
<1>2. CASE StartCamera
  BY <1>2
  DEF KeyframesCounted, Counts, receiverVars, StartCamera,
      ResetRenderer
<1>3. CASE StopCamera
  <2> DEFINE m == [seq |-> seq + 1, frame |-> OffFrame, picture |-> NoPicture]
  <2>1. /\ m.seq = seq + 1 /\ m.frame.kind = "off"
        /\ flight' \subseteq flight \cup {m} /\ seq' = seq + 1
    BY <1>3 DEF StopCamera, Broadcast, OffFrame
  <2> HIDE DEF m
  <2>2. prev' = NoPicture /\ UNCHANGED <<intact, streak, lastSeq>>
    BY <1>3 DEF StopCamera, ResetRenderer, receiverVars
  <2>3. PICK c \in [1..seq -> 0..KeyframeEvery - 1] : Counts(c)
    BY DEF KeyframesCounted
  <2>5. PICK d \in [1..(seq + 1) -> 0..KeyframeEvery - 1] : \A i \in 1..seq : d[i] = c[i]
    <3> DEFINE e == [i \in 1..(seq + 1) |-> IF i = seq + 1 THEN 0 ELSE c[i]]
    <3>1. /\ e \in [1..(seq + 1) -> 0..KeyframeEvery - 1]
          /\ \A i \in 1..seq : e[i] = c[i]
      OBVIOUS
    <3> HIDE DEF e
    <3> QED
      BY <3>1
  <2>6. ASSUME NEW n \in flight', n.frame.kind = "D"
        PROVE  n.seq > 1 /\ d[n.seq] = d[n.seq - 1] + 1
    <3>1. n \in flight
      BY <2>1, <2>6
    <3>2. n.seq > 1 /\ c[n.seq] = c[n.seq - 1] + 1
      BY <2>3, <2>6, <3>1 DEF Counts
    <3>3. n.seq \in 1..seq /\ n.seq - 1 \in 1..seq
      BY <3>1, <3>2
    <3> QED
      BY <2>5, <3>2, <3>3
  <2>7. intact = 0 /\ streak > 0 => d[lastSeq] >= streak
    BY <2>3, <2>5 DEF Counts
  <2>8. Counts(d)'
    BY <2>1, <2>2, <2>5, <2>6, <2>7 DEF Counts
  <2> QED
    BY <2>1, <2>5, <2>8 DEF KeyframesCounted
<1>4. CASE StreamEnds
  BY <1>4 DEF KeyframesCounted, Counts, receiverVars, StreamEnds
<1>5. ASSUME NEW m \in Modes, ChangeMode(m) PROVE KeyframesCounted'
  BY <1>5
  DEF KeyframesCounted, Counts, receiverVars, ChangeMode,
      ResetRenderer
<1>6. ASSUME NEW m \in flight, Lose(m) PROVE KeyframesCounted'
  BY <1>6
  DEF KeyframesCounted, Counts, receiverVars, Lose,
      senderVars
<1>7. ASSUME NEW m \in flight, DropStale(m) PROVE KeyframesCounted'
  BY <1>7
  DEF KeyframesCounted, Counts, receiverVars, DropStale,
      senderVars
<1>8. ASSUME NEW m \in flight, Show(m) PROVE KeyframesCounted'
  <2>1. /\ ~(m.seq <= lastSeq) /\ flight' = flight \ {m} /\ lastSeq' = m.seq
        /\ UNCHANGED <<senderVars, seq>> /\ Applied(m)
    BY <1>8, Shown
  <2>2. MessageOK(m)
    BY DEF VideoTypes, FlightOK
  <2>3. PICK c \in [1..seq -> 0..KeyframeEvery - 1] : Counts(c)
    BY DEF KeyframesCounted
  <2>4. ASSUME intact' = 0, streak' > 0 PROVE c[lastSeq'] >= streak'
    <3>1. m.frame.kind # "K"
      BY <2>1, <2>4 DEF Applied, IntactAfter, Decodable
    <3>2. m.frame.kind = "D" /\ streak' = IF m.seq = lastSeq + 1 THEN streak + 1 ELSE 1
      BY <2>1, <2>2, <2>4, <3>1 DEF Applied, MessageOK
    <3>3. m.seq > 1 /\ c[m.seq] = c[m.seq - 1] + 1
      BY <2>3, <3>2 DEF Counts
    <3>4. c[m.seq - 1] \in Nat
      BY <2>3, <3>3
    <3>5. CASE m.seq # lastSeq + 1
      BY <2>1, <3>2, <3>3, <3>4, <3>5
    <3>6. CASE m.seq = lastSeq + 1
      <4>1. intact = 0
        <5>1. SUFFICES ASSUME intact # 0 PROVE FALSE
          OBVIOUS
        <5>2. m.seq = intact + 1
          BY <3>6, <5>1 DEF ViewerExact
        <5>3. Decodable(m.frame)
          BY <3>2, <5>1, <5>2, NextExact
        <5> QED
          BY <2>1, <2>4, <3>2, <5>1, <5>2, <5>3 DEF Applied, IntactAfter
      <4>2. streak > 0 => c[lastSeq] >= streak
        BY <2>3, <4>1 DEF Counts
      <4> QED
        BY <2>1, <3>2, <3>3, <3>4, <3>6, <4>2
    <3> QED
      BY <3>5, <3>6
  <2>5. Counts(c)'
    BY <2>1, <2>3, <2>4 DEF Counts, senderVars
  <2> QED
    BY <2>1, <2>3, <2>5 DEF KeyframesCounted
<1>9. CASE UNCHANGED videoVars
  BY <1>9 DEF KeyframesCounted, Counts, videoVars
<1> QED
  BY <1>1, <1>2, <1>3, <1>4, <1>5, <1>6, <1>7, <1>8, <1>9
  DEF VideoNext, Grids

\* The stabiliser never moves a cell further than the threshold.
LEMMA NoiseStep ==
  ASSUME VideoConstants, VideoTypes, NoiseBounded,
         [VideoNext]_videoVars
  PROVE  NoiseBounded'
<1> USE VideoNumbers
<1>1. ASSUME NEW cells \in Grids, LocalFrame(cells)
      PROVE  NoiseBounded'
  <2>1. Colours \subseteq Int /\ Threshold \in Nat
    BY DEF VideoConstants
  <2>2. \A a, b \in Int :
          /\ Distance(a, a) = 0
          /\ Distance(a, b) <= Threshold => Distance(b, a) <= Threshold
    BY DEF Distance
  <2>3. baseline' = Stabilise(cells) /\ raw' = cells
    BY <1>1 DEF LocalFrame
  <2>4. \A x \in CellIDs : cells[x] \in Int
    BY <2>1 DEF Grids
  <2>5. baseline # NoPicture => \A x \in CellIDs : baseline[x] \in Int
    BY <2>1 DEF Grids, VideoTypes, VideoTypeOK
  <2>6. ASSUME NEW x \in CellIDs
        PROVE  Distance(Stabilise(cells)[x], cells[x]) <= Threshold
    <3>1. CASE baseline = NoPicture
      BY <2>1, <2>2, <2>4, <3>1 DEF Stabilise
    <3>2. CASE baseline # NoPicture /\ Distance(cells[x], baseline[x]) <= Threshold
      BY <2>2, <2>4, <2>5, <3>2 DEF Stabilise
    <3>3. CASE baseline # NoPicture /\ ~(Distance(cells[x], baseline[x]) <= Threshold)
      BY <2>1, <2>2, <2>4, <3>3 DEF Stabilise
    <3> QED
      BY <3>1, <3>2, <3>3
  <2> QED
    BY <2>3, <2>6 DEF NoiseBounded
<1>2. CASE StartCamera
  BY <1>2
  DEF NoiseBounded, receiverVars, StartCamera,
      ResetRenderer
<1>3. CASE StopCamera
  BY <1>3
  DEF NoiseBounded, receiverVars, StopCamera,
      ResetRenderer, Broadcast, OffFrame
<1>4. CASE StreamEnds
  BY <1>4 DEF NoiseBounded, receiverVars, StreamEnds
<1>5. ASSUME NEW m \in Modes, ChangeMode(m) PROVE NoiseBounded'
  BY <1>5
  DEF NoiseBounded, receiverVars, ChangeMode,
      ResetRenderer
<1>6. ASSUME NEW m \in flight, Lose(m) PROVE NoiseBounded'
  BY <1>6
  DEF NoiseBounded, receiverVars, Lose, senderVars
<1>7. ASSUME NEW m \in flight, DropStale(m) PROVE NoiseBounded'
  BY <1>7
  DEF NoiseBounded, receiverVars, DropStale, senderVars
<1>8. ASSUME NEW m \in flight, Show(m) PROVE NoiseBounded'
  BY <1>8, Shown DEF NoiseBounded, senderVars
<1>9. CASE UNCHANGED videoVars
  BY <1>9 DEF NoiseBounded, videoVars
<1> QED
  BY <1>1, <1>2, <1>3, <1>4, <1>5, <1>6, <1>7, <1>8, <1>9
  DEF VideoNext, Grids

----------------------------------------------------------------------------
\* The theorems.

\* The invariant holds at the start.
LEMMA VideoInitInv ==
  ASSUME VideoConstants
  PROVE  VideoInit => VideoInv /\ NoiseBounded
<1> SUFFICES ASSUME VideoInit PROVE VideoInv /\ NoiseBounded
  OBVIOUS
<1>1. VideoTypes
  BY DEF VideoInit, VideoTypes, VideoTypeOK, FlightOK, VideoConstants
<1>2. SenderKnows /\ FramesFit /\ ViewerExact /\ OffShown /\ NoiseBounded
  BY
  DEF VideoInit, SenderKnows, FramesFit, ViewerExact, OffShown,
      NoiseBounded
<1>3. KeyframesCounted
  <2>1. PICK c : c = [i \in 1..0 |-> 0]
    OBVIOUS
  <2>2. c \in [1..seq -> 0..KeyframeEvery - 1]
    BY <2>1 DEF VideoInit
  <2>3. Counts(c)
    BY <2>2 DEF VideoInit, Counts
  <2> QED
    BY <2>2, <2>3 DEF KeyframesCounted
<1> QED
  BY <1>1, <1>2, <1>3 DEF VideoInv

\* Every step keeps it.
LEMMA VideoStep ==
  ASSUME VideoConstants
  PROVE  VideoInv /\ NoiseBounded /\ [VideoNext]_videoVars
         => (VideoInv /\ NoiseBounded)'
  BY VideoTypesStep, ViewerExactStep, SenderKnowsStep, FramesFitStep,
     OffShownStep, CountedStep, NoiseStep
  DEF VideoInv

\* It says what is shown.
LEMMA VideoInvExact ==
  ASSUME VideoConstants
  PROVE  VideoInv => VideoTypeOK /\ TileExact
<1> SUFFICES ASSUME VideoInv PROVE VideoTypeOK /\ TileExact
  OBVIOUS
<1>1. VideoTypes /\ VideoTypeOK
  BY DEF VideoInv, VideoTypes
<1>3. PICK c \in [1..seq -> 0..KeyframeEvery - 1] : Counts(c)
  BY DEF VideoInv, KeyframesCounted
<1>4. streak >= KeyframeEvery => intact # 0
  <2>1. SUFFICES ASSUME streak >= KeyframeEvery, intact = 0 PROVE FALSE
    OBVIOUS
  <2>2. /\ KeyframeEvery \in Nat /\ KeyframeEvery >= 1 /\ streak \in Nat
        /\ lastSeq \in 1..seq
    BY <1>1, <2>1, VideoNumbers
  <2>3. c[lastSeq] >= streak /\ c[lastSeq] \in 0..KeyframeEvery - 1
    BY <1>3, <2>1, <2>2 DEF Counts
  <2> QED
    BY <2>1, <2>2, <2>3
<1> QED
  BY <1>1, <1>4 DEF VideoInv, ViewerExact, OffShown, TileExact

\* Every variable of the video stream keeps its type, for any grid, colours
\* and bounds.
THEOREM VideoTypeCorrect == VideoSpec => []VideoTypeOK
  BY VideoAssumption, VideoInitInv, VideoStep, VideoInvExact, PTL DEF VideoSpec

\* The codec is exact: whatever the channel loses, delays or reorders, and
\* whatever camera and mode do, a viewer who has every frame since a keyframe
\* shows what the sender encoded, gets there within KeyframeEvery frames, and
\* shows no picture of a camera that is off (DeltaEncoder, DeltaDecoder,
\* CompareAndUpdateSeq, handlePeerFrame).
THEOREM CodecExact == VideoSpec => []TileExact
  BY VideoAssumption, VideoInitInv, VideoStep, VideoInvExact, PTL DEF VideoSpec

\* The stabiliser hides noise only: what is sent stays within the threshold of
\* what the camera sees (Stabilise).
THEOREM NoDrift == VideoSpec => []NoiseBounded
  BY VideoAssumption, VideoInitInv, VideoStep, PTL DEF VideoSpec

----------------------------------------------------------------------------
\* The sound of a peer: the inductive invariant.

\* A player exists from the moment its track has one.
NotYetOpen == \A t \in Tracks : at[t] = "none" => shut[t] = "none"

\* What the audio thread has taken from the queue, and the last packet offered
\* to the queue.
Taken(t) == heard[t] \o leftover[t]

Offered(t) ==
  IF at[t] \in {"sending", "dropping", "retrying"} THEN packets[t] - 1 ELSE packets[t]

\* One sample follows another, or a later packet follows a whole one.
InOrder(s) ==
  \A i \in 1..(Len(s) - 1) :
    \/ s[i + 1] = s[i] + 1
    \/ /\ s[i] % PacketSize = 0
       /\ s[i + 1] > s[i] /\ s[i + 1] % PacketSize = 1 % PacketSize

\* The queue q holds the packets up to the last one without a gap, and what
\* was taken before is in order and ends with an earlier packet.
Stream(q, taken, last) ==
  /\ last \in Nat /\ InOrder(taken)
  /\ \A i \in 1..Len(q) : q[i] = last - Len(q) + i
  /\ taken # <<>> => \E k \in Nat : k + Len(q) <= last
                                    /\ taken[Len(taken)] = k * PacketSize

\* An empty queue has been taken to its end; a writer that has made room has it.
UpToDate(t) ==
  /\ queue[t] = <<>> /\ Offered(t) > 0 /\ at[t] \notin {"dropping", "retrying"} =>
       Taken(t) # <<>> /\ Taken(t)[Len(Taken(t))] = Offered(t) * PacketSize
  /\ at[t] = "retrying" => Len(queue[t]) < QueueSize

TrackOK(t) == Stream(queue[t], Taken(t), Offered(t)) /\ UpToDate(t)

Streams == \A t \in Tracks : TrackOK(t)

Owned(t) ==
  \/ player = t /\ ~PeerClosed
  \/ Closes(t)
  \/ at[t] \in {"created", "found", "clearing"}

PlaybackInv ==
  PlaceTypes /\ BufferTypes /\ NotYetOpen /\ OpenPlayersOwned /\ Streams

----------------------------------------------------------------------------
\* Numbers of packets and samples.

\* The samples of a packet end with a multiple of its size.
LEMMA PacketNumbers ==
  ASSUME NEW p \in Nat \ {0}, NEW k \in Nat, NEW n \in Nat, k < n
  PROVE  /\ k * p \in Nat /\ (n - 1) * p \in Nat /\ n * p \in Nat
         /\ (k * p) % p = 0 /\ ((n - 1) * p + 1) % p = 1 % p
         /\ k * p <= (n - 1) * p /\ (n - 1) * p + p = n * p
<1>1. n - 1 \in Nat /\ k <= n - 1
  OBVIOUS
<1> DEFINE j == n - 1
<1>2. k * p \in Nat /\ j * p \in Nat /\ n * p \in Nat
  BY <1>1
<1>3. (k * p) % p = 0
  BY SMTT(30)
<1>4. (j * p + 1) % p = 1 % p
  BY <1>1, SMTT(30)
<1>5. k * p <= j * p
  BY <1>1, SMTT(30)
<1>6. j * p + p = n * p
  BY SMTT(30)
<1> QED
  BY <1>2, <1>3, <1>4, <1>5, <1>6

\* A packet of the stream.
LEMMA SamplesType ==
  ASSUME PlaybackConstants, NEW n \in 1..MaxPackets
  PROVE  /\ Samples(n) \in Seq(AllSamples)
         /\ Len(Samples(n)) = PacketSize
         /\ \A i \in 1..PacketSize : Samples(n)[i] = (n - 1) * PacketSize + i
<1>1. PacketSize \in Nat \ {0} /\ MaxPackets \in Nat
  BY DEF PlaybackConstants
<1>2. /\ (n - 1) * PacketSize \in Nat /\ n * PacketSize \in Nat
      /\ (n - 1) * PacketSize + PacketSize = n * PacketSize
  BY <1>1, PacketNumbers
<1>3. n * PacketSize <= MaxPackets * PacketSize /\ MaxPackets * PacketSize \in Nat
  BY <1>1, SMTT(30)
<1> DEFINE b == (n - 1) * PacketSize
<1> DEFINE top == MaxPackets * PacketSize
<1>4. b \in Nat /\ b + PacketSize <= top /\ top \in Nat
  BY <1>1, <1>2, <1>3
<1> HIDE DEF b, top
<1>5. \A i \in 1..PacketSize : b + i \in 1..top
  BY <1>1, <1>4
<1>6. /\ [i \in 1..PacketSize |-> b + i] \in Seq(1..top)
      /\ Len([i \in 1..PacketSize |-> b + i]) = PacketSize
  BY <1>1, <1>5
<1> QED
  BY <1>6 DEF Samples, AllSamples, b, top

----------------------------------------------------------------------------
\* Sequences.

\* Nothing is queued.
LEMMA EmptyQueue ==
  ASSUME NEW q, q = << >>
  PROVE  Len(q) = 0
<1>1. Len(<< >>) = 0
  OBVIOUS
<1> QED
  BY <1>1

\* The parts of one that is not empty.
LEMMA QueueParts ==
  ASSUME NEW S, NEW q \in Seq(S), q # << >>
  PROVE  /\ Head(q) = q[1] /\ q[1] \in S /\ Tail(q) \in Seq(S)
         /\ Len(q) \in Nat /\ Len(q) >= 1 /\ Len(Tail(q)) = Len(q) - 1
         /\ \A i \in 1..(Len(q) - 1) : Tail(q)[i] = q[i + 1]
  OBVIOUS

\* One more at its end.
LEMMA QueueMore ==
  ASSUME NEW S, NEW q \in Seq(S), NEW x \in S
  PROVE  /\ Append(q, x) \in Seq(S) /\ Append(q, x) # << >>
         /\ Len(q) \in Nat /\ Len(Append(q, x)) = Len(q) + 1
         /\ Append(q, x)[Len(q) + 1] = x
         /\ \A i \in 1..Len(q) : Append(q, x)[i] = q[i]
  OBVIOUS

\* Both keep a queue of packets within its bound.
LEMMA QueueBound ==
  ASSUME PlaybackConstants, NEW q \in Seq(1..MaxPackets),
         Len(q) <= QueueSize
  PROVE  /\ q # << >> => /\ Head(q) \in 1..MaxPackets /\ Tail(q) \in Seq(1..MaxPackets)
                         /\ Len(Tail(q)) < QueueSize
         /\ \A n \in 1..MaxPackets :
              /\ Append(q, n) \in Seq(1..MaxPackets)
              /\ Len(q) < QueueSize => Len(Append(q, n)) <= QueueSize
<1> DEFINE P == 1..MaxPackets
<1>1. q \in Seq(P) /\ Len(q) \in Nat /\ QueueSize \in Nat
  BY DEF PlaybackConstants
<1> HIDE DEF P
<1>2. ASSUME q # << >>
      PROVE  Head(q) \in P /\ Tail(q) \in Seq(P) /\ Len(Tail(q)) = Len(q) - 1
  BY <1>1, <1>2, QueueParts
<1>3. ASSUME NEW n \in P
      PROVE  Append(q, n) \in Seq(P) /\ Len(Append(q, n)) = Len(q) + 1
  BY <1>1, QueueMore
<1> QED
  BY <1>1, <1>2, <1>3 DEF P

\* Two sequences one after the other.
LEMMA Joined ==
  ASSUME NEW S, NEW h \in Seq(S), NEW l \in Seq(S)
  PROVE  /\ h \o l \in Seq(S) /\ Len(h) \in Nat /\ Len(l) \in Nat
         /\ Len(h \o l) = Len(h) + Len(l)
         /\ \A i \in 1..Len(h) : (h \o l)[i] = h[i]
         /\ \A i \in 1..Len(l) : (h \o l)[Len(h) + i] = l[i]
         /\ l = << >> => h \o l = h
<1>1. /\ h \o l \in Seq(S) /\ Len(h) \in Nat /\ Len(l) \in Nat
      /\ Len(h \o l) = Len(h) + Len(l)
      /\ \A i \in 1..Len(h) : (h \o l)[i] = h[i]
      /\ \A i \in 1..Len(l) : (h \o l)[Len(h) + i] = l[i]
  OBVIOUS
<1>2. l = << >> => h \o l = h
  BY ConcatEmptySeq
<1> QED
  BY <1>1, <1>2

\* A sequence cut in two.
LEMMA CutInTwo ==
  ASSUME NEW S, NEW l \in Seq(S), NEW k \in 1..Len(l)
  PROVE  /\ SubSeq(l, 1, k) \in Seq(S) /\ SubSeq(l, k + 1, Len(l)) \in Seq(S)
         /\ Len(SubSeq(l, k + 1, Len(l))) <= Len(l)
         /\ SubSeq(l, 1, k) \o SubSeq(l, k + 1, Len(l)) = l
<1>1. Len(l) \in Nat /\ \A i \in 1..Len(l) : l[i] \in S
  OBVIOUS
<1>2. /\ SubSeq(l, 1, k) \in Seq(S) /\ SubSeq(l, k + 1, Len(l)) \in Seq(S)
      /\ Len(SubSeq(l, k + 1, Len(l))) <= Len(l)
  BY <1>1, SubSeqProperties
<1>3. SubSeq(l, 1, k) \o SubSeq(l, k + 1, Len(l)) = SubSeq(l, 1, Len(l))
  BY <1>1, ConcatAdjacentSubSeq
<1>4. SubSeq(l, 1, Len(l)) = l
  BY SubSeqFull
<1> QED
  BY <1>2, <1>3, <1>4

\* Moving the front part over to another sequence.
LEMMA CutJoined ==
  ASSUME NEW S, NEW h \in Seq(S), NEW l \in Seq(S), NEW k \in 1..Len(l)
  PROVE  (h \o SubSeq(l, 1, k)) \o SubSeq(l, k + 1, Len(l)) = h \o l
<1> DEFINE a == SubSeq(l, 1, k)
<1> DEFINE b == SubSeq(l, k + 1, Len(l))
<1>1. a \in Seq(S) /\ b \in Seq(S) /\ a \o b = l
  BY CutInTwo
<1> HIDE DEF a, b
<1>2. a \in Seq(S) /\ b \in Seq(S)
  BY <1>1
<1>3. (h \o a) \o b = h \o (a \o b)
  BY <1>2
<1> QED
  BY <1>1, <1>3 DEF a, b
----------------------------------------------------------------------------
\* Types and owners.

\* Facts about the constants.
LEMMA PlaybackNumbers ==
  ASSUME PlaybackConstants
  PROVE  /\ QueueSize \in Nat \ {0} /\ PacketSize \in Nat \ {0}
         /\ RequestSize \in Nat \ {0} /\ MaxTracks \in Nat /\ MaxPackets \in Nat
         /\ \A t \in Tracks : t # NoPlayer
  BY DEF PlaybackConstants, Tracks

\* Every step keeps the places.
LEMMA PlaceTypesStep ==
  ASSUME PlaybackConstants, PlaceTypes, [PlaybackNext]_playbackVars
  PROVE  PlaceTypes'
<1> USE PlaybackNumbers
<1>1. ASSUME NEW t \in Tracks, StartClose(t) PROVE PlaceTypes'
  BY <1>1
  DEF PlaceTypes, StartClose, peerVars, trackVars,
      audioVars
<1>2. ASSUME NEW t \in Tracks, Uninit(t) PROVE PlaceTypes'
  BY <1>2
  DEF PlaceTypes, Uninit, peerVars, trackVars,
      audioVars
<1>3. ASSUME NEW t \in Tracks, NewPlayer(t) PROVE PlaceTypes'
  BY <1>3
  DEF PlaceTypes, NewPlayer, Goto, peerVars,
      audioVars
<1>4. ASSUME NEW t \in Tracks, FindPeer(t) PROVE PlaceTypes'
  BY <1>4
  DEF PlaceTypes, FindPeer, Goto, peerVars,
      audioVars
<1>5. ASSUME NEW t \in Tracks, SetPlayer(t) PROVE PlaceTypes'
  BY <1>5 DEF PlaceTypes, SetPlayer, Goto, audioVars
<1>6. ASSUME NEW t \in Tracks, ReplacePlayer(t)
      PROVE  PlaceTypes'
  BY <1>6
  DEF PlaceTypes, ReplacePlayer, Goto, peerVars,
      audioVars
<1>7. ASSUME NEW t \in Tracks, ReadFails(t) PROVE PlaceTypes'
  BY <1>7
  DEF PlaceTypes, ReadFails, Goto, peerVars,
      audioVars
<1>8. ASSUME NEW t \in Tracks, ClearPlayer(t)
      PROVE  PlaceTypes'
  BY <1>8 DEF PlaceTypes, ClearPlayer, Goto, audioVars
<1>9. ASSUME NEW t \in Tracks, TrackDone(t) PROVE PlaceTypes'
  BY <1>9
  DEF PlaceTypes, TrackDone, Goto, peerVars,
      audioVars
<1>10. ASSUME NEW t \in Tracks, ReadPacket(t)
       PROVE  PlaceTypes'
  BY <1>10
  DEF PlaceTypes, ReadPacket, Goto, peerVars,
      audioVars
<1>11. ASSUME NEW t \in Tracks, TrySend(t) PROVE PlaceTypes'
  BY <1>11
  DEF PlaceTypes, TrySend, Goto, PutPacket,
      peerVars, audioVars
<1>12. ASSUME NEW t \in Tracks, DropOldest(t)
       PROVE  PlaceTypes'
  BY <1>12
  DEF PlaceTypes, DropOldest, Goto, peerVars,
      audioVars
<1>13. ASSUME NEW t \in Tracks, Retry(t) PROVE PlaceTypes'
  BY <1>13
  DEF PlaceTypes, Retry, Goto, PutPacket,
      peerVars, audioVars
<1>14. ASSUME NEW t \in Tracks, Request(t) PROVE PlaceTypes'
  BY <1>14 DEF PlaceTypes, Request, peerVars, trackVars
<1>15. ASSUME NEW t \in Tracks, NextFrame(t) PROVE PlaceTypes'
  BY <1>15
  DEF PlaceTypes, NextFrame, peerVars, trackVars
<1>16. ASSUME NEW t \in Tracks, TakeSamples(t)
       PROVE  PlaceTypes'
  BY <1>16
  DEF PlaceTypes, TakeSamples, peerVars, trackVars
<1>17. CASE RemovePeer
  BY <1>17
  DEF PlaceTypes, RemovePeer, trackVars, audioVars
<1>18. CASE ClosePeer
  BY <1>18
  DEF PlaceTypes, ClosePeer, trackVars, audioVars
<1>19. CASE ClosePlayer
  BY <1>19
  DEF PlaceTypes, ClosePlayer, trackVars, audioVars
<1>20. CASE CloseConn
  BY <1>20
  DEF PlaceTypes, CloseConn, trackVars, audioVars
<1>21. CASE UNCHANGED playbackVars
  BY <1>21 DEF PlaceTypes, playbackVars
<1> QED
  BY <1>1, <1>2, <1>3, <1>4, <1>5, <1>6, <1>7, <1>8, <1>9, <1>10, <1>11, <1>12,
     <1>13, <1>14, <1>15, <1>16, <1>17, <1>18, <1>19, <1>20, <1>21
  DEF PlaybackNext, TrackStep, AudioStep, ShutStep,
      CloseStep, PlaybackDone

\* Every step keeps the buffers.
LEMMA BufferTypesStep ==
  ASSUME PlaybackConstants, PlaceTypes, BufferTypes,
         [PlaybackNext]_playbackVars
  PROVE  BufferTypes'
<1> USE PlaybackNumbers
<1>1. ASSUME NEW t \in Tracks, StartClose(t)
      PROVE  BufferTypes'
  BY <1>1
  DEF BufferTypes, StartClose, peerVars, trackVars,
      audioVars
<1>2. ASSUME NEW t \in Tracks, Uninit(t) PROVE BufferTypes'
  BY <1>2
  DEF BufferTypes, Uninit, peerVars, trackVars,
      audioVars
<1>3. ASSUME NEW t \in Tracks, NewPlayer(t) PROVE BufferTypes'
  BY <1>3
  DEF BufferTypes, NewPlayer, Goto, peerVars,
      audioVars
<1>4. ASSUME NEW t \in Tracks, FindPeer(t) PROVE BufferTypes'
  BY <1>4
  DEF BufferTypes, FindPeer, Goto, peerVars,
      audioVars
<1>5. ASSUME NEW t \in Tracks, SetPlayer(t) PROVE BufferTypes'
  BY <1>5 DEF BufferTypes, SetPlayer, Goto, audioVars
<1>6. ASSUME NEW t \in Tracks, ReplacePlayer(t)
      PROVE  BufferTypes'
  BY <1>6
  DEF BufferTypes, ReplacePlayer, Goto, peerVars,
      audioVars
<1>7. ASSUME NEW t \in Tracks, ReadFails(t) PROVE BufferTypes'
  BY <1>7
  DEF BufferTypes, ReadFails, Goto, peerVars,
      audioVars
<1>8. ASSUME NEW t \in Tracks, ClearPlayer(t)
      PROVE  BufferTypes'
  BY <1>8 DEF BufferTypes, ClearPlayer, Goto, audioVars
<1>9. ASSUME NEW t \in Tracks, TrackDone(t) PROVE BufferTypes'
  BY <1>9
  DEF BufferTypes, TrackDone, Goto, peerVars,
      audioVars
<1>10. ASSUME NEW t \in Tracks, ReadPacket(t)
       PROVE  BufferTypes'
  BY <1>10
  DEF BufferTypes, ReadPacket, Goto, peerVars,
      audioVars
<1>11. ASSUME NEW t \in Tracks, TrySend(t) PROVE BufferTypes'
  <2>1. packets[t] \in 1..MaxPackets /\ queue[t] \in Seq(1..MaxPackets)
    BY <1>11 DEF PlaceTypes, BufferTypes, TrySend
  <2>2. /\ Append(queue[t], packets[t]) \in Seq(1..MaxPackets)
        /\ HasRoom(t) => Len(Append(queue[t], packets[t])) <= QueueSize
    BY <2>1, QueueBound DEF BufferTypes, HasRoom
  <2>3. queue' \in [Tracks -> Seq(1..MaxPackets)] /\ UNCHANGED audioVars
    BY <1>11, <2>2 DEF BufferTypes, TrySend, PutPacket
  <2>4. \A u \in Tracks : Len(queue'[u]) <= QueueSize
    BY <1>11, <2>2 DEF BufferTypes, TrySend, PutPacket
  <2> QED
    BY <2>3, <2>4 DEF BufferTypes, audioVars
<1>12. ASSUME NEW t \in Tracks, DropOldest(t)
       PROVE  BufferTypes'
  <2>1. CASE queue[t] = << >>
    BY <1>12, <2>1 DEF BufferTypes, DropOldest, audioVars
  <2>2. CASE queue[t] # << >>
    <3>1. queue[t] \in Seq(1..MaxPackets) /\ Len(queue[t]) <= QueueSize
      BY DEF BufferTypes
    <3>2. Tail(queue[t]) \in Seq(1..MaxPackets) /\ Len(Tail(queue[t])) < QueueSize
      BY <2>2, <3>1, QueueBound
    <3>3. Len(Tail(queue[t])) <= QueueSize
      BY <3>2
    <3> QED
      BY <1>12, <2>2, <3>2, <3>3
      DEF BufferTypes, DropOldest, audioVars
  <2> QED
    BY <2>1, <2>2
<1>13. ASSUME NEW t \in Tracks, Retry(t) PROVE BufferTypes'
  <2>1. packets[t] \in 1..MaxPackets /\ queue[t] \in Seq(1..MaxPackets)
    BY <1>13 DEF PlaceTypes, BufferTypes, Retry
  <2>2. /\ Append(queue[t], packets[t]) \in Seq(1..MaxPackets)
        /\ HasRoom(t) => Len(Append(queue[t], packets[t])) <= QueueSize
    BY <2>1, QueueBound DEF BufferTypes, HasRoom
  <2>3. queue' \in [Tracks -> Seq(1..MaxPackets)] /\ UNCHANGED audioVars
    BY <1>13, <2>2 DEF BufferTypes, Retry, PutPacket
  <2>4. \A u \in Tracks : Len(queue'[u]) <= QueueSize
    BY <1>13, <2>2 DEF BufferTypes, Retry, PutPacket
  <2> QED
    BY <2>3, <2>4 DEF BufferTypes, audioVars
<1>14. ASSUME NEW t \in Tracks, Request(t) PROVE BufferTypes'
  BY <1>14
  DEF BufferTypes, Request, peerVars, trackVars
<1>15. ASSUME NEW t \in Tracks, NextFrame(t)
       PROVE  BufferTypes'
  <2>1. CASE queue[t] = << >>
    <3>1. need' = [need EXCEPT ![t] = 0] /\ UNCHANGED <<queue, leftover, heard>>
      BY <1>15, <2>1 DEF NextFrame
    <3>2. need' \in [Tracks -> 0..RequestSize]
      BY <3>1 DEF BufferTypes
    <3> QED
      BY <3>1, <3>2 DEF BufferTypes
  <2>2. CASE queue[t] # << >>
    <3>1. queue[t] \in Seq(1..MaxPackets) /\ Len(queue[t]) <= QueueSize
      BY DEF BufferTypes
    <3>2. /\ Tail(queue[t]) \in Seq(1..MaxPackets)
          /\ Len(Tail(queue[t])) < QueueSize
          /\ Head(queue[t]) \in 1..MaxPackets
      BY <2>2, <3>1, QueueBound
    <3>3. /\ Samples(Head(queue[t])) \in Seq(AllSamples)
          /\ Len(Samples(Head(queue[t]))) = PacketSize
      BY <3>2, SamplesType
    <3>4. /\ queue' = [queue EXCEPT ![t] = Tail(@)] /\ UNCHANGED <<need, heard>>
          /\ leftover' = [leftover EXCEPT ![t] = Samples(Head(queue[t]))]
      BY <1>15, <2>2 DEF NextFrame
    <3>5. /\ queue' \in [Tracks -> Seq(1..MaxPackets)]
          /\ leftover' \in [Tracks -> Seq(AllSamples)]
      BY <3>2, <3>3, <3>4 DEF BufferTypes
    <3>6. Len(Tail(queue[t])) <= QueueSize
      BY <3>2
    <3>7. \A u \in Tracks : Len(queue'[u]) <= QueueSize /\ Len(leftover'[u]) <= PacketSize
      BY <3>3, <3>4, <3>6 DEF BufferTypes
    <3> QED
      BY <3>4, <3>5, <3>7 DEF BufferTypes
  <2> QED
    BY <2>1, <2>2
<1>16. ASSUME NEW t \in Tracks, TakeSamples(t)
       PROVE  BufferTypes'
  <2> DEFINE S == AllSamples
  <2> DEFINE l == leftover[t]
  <2> DEFINE k == IF need[t] < Len(l) THEN need[t] ELSE Len(l)
  <2>1. /\ need[t] > 0 /\ l # << >> /\ UNCHANGED queue
        /\ heard' = [heard EXCEPT ![t] = @ \o SubSeq(l, 1, k)]
        /\ leftover' = [leftover EXCEPT ![t] = SubSeq(l, k + 1, Len(l))]
        /\ need' = [need EXCEPT ![t] = @ - k]
    BY <1>16 DEF TakeSamples
  <2>2. need[t] \in 0..RequestSize /\ l \in Seq(S) /\ heard[t] \in Seq(S) /\ Len(l) <= PacketSize
    BY DEF BufferTypes
  <2> HIDE DEF l, S
  <2>3. Len(l) \in Nat /\ Len(l) >= 1
    BY <2>1, <2>2, QueueParts
  <2>4. k \in 1..Len(l) /\ need[t] - k \in 0..RequestSize
    BY <2>1, <2>2, <2>3
  <2> HIDE DEF k
  <2>5. /\ SubSeq(l, 1, k) \in Seq(S) /\ SubSeq(l, k + 1, Len(l)) \in Seq(S)
        /\ Len(SubSeq(l, k + 1, Len(l))) <= Len(l)
    BY <2>2, <2>4, CutInTwo
  <2>6. heard[t] \o SubSeq(l, 1, k) \in Seq(S)
    BY <2>2, <2>5, Joined
  <2>7. Len(SubSeq(l, k + 1, Len(l))) <= PacketSize
    <3>1. Len(SubSeq(l, k + 1, Len(l))) \in Nat
      BY <2>5
    <3> QED
      BY <2>2, <2>3, <2>5, <3>1
  <2>8. need' \in [Tracks -> 0..RequestSize]
    BY <2>1, <2>4 DEF BufferTypes
  <2>9. heard' \in [Tracks -> Seq(S)] /\ leftover' \in [Tracks -> Seq(S)]
    BY <2>1, <2>5, <2>6 DEF BufferTypes, S
  <2>10. \A u \in Tracks : Len(leftover'[u]) <= PacketSize
    BY <2>1, <2>7 DEF BufferTypes
  <2> QED
    BY <2>1, <2>8, <2>9, <2>10 DEF BufferTypes, S
<1>17. CASE RemovePeer
  BY <1>17
  DEF BufferTypes, RemovePeer, trackVars, audioVars
<1>18. CASE ClosePeer
  BY <1>18
  DEF BufferTypes, ClosePeer, trackVars, audioVars
<1>19. CASE ClosePlayer
  BY <1>19
  DEF BufferTypes, ClosePlayer, trackVars, audioVars
<1>20. CASE CloseConn
  BY <1>20
  DEF BufferTypes, CloseConn, trackVars, audioVars
<1>21. CASE UNCHANGED playbackVars
  BY <1>21 DEF BufferTypes, playbackVars
<1> QED
  BY <1>1, <1>2, <1>3, <1>4, <1>5, <1>6, <1>7, <1>8, <1>9, <1>10, <1>11, <1>12,
     <1>13, <1>14, <1>15, <1>16, <1>17, <1>18, <1>19, <1>20, <1>21
  DEF PlaybackNext, TrackStep, AudioStep, ShutStep,
      CloseStep, PlaybackDone

\* A track without a callback has no player.
LEMMA NotYetOpenStep ==
  ASSUME PlaceTypes, NotYetOpen, [PlaybackNext]_playbackVars
  PROVE  NotYetOpen'
<1>1. ASSUME NEW t \in Tracks, StartClose(t) PROVE NotYetOpen'
  BY <1>1
  DEF PlaceTypes, NotYetOpen, StartClose, peerVars,
      trackVars, audioVars
<1>2. ASSUME NEW t \in Tracks, Uninit(t) PROVE NotYetOpen'
  BY <1>2
  DEF PlaceTypes, NotYetOpen, Uninit, peerVars,
      trackVars, audioVars
<1>3. ASSUME NEW t \in Tracks, NewPlayer(t) PROVE NotYetOpen'
  BY <1>3
  DEF PlaceTypes, NotYetOpen, NewPlayer, Goto,
      peerVars, audioVars
<1>4. ASSUME NEW t \in Tracks, FindPeer(t) PROVE NotYetOpen'
  BY <1>4
  DEF PlaceTypes, NotYetOpen, FindPeer, Goto, peerVars,
      audioVars
<1>5. ASSUME NEW t \in Tracks, SetPlayer(t) PROVE NotYetOpen'
  BY <1>5
  DEF PlaceTypes, NotYetOpen, SetPlayer, Goto,
      audioVars
<1>6. ASSUME NEW t \in Tracks, ReplacePlayer(t) PROVE NotYetOpen'
  BY <1>6
  DEF PlaceTypes, NotYetOpen, ReplacePlayer, Goto,
      peerVars, audioVars
<1>7. ASSUME NEW t \in Tracks, ReadFails(t) PROVE NotYetOpen'
  BY <1>7
  DEF PlaceTypes, NotYetOpen, ReadFails, Goto,
      peerVars, audioVars
<1>8. ASSUME NEW t \in Tracks, ClearPlayer(t) PROVE NotYetOpen'
  BY <1>8
  DEF PlaceTypes, NotYetOpen, ClearPlayer, Goto,
      audioVars
<1>9. ASSUME NEW t \in Tracks, TrackDone(t) PROVE NotYetOpen'
  BY <1>9
  DEF PlaceTypes, NotYetOpen, TrackDone, Goto,
      peerVars, audioVars
<1>10. ASSUME NEW t \in Tracks, ReadPacket(t) PROVE NotYetOpen'
  BY <1>10
  DEF PlaceTypes, NotYetOpen, ReadPacket, Goto,
      peerVars, audioVars
<1>11. ASSUME NEW t \in Tracks, TrySend(t) PROVE NotYetOpen'
  BY <1>11
  DEF PlaceTypes, NotYetOpen, TrySend, Goto, PutPacket,
      peerVars, audioVars
<1>12. ASSUME NEW t \in Tracks, DropOldest(t) PROVE NotYetOpen'
  BY <1>12
  DEF PlaceTypes, NotYetOpen, DropOldest, Goto,
      peerVars, audioVars
<1>13. ASSUME NEW t \in Tracks, Retry(t) PROVE NotYetOpen'
  BY <1>13
  DEF PlaceTypes, NotYetOpen, Retry, Goto, PutPacket,
      peerVars, audioVars
<1>14. ASSUME NEW t \in Tracks, Request(t) PROVE NotYetOpen'
  BY <1>14
  DEF PlaceTypes, NotYetOpen, Request, peerVars,
      trackVars
<1>15. ASSUME NEW t \in Tracks, NextFrame(t) PROVE NotYetOpen'
  BY <1>15
  DEF PlaceTypes, NotYetOpen, NextFrame, peerVars,
      trackVars
<1>16. ASSUME NEW t \in Tracks, TakeSamples(t) PROVE NotYetOpen'
  BY <1>16
  DEF PlaceTypes, NotYetOpen, TakeSamples, peerVars,
      trackVars
<1>17. CASE RemovePeer
  BY <1>17
  DEF PlaceTypes, NotYetOpen, RemovePeer, trackVars,
      audioVars
<1>18. CASE ClosePeer
  BY <1>18
  DEF PlaceTypes, NotYetOpen, ClosePeer, trackVars,
      audioVars
<1>19. CASE ClosePlayer
  BY <1>19
  DEF PlaceTypes, NotYetOpen, ClosePlayer, trackVars,
      audioVars
<1>20. CASE CloseConn
  BY <1>20
  DEF PlaceTypes, NotYetOpen, CloseConn, trackVars,
      audioVars
<1>21. CASE UNCHANGED playbackVars
  BY <1>21 DEF PlaceTypes, NotYetOpen, playbackVars
<1> QED
  BY <1>1, <1>2, <1>3, <1>4, <1>5, <1>6, <1>7, <1>8, <1>9, <1>10, <1>11, <1>12,
     <1>13, <1>14, <1>15, <1>16, <1>17, <1>18, <1>19, <1>20, <1>21
  DEF PlaybackNext, TrackStep, AudioStep, ShutStep,
      CloseStep, PlaybackDone

\* Whoever gives up an open player hands it to someone who closes it.
LEMMA OwnedStep ==
  ASSUME PlaybackConstants, PlaceTypes, NotYetOpen,
         OpenPlayersOwned, [PlaybackNext]_playbackVars
  PROVE  OpenPlayersOwned'
<1> USE PlaybackNumbers
<1>1. ASSUME NEW t \in Tracks, StartClose(t)
      PROVE  OpenPlayersOwned'
  <2> SUFFICES ASSUME NEW u \in Tracks, shut'[u] = "open" PROVE Owned(u)'
    BY DEF OpenPlayersOwned, Owned
  <2> QED
    BY <1>1
    DEF PlaceTypes, NotYetOpen, OpenPlayersOwned, Owned,
        Closes, PeerClosed, StartClose, peerVars,
        trackVars, audioVars
<1>2. ASSUME NEW t \in Tracks, Uninit(t)
      PROVE  OpenPlayersOwned'
  <2> SUFFICES ASSUME NEW u \in Tracks, shut'[u] = "open" PROVE Owned(u)'
    BY DEF OpenPlayersOwned, Owned
  <2> QED
    BY <1>2
    DEF PlaceTypes, NotYetOpen, OpenPlayersOwned, Owned,
        Closes, PeerClosed, Uninit, peerVars,
        trackVars, audioVars
<1>3. ASSUME NEW t \in Tracks, NewPlayer(t)
      PROVE  OpenPlayersOwned'
  <2> SUFFICES ASSUME NEW u \in Tracks, shut'[u] = "open" PROVE Owned(u)'
    BY DEF OpenPlayersOwned, Owned
  <2> QED
    BY <1>3
    DEF PlaceTypes, NotYetOpen, OpenPlayersOwned, Owned,
        Closes, PeerClosed, NewPlayer, Goto,
        peerVars, audioVars
<1>4. ASSUME NEW t \in Tracks, FindPeer(t)
      PROVE  OpenPlayersOwned'
  <2> SUFFICES ASSUME NEW u \in Tracks, shut'[u] = "open" PROVE Owned(u)'
    BY DEF OpenPlayersOwned, Owned
  <2> QED
    BY <1>4
    DEF PlaceTypes, NotYetOpen, OpenPlayersOwned, Owned,
        Closes, PeerClosed, FindPeer, Goto,
        peerVars, audioVars
<1>5. ASSUME NEW t \in Tracks, SetPlayer(t)
      PROVE  OpenPlayersOwned'
  <2> SUFFICES ASSUME NEW u \in Tracks, shut'[u] = "open" PROVE Owned(u)'
    BY DEF OpenPlayersOwned, Owned
  <2> QED
    BY <1>5
    DEF PlaceTypes, NotYetOpen, OpenPlayersOwned, Owned,
        Closes, PeerClosed, SetPlayer, Goto,
        audioVars
<1>6. ASSUME NEW t \in Tracks, ReplacePlayer(t)
      PROVE  OpenPlayersOwned'
  <2> SUFFICES ASSUME NEW u \in Tracks, shut'[u] = "open" PROVE Owned(u)'
    BY DEF OpenPlayersOwned, Owned
  <2> QED
    BY <1>6
    DEF PlaceTypes, NotYetOpen, OpenPlayersOwned, Owned,
        Closes, PeerClosed, ReplacePlayer, Goto,
        peerVars, audioVars
<1>7. ASSUME NEW t \in Tracks, ReadFails(t)
      PROVE  OpenPlayersOwned'
  <2> SUFFICES ASSUME NEW u \in Tracks, shut'[u] = "open" PROVE Owned(u)'
    BY DEF OpenPlayersOwned, Owned
  <2> QED
    BY <1>7
    DEF PlaceTypes, NotYetOpen, OpenPlayersOwned, Owned,
        Closes, PeerClosed, ReadFails, Goto,
        peerVars, audioVars
<1>8. ASSUME NEW t \in Tracks, ClearPlayer(t)
      PROVE  OpenPlayersOwned'
  <2> SUFFICES ASSUME NEW u \in Tracks, shut'[u] = "open" PROVE Owned(u)'
    BY DEF OpenPlayersOwned, Owned
  <2> QED
    BY <1>8
    DEF PlaceTypes, NotYetOpen, OpenPlayersOwned, Owned,
        Closes, PeerClosed, ClearPlayer, Goto,
        audioVars
<1>9. ASSUME NEW t \in Tracks, TrackDone(t)
      PROVE  OpenPlayersOwned'
  <2> SUFFICES ASSUME NEW u \in Tracks, shut'[u] = "open" PROVE Owned(u)'
    BY DEF OpenPlayersOwned, Owned
  <2> QED
    BY <1>9
    DEF PlaceTypes, NotYetOpen, OpenPlayersOwned, Owned,
        Closes, PeerClosed, TrackDone, Goto,
        peerVars, audioVars
<1>10. ASSUME NEW t \in Tracks, ReadPacket(t)
       PROVE  OpenPlayersOwned'
  <2> SUFFICES ASSUME NEW u \in Tracks, shut'[u] = "open" PROVE Owned(u)'
    BY DEF OpenPlayersOwned, Owned
  <2> QED
    BY <1>10
    DEF PlaceTypes, NotYetOpen, OpenPlayersOwned, Owned,
        Closes, PeerClosed, ReadPacket, Goto,
        peerVars, audioVars
<1>11. ASSUME NEW t \in Tracks, TrySend(t)
       PROVE  OpenPlayersOwned'
  <2> SUFFICES ASSUME NEW u \in Tracks, shut'[u] = "open" PROVE Owned(u)'
    BY DEF OpenPlayersOwned, Owned
  <2> QED
    BY <1>11
    DEF PlaceTypes, NotYetOpen, OpenPlayersOwned, Owned,
        Closes, PeerClosed, TrySend, Goto,
        peerVars, audioVars
<1>12. ASSUME NEW t \in Tracks, DropOldest(t)
       PROVE  OpenPlayersOwned'
  <2> SUFFICES ASSUME NEW u \in Tracks, shut'[u] = "open" PROVE Owned(u)'
    BY DEF OpenPlayersOwned, Owned
  <2> QED
    BY <1>12
    DEF PlaceTypes, NotYetOpen, OpenPlayersOwned, Owned,
        Closes, PeerClosed, DropOldest, Goto,
        peerVars, audioVars
<1>13. ASSUME NEW t \in Tracks, Retry(t)
       PROVE  OpenPlayersOwned'
  <2> SUFFICES ASSUME NEW u \in Tracks, shut'[u] = "open" PROVE Owned(u)'
    BY DEF OpenPlayersOwned, Owned
  <2> QED
    BY <1>13
    DEF PlaceTypes, NotYetOpen, OpenPlayersOwned, Owned,
        Closes, PeerClosed, Retry, Goto,
        peerVars, audioVars
<1>14. ASSUME NEW t \in Tracks, Request(t)
       PROVE  OpenPlayersOwned'
  <2> SUFFICES ASSUME NEW u \in Tracks, shut'[u] = "open" PROVE Owned(u)'
    BY DEF OpenPlayersOwned, Owned
  <2> QED
    BY <1>14
    DEF PlaceTypes, NotYetOpen, OpenPlayersOwned, Owned,
        Closes, PeerClosed, Request, peerVars,
        trackVars
<1>15. ASSUME NEW t \in Tracks, NextFrame(t)
       PROVE  OpenPlayersOwned'
  <2> SUFFICES ASSUME NEW u \in Tracks, shut'[u] = "open" PROVE Owned(u)'
    BY DEF OpenPlayersOwned, Owned
  <2> QED
    BY <1>15
    DEF PlaceTypes, NotYetOpen, OpenPlayersOwned, Owned,
        Closes, PeerClosed, NextFrame, peerVars,
        trackVars
<1>16. ASSUME NEW t \in Tracks, TakeSamples(t)
       PROVE  OpenPlayersOwned'
  <2> SUFFICES ASSUME NEW u \in Tracks, shut'[u] = "open" PROVE Owned(u)'
    BY DEF OpenPlayersOwned, Owned
  <2> QED
    BY <1>16
    DEF PlaceTypes, NotYetOpen, OpenPlayersOwned, Owned,
        Closes, PeerClosed, TakeSamples, peerVars,
        trackVars
<1>17. CASE RemovePeer
  BY <1>17
  DEF PlaceTypes, NotYetOpen, OpenPlayersOwned, Closes,
      PeerClosed, RemovePeer, trackVars, audioVars
<1>18. CASE ClosePeer
  BY <1>18
  DEF PlaceTypes, NotYetOpen, OpenPlayersOwned, Closes,
      PeerClosed, ClosePeer, trackVars, audioVars
<1>19. CASE ClosePlayer
  BY <1>19
  DEF PlaceTypes, NotYetOpen, OpenPlayersOwned, Closes,
      PeerClosed, ClosePlayer, trackVars, audioVars
<1>20. CASE CloseConn
  BY <1>20
  DEF PlaceTypes, NotYetOpen, OpenPlayersOwned, Closes,
      PeerClosed, CloseConn, trackVars, audioVars
<1>21. CASE UNCHANGED playbackVars
  BY <1>21
  DEF PlaceTypes, NotYetOpen, OpenPlayersOwned, Closes,
      PeerClosed, playbackVars
<1> QED
  BY <1>1, <1>2, <1>3, <1>4, <1>5, <1>6, <1>7, <1>8, <1>9, <1>10, <1>11, <1>12,
     <1>13, <1>14, <1>15, <1>16, <1>17, <1>18, <1>19, <1>20, <1>21
  DEF PlaybackNext, TrackStep, AudioStep, ShutStep,
      CloseStep, PlaybackDone

----------------------------------------------------------------------------
\* The stream of a track.

\* A packet is queued.
LEMMA StreamPut ==
  ASSUME NEW q \in Seq(1..MaxPackets), NEW taken,
         NEW n \in 1..MaxPackets, Stream(q, taken, n - 1)
  PROVE  Stream(Append(q, n), taken, n)
<1> DEFINE P == 1..MaxPackets
<1>1. n \in Nat /\ q \in Seq(P) /\ n \in P
  OBVIOUS
<1> HIDE DEF P
<1>2. /\ Len(q) \in Nat /\ Len(Append(q, n)) = Len(q) + 1
      /\ Append(q, n)[Len(q) + 1] = n /\ \A i \in 1..Len(q) : Append(q, n)[i] = q[i]
  BY <1>1, QueueMore
<1>3. \A i \in 1..Len(q) : q[i] = (n - 1) - Len(q) + i
  BY DEF Stream
<1>4. \A i \in 1..Len(Append(q, n)) : Append(q, n)[i] = n - Len(Append(q, n)) + i
  BY <1>1, <1>2, <1>3
<1>5. ASSUME NEW k \in Nat, k + Len(q) <= n - 1 PROVE k + Len(Append(q, n)) <= n
  BY <1>1, <1>2, <1>5
<1> QED
  BY <1>1, <1>4, <1>5 DEF Stream

\* The oldest packet is dropped.
LEMMA StreamDrop ==
  ASSUME NEW q \in Seq(1..MaxPackets), NEW taken, NEW last, q # << >>,
         Stream(q, taken, last)
  PROVE  Stream(Tail(q), taken, last)
<1> DEFINE P == 1..MaxPackets
<1>1. q \in Seq(P) /\ last \in Nat
  BY DEF Stream
<1> HIDE DEF P
<1>2. /\ Len(q) \in Nat /\ Len(q) >= 1 /\ Len(Tail(q)) = Len(q) - 1
      /\ \A i \in 1..(Len(q) - 1) : Tail(q)[i] = q[i + 1]
  BY <1>1, QueueParts
<1>3. \A i \in 1..Len(q) : q[i] = last - Len(q) + i
  BY DEF Stream
<1>4. \A i \in 1..Len(Tail(q)) : Tail(q)[i] = last - Len(Tail(q)) + i
  BY <1>1, <1>2, <1>3
<1>5. ASSUME NEW k \in Nat, k + Len(q) <= last PROVE k + Len(Tail(q)) <= last
  BY <1>1, <1>2, <1>5
<1> QED
  BY <1>1, <1>4, <1>5 DEF Stream

\* The audio thread takes the oldest packet after a whole one.
LEMMA StreamTake ==
  ASSUME PlaybackConstants, NEW q \in Seq(1..MaxPackets), NEW last,
         q # << >>,
         NEW h \in Seq(AllSamples), Stream(q, h, last)
  PROVE  LET taken == h \o Samples(Head(q))
         IN  /\ Stream(Tail(q), taken, last)
             /\ taken # << >> /\ taken[Len(taken)] = Head(q) * PacketSize
             /\ Tail(q) = << >> => Head(q) = last
<1> DEFINE r == Tail(q)
<1> DEFINE n == Head(q)
<1> DEFINE s == Samples(n)
<1> DEFINE p == PacketSize
<1> DEFINE b == (n - 1) * p
<1> DEFINE taken == h \o s
<1> DEFINE S == AllSamples
<1>1. /\ n = q[1] /\ n \in 1..MaxPackets /\ r \in Seq(1..MaxPackets)
      /\ Len(q) \in Nat /\ Len(q) >= 1 /\ Len(r) = Len(q) - 1
  <2> DEFINE P == 1..MaxPackets
  <2>1. q \in Seq(P)
    OBVIOUS
  <2> HIDE DEF P
  <2>2. /\ n = q[1] /\ n \in P /\ r \in Seq(P)
        /\ Len(q) \in Nat /\ Len(q) >= 1 /\ Len(r) = Len(q) - 1
    BY <2>1, QueueParts
  <2> QED
    BY <2>2 DEF P
<1>2. last \in Nat /\ q[1] = last - Len(q) + 1 /\ InOrder(h)
  BY <1>1 DEF Stream
<1>3. n = last - Len(q) + 1 /\ n \in Nat /\ n >= 1
  BY <1>1, <1>2
<1>4. p \in Nat \ {0}
  BY PlaybackNumbers
<1>5. s \in Seq(S) /\ Len(s) = p /\ \A i \in 1..p : s[i] = b + i
  BY <1>1, SamplesType
<1>6. \A i \in 1..Len(r) : r[i] = last - Len(r) + i
  BY StreamDrop DEF Stream
<1> HIDE DEF s, p, S, n, r
<1>7. /\ b \in Nat /\ b + p = n * p /\ (b + 1) % p = 1 % p
  <2>1. 0 \in Nat /\ 0 < n
    BY <1>3
  <2> QED
    BY <1>3, <1>4, <2>1, PacketNumbers
<1> HIDE DEF b
<1>8. /\ h \in Seq(S) /\ Len(h) \in Nat /\ Len(taken) = Len(h) + p
      /\ \A i \in 1..Len(h) : taken[i] = h[i]
      /\ \A i \in 1..p : taken[Len(h) + i] = b + i
      /\ taken \in Seq(S)
  <2>1. h \in Seq(S)
    BY DEF S
  <2>2. /\ taken \in Seq(S) /\ Len(h) \in Nat /\ Len(taken) = Len(h) + Len(s)
        /\ \A i \in 1..Len(h) : taken[i] = h[i]
        /\ \A i \in 1..Len(s) : taken[Len(h) + i] = s[i]
    <3>1. s \in Seq(S)
      BY <1>5
    <3> QED
      BY <2>1, <3>1, Joined
  <2> QED
    BY <2>1, <2>2, <1>5
<1> HIDE DEF taken
<1>9. taken # << >>
  BY <1>4, <1>8, EmptySeq
<1>10. taken[Len(taken)] = n * p
  BY <1>4, <1>7, <1>8
<1>11. ASSUME Len(h) > 0
       PROVE  h[Len(h)] % p = 0 /\ h[Len(h)] \in Nat /\ h[Len(h)] < b + 1
  <2>1. PICK k \in Nat : k + Len(q) <= last /\ h[Len(h)] = k * p
    BY <1>8, <1>11 DEF Stream, p
  <2>2. k < n
    BY <1>1, <1>2, <1>3, <2>1
  <2>3. k * p \in Nat /\ (k * p) % p = 0 /\ k * p <= b
    BY <1>3, <1>4, <2>2, PacketNumbers DEF b
  <2> QED
    BY <1>7, <2>1, <2>3
<1>12. ASSUME NEW i \in 1..(Len(taken) - 1)
       PROVE  \/ taken[i + 1] = taken[i] + 1
              \/ /\ taken[i] % p = 0
                 /\ taken[i + 1] > taken[i] /\ taken[i + 1] % p = 1 % p
  <2>1. CASE i < Len(h)
    <3>1. taken[i] = h[i] /\ taken[i + 1] = h[i + 1] /\ i \in 1..(Len(h) - 1)
      BY <1>4, <1>8, <2>1
    <3> QED
      BY <1>2, <3>1 DEF InOrder, p
  <2>2. CASE i = Len(h)
    <3>1. taken[i] = h[Len(h)] /\ taken[i + 1] = b + 1
      BY <1>4, <1>8, <2>2
    <3>2. taken[i + 1] > taken[i]
      BY <1>7, <1>11, <2>2, <3>1
    <3> QED
      BY <1>7, <1>11, <2>2, <3>1, <3>2
  <2>3. CASE i > Len(h)
    <3>1. i - Len(h) \in 1..p /\ i - Len(h) + 1 \in 1..p
      BY <1>4, <1>8, <2>3
    <3>2. taken[Len(h) + (i - Len(h))] = b + (i - Len(h))
      BY <1>8, <3>1
    <3>3. taken[Len(h) + (i - Len(h) + 1)] = b + (i - Len(h) + 1)
      BY <1>8, <3>1
    <3>4. Len(h) + (i - Len(h)) = i /\ Len(h) + (i - Len(h) + 1) = i + 1
      BY <1>8
    <3> QED
      BY <1>7, <1>8, <3>2, <3>3, <3>4
  <2> QED
    BY <1>8, <2>1, <2>2, <2>3
<1>13. InOrder(taken)
  BY <1>12 DEF InOrder, p
<1>14. n + Len(r) <= last
  BY <1>1, <1>2, <1>3
<1>15. Stream(r, taken, last)
  BY <1>2, <1>3, <1>10, <1>13, <1>6, <1>14 DEF Stream, p
<1>16. r = << >> => n = last
  <2>1. SUFFICES ASSUME r = << >> PROVE n = last
    OBVIOUS
  <2>2. Len(r) = 0
    BY <2>1, EmptyQueue
  <2>3. Len(q) \in Nat /\ Len(r) = Len(q) - 1
    BY <1>1
  <2>4. n = last - Len(q) + 1 /\ last \in Nat /\ n \in Nat
    BY <1>2, <1>3
  <2> DEFINE k == Len(q)
  <2> DEFINE m == Len(r)
  <2>5. m = 0 /\ k \in Nat /\ m = k - 1 /\ n = last - k + 1
    BY <2>2, <2>3, <2>4
  <2> HIDE DEF k, m
  <2> QED
    BY <2>4, <2>5
<1> QED
  BY <1>9, <1>10, <1>15, <1>16 DEF taken, n, p, s, r

\* A track whose queue, stream and place in it stay the same.
LEMMA TrackStill ==
  ASSUME NEW u \in Tracks, TrackOK(u), queue'[u] = queue[u],
         Taken(u)' = Taken(u), Offered(u)' = Offered(u),
         at'[u] = at[u] \/ (at[u] \notin {"dropping", "retrying"}
                            /\ at'[u] \notin {"dropping", "retrying"})
  PROVE  TrackOK(u)'
<1>1. Stream(queue[u], Taken(u), Offered(u))'
  BY DEF TrackOK, Stream
<1>2. UpToDate(u)'
  BY DEF TrackOK, UpToDate
<1> QED
  BY <1>1, <1>2 DEF TrackOK

\* A step that leaves the packets alone.
LEMMA StreamsStill ==
  ASSUME Streams, UNCHANGED <<queue, heard, leftover, packets>>,
         \A u \in Tracks :
           \/ at'[u] = at[u]
           \/ /\ at[u] \notin {"sending", "dropping", "retrying"}
              /\ at'[u] \notin {"sending", "dropping", "retrying"}
  PROVE  Streams'
<1> SUFFICES ASSUME NEW u \in Tracks PROVE TrackOK(u)'
  BY DEF Streams
<1>1. Taken(u)' = Taken(u)
  BY DEF Taken
<1>2. Offered(u)' = Offered(u)
  BY DEF Offered
<1>3. TrackOK(u)
  BY DEF Streams
<1> QED
  BY <1>1, <1>2, <1>3, TrackStill

\* The other tracks are not concerned.
LEMMA OthersStill ==
  ASSUME Streams, NEW t \in Tracks, TrackOK(t)',
         \A u \in Tracks \ {t} :
           /\ queue'[u] = queue[u] /\ heard'[u] = heard[u] /\ leftover'[u] = leftover[u]
           /\ packets'[u] = packets[u] /\ at'[u] = at[u]
  PROVE  Streams'
<1> SUFFICES ASSUME NEW u \in Tracks \ {t} PROVE TrackOK(u)'
  BY DEF Streams
<1>1. Taken(u)' = Taken(u)
  BY DEF Taken
<1>2. Offered(u)' = Offered(u)
  BY DEF Offered
<1>3. TrackOK(u)
  BY DEF Streams
<1> QED
  BY <1>1, <1>2, <1>3, TrackStill

\* Every step keeps the streams.
LEMMA StreamsStep ==
  ASSUME PlaybackConstants, PlaceTypes, BufferTypes, Streams,
         [PlaybackNext]_playbackVars
  PROVE  Streams'
<1> USE PlaybackNumbers
<1>1. ASSUME NEW t \in Tracks, StartClose(t) PROVE Streams'
  BY <1>1, StreamsStill
  DEF PlaceTypes, StartClose, trackVars, audioVars
<1>2. ASSUME NEW t \in Tracks, Uninit(t) PROVE Streams'
  BY <1>2, StreamsStill
  DEF PlaceTypes, Uninit, trackVars, audioVars
<1>3. ASSUME NEW t \in Tracks, NewPlayer(t) PROVE Streams'
  BY <1>3, StreamsStill
  DEF PlaceTypes, NewPlayer, Goto, audioVars
<1>4. ASSUME NEW t \in Tracks, FindPeer(t) PROVE Streams'
  BY <1>4, StreamsStill
  DEF PlaceTypes, FindPeer, Goto, audioVars
<1>5. ASSUME NEW t \in Tracks, SetPlayer(t) PROVE Streams'
  BY <1>5, StreamsStill
  DEF PlaceTypes, SetPlayer, Goto, audioVars
<1>6. ASSUME NEW t \in Tracks, ReplacePlayer(t) PROVE Streams'
  BY <1>6, StreamsStill
  DEF PlaceTypes, ReplacePlayer, Goto, audioVars
<1>7. ASSUME NEW t \in Tracks, ReadFails(t) PROVE Streams'
  BY <1>7, StreamsStill
  DEF PlaceTypes, ReadFails, Goto, audioVars
<1>8. ASSUME NEW t \in Tracks, ClearPlayer(t) PROVE Streams'
  BY <1>8, StreamsStill
  DEF PlaceTypes, ClearPlayer, Goto, audioVars
<1>9. ASSUME NEW t \in Tracks, TrackDone(t) PROVE Streams'
  BY <1>9, StreamsStill
  DEF PlaceTypes, TrackDone, Goto, audioVars
<1>10. ASSUME NEW t \in Tracks, ReadPacket(t) PROVE Streams'
  <2>1. \A u \in Tracks \ {t} :
          /\ queue'[u] = queue[u] /\ heard'[u] = heard[u] /\ leftover'[u] = leftover[u]
          /\ packets'[u] = packets[u] /\ at'[u] = at[u]
    BY <1>10
    DEF PlaceTypes, BufferTypes, ReadPacket, Goto,
        audioVars
  <2>2. TrackOK(t)
    BY DEF Streams
  <2>3. /\ at[t] = "reading" /\ at'[t] = "sending"
        /\ packets'[t] = packets[t] + 1
        /\ packets[t] \in Nat /\ UNCHANGED <<queue, heard, leftover>>
    BY <1>10
    DEF PlaceTypes, ReadPacket, Goto, audioVars
  <2>4. Offered(t)' = Offered(t) /\ Taken(t)' = Taken(t)
    BY <2>3 DEF Offered, Taken
  <2>5. TrackOK(t)'
    BY <2>2, <2>3, <2>4, TrackStill
  <2> QED
    BY <2>1, <2>5, OthersStill
<1>11. ASSUME NEW t \in Tracks, TrySend(t) PROVE Streams'
  <2>1. \A u \in Tracks \ {t} :
          /\ queue'[u] = queue[u] /\ heard'[u] = heard[u] /\ leftover'[u] = leftover[u]
          /\ packets'[u] = packets[u] /\ at'[u] = at[u]
    BY <1>11
    DEF PlaceTypes, BufferTypes, TrySend, Goto,
        PutPacket, audioVars
  <2>2. TrackOK(t)
    BY DEF Streams
  <2>3. packets[t] \in 1..MaxPackets /\ queue[t] \in Seq(1..MaxPackets)
    BY <1>11 DEF PlaceTypes, BufferTypes, TrySend
  <2>4. CASE HasRoom(t)
    <3>1. /\ queue'[t] = Append(queue[t], packets[t]) /\ at'[t] = "reading"
          /\ UNCHANGED <<heard, leftover, packets>>
      BY <1>11, <2>4
      DEF PlaceTypes, BufferTypes, TrySend, Goto,
          PutPacket, audioVars
    <3>2. Offered(t) = packets[t] - 1 /\ Offered(t)' = packets[t] /\ Taken(t)' = Taken(t)
      BY <1>11, <3>1 DEF Offered, Taken, TrySend
    <3>3. Stream(queue[t], Taken(t), packets[t] - 1)
      BY <2>2, <3>2 DEF TrackOK
    <3>4. Stream(Append(queue[t], packets[t]), Taken(t), packets[t])
      BY <2>3, <3>3, StreamPut
    <3>5. Stream(queue[t], Taken(t), Offered(t))'
      BY <3>1, <3>2, <3>4 DEF Stream
    <3>6. queue'[t] # << >>
      BY <2>3, <3>1, QueueMore
    <3>7. UpToDate(t)'
      BY <3>1, <3>6 DEF UpToDate
    <3>8. TrackOK(t)'
      BY <3>5, <3>7 DEF TrackOK
    <3> QED
      BY <2>1, <3>8, OthersStill
  <2>5. CASE ~HasRoom(t)
    <3>1. /\ UNCHANGED <<queue, heard, leftover, packets>>
          /\ at[t] = "sending" /\ at'[t] = "dropping"
      BY <1>11, <2>5
      DEF PlaceTypes, TrySend, Goto, audioVars
    <3>2. Offered(t)' = Offered(t) /\ Taken(t)' = Taken(t)
      BY <3>1 DEF Offered, Taken
    <3>3. Stream(queue[t], Taken(t), Offered(t))'
      BY <2>2, <3>1, <3>2 DEF TrackOK, Stream
    <3>4. UpToDate(t)'
      BY <3>1 DEF UpToDate
    <3>5. TrackOK(t)'
      BY <3>3, <3>4 DEF TrackOK
    <3> QED
      BY <2>1, <3>5, OthersStill
  <2> QED
    BY <2>4, <2>5
<1>12. ASSUME NEW t \in Tracks, DropOldest(t) PROVE Streams'
  <2>1. \A u \in Tracks \ {t} :
          /\ queue'[u] = queue[u] /\ heard'[u] = heard[u] /\ leftover'[u] = leftover[u]
          /\ packets'[u] = packets[u] /\ at'[u] = at[u]
    BY <1>12
    DEF PlaceTypes, BufferTypes, DropOldest, Goto,
        audioVars
  <2>2. TrackOK(t)
    BY DEF Streams
  <2>3. /\ at[t] = "dropping" /\ at'[t] = "retrying"
        /\ UNCHANGED <<heard, leftover, packets>>
        /\ queue'[t] = IF queue[t] = << >> THEN queue[t] ELSE Tail(queue[t])
        /\ queue[t] \in Seq(1..MaxPackets) /\ Len(queue[t]) <= QueueSize
    BY <1>12
    DEF PlaceTypes, BufferTypes, DropOldest, Goto,
        audioVars
  <2>4. Offered(t)' = Offered(t) /\ Taken(t)' = Taken(t)
    BY <2>3 DEF Offered, Taken
  <2>5. Stream(queue[t], Taken(t), Offered(t))
    BY <2>2 DEF TrackOK
  <2>6. CASE queue[t] = << >>
    <3>1. Stream(queue[t], Taken(t), Offered(t))'
      BY <2>3, <2>4, <2>5, <2>6 DEF Stream
    <3>2. Len(queue'[t]) = 0
      BY <2>3, <2>6, EmptyQueue
    <3>3. Len(queue'[t]) < QueueSize
      BY <3>2
    <3>4. TrackOK(t)'
      BY <2>3, <3>1, <3>3 DEF TrackOK, UpToDate
    <3> QED
      BY <2>1, <3>4, OthersStill
  <2>7. CASE queue[t] # << >>
    <3>1. Stream(Tail(queue[t]), Taken(t), Offered(t))
      BY <2>3, <2>5, <2>7, StreamDrop
    <3>2. Stream(queue[t], Taken(t), Offered(t))'
      BY <2>3, <2>4, <2>7, <3>1 DEF Stream
    <3>3. Len(Tail(queue[t])) < QueueSize
      BY <2>3, <2>7, QueueBound
    <3>4. Len(queue'[t]) < QueueSize
      BY <2>3, <2>7, <3>3
    <3>5. TrackOK(t)'
      BY <2>3, <3>2, <3>4 DEF TrackOK, UpToDate
    <3> QED
      BY <2>1, <3>5, OthersStill
  <2> QED
    BY <2>6, <2>7
<1>13. ASSUME NEW t \in Tracks, Retry(t) PROVE Streams'
  <2>1. \A u \in Tracks \ {t} :
          /\ queue'[u] = queue[u] /\ heard'[u] = heard[u] /\ leftover'[u] = leftover[u]
          /\ packets'[u] = packets[u] /\ at'[u] = at[u]
    BY <1>13
    DEF PlaceTypes, BufferTypes, Retry, Goto,
        PutPacket, audioVars
  <2>2. TrackOK(t)
    BY DEF Streams
  <2>3. packets[t] \in 1..MaxPackets /\ queue[t] \in Seq(1..MaxPackets)
    BY <1>13 DEF PlaceTypes, BufferTypes, Retry
  <2>4. HasRoom(t)
    BY <1>13, <2>2 DEF TrackOK, UpToDate, HasRoom, Retry
  <2> QED
    <3>1. /\ queue'[t] = Append(queue[t], packets[t]) /\ at'[t] = "reading"
          /\ UNCHANGED <<heard, leftover, packets>>
      BY <1>13, <2>4
      DEF PlaceTypes, BufferTypes, Retry, Goto,
          PutPacket, audioVars
    <3>2. Offered(t) = packets[t] - 1 /\ Offered(t)' = packets[t] /\ Taken(t)' = Taken(t)
      BY <1>13, <3>1 DEF Offered, Taken, Retry
    <3>3. Stream(queue[t], Taken(t), packets[t] - 1)
      BY <2>2, <3>2 DEF TrackOK
    <3>4. Stream(Append(queue[t], packets[t]), Taken(t), packets[t])
      BY <2>3, <3>3, StreamPut
    <3>5. Stream(queue[t], Taken(t), Offered(t))'
      BY <3>1, <3>2, <3>4 DEF Stream
    <3>6. queue'[t] # << >>
      BY <2>3, <3>1, QueueMore
    <3>7. UpToDate(t)'
      BY <3>1, <3>6 DEF UpToDate
    <3>8. TrackOK(t)'
      BY <3>5, <3>7 DEF TrackOK
    <3> QED
      BY <2>1, <3>8, OthersStill
<1>14. ASSUME NEW t \in Tracks, Request(t) PROVE Streams'
  BY <1>14, StreamsStill DEF PlaceTypes, Request, trackVars
<1>15. ASSUME NEW t \in Tracks, NextFrame(t) PROVE Streams'
  <2>1. \A u \in Tracks \ {t} :
          /\ queue'[u] = queue[u] /\ heard'[u] = heard[u] /\ leftover'[u] = leftover[u]
          /\ packets'[u] = packets[u] /\ at'[u] = at[u]
    BY <1>15
    DEF PlaceTypes, BufferTypes, NextFrame, trackVars
  <2>2. TrackOK(t)
    BY DEF Streams
  <2>3. /\ leftover[t] = << >> /\ UNCHANGED <<at, packets, heard>>
        /\ heard[t] \in Seq(AllSamples) /\ leftover[t] \in Seq(AllSamples)
        /\ queue[t] \in Seq(1..MaxPackets) /\ Len(queue[t]) <= QueueSize
    BY <1>15 DEF BufferTypes, NextFrame, trackVars
  <2>4. Offered(t)' = Offered(t) /\ Taken(t) = heard[t]
    BY <2>3, Joined DEF Offered, Taken
  <2>5. CASE queue[t] = << >>
    <3>1. queue'[t] = queue[t] /\ Taken(t)' = Taken(t)
      BY <1>15, <2>3, <2>5 DEF NextFrame, Taken
    <3>2. TrackOK(t)'
      BY <2>2, <2>3, <2>4, <3>1, TrackStill
    <3> QED
      BY <2>1, <3>2, OthersStill
  <2>6. CASE queue[t] # << >>
    <3> DEFINE h == heard[t]
    <3> DEFINE q == queue[t]
    <3> DEFINE r == Tail(q)
    <3> DEFINE taken == h \o Samples(Head(q))
    <3> DEFINE last == Offered(t)
    <3>1. queue'[t] = r /\ Taken(t)' = taken
      BY <1>15, <2>3, <2>6 DEF BufferTypes, NextFrame, Taken
    <3>2. Stream(q, h, last)
      BY <2>2, <2>4 DEF TrackOK
    <3>3. /\ Stream(r, taken, last)
          /\ taken # << >> /\ taken[Len(taken)] = Head(q) * PacketSize
          /\ r = << >> => Head(q) = last
      <4> HIDE DEF h, q, last
      <4> QED
        BY <2>3, <2>6, <3>2, StreamTake DEF h, q
    <3>4. Len(r) < QueueSize
      BY <2>3, <2>6, QueueBound
    <3> HIDE DEF taken, r
    <3>5. Stream(queue[t], Taken(t), Offered(t))'
      BY <2>4, <3>1, <3>3 DEF Stream
    <3>6. UpToDate(t)'
      BY <2>4, <3>1, <3>3, <3>4 DEF UpToDate
    <3>7. TrackOK(t)'
      BY <3>5, <3>6 DEF TrackOK
    <3> QED
      BY <2>1, <3>7, OthersStill
  <2> QED
    BY <2>5, <2>6
<1>16. ASSUME NEW t \in Tracks, TakeSamples(t) PROVE Streams'
  <2>1. \A u \in Tracks \ {t} :
          /\ queue'[u] = queue[u] /\ heard'[u] = heard[u] /\ leftover'[u] = leftover[u]
          /\ packets'[u] = packets[u] /\ at'[u] = at[u]
    BY <1>16
    DEF PlaceTypes, BufferTypes, TakeSamples, trackVars
  <2>2. TrackOK(t)
    BY DEF Streams
  <2> DEFINE l == leftover[t]
  <2> DEFINE k == IF need[t] < Len(l) THEN need[t] ELSE Len(l)
  <2>3. /\ need[t] > 0 /\ l # << >> /\ UNCHANGED <<queue, at, packets>>
        /\ heard'[t] = heard[t] \o SubSeq(l, 1, k)
        /\ leftover'[t] = SubSeq(l, k + 1, Len(l))
    BY <1>16 DEF BufferTypes, TakeSamples, trackVars
  <2>4. need[t] \in Nat /\ l \in Seq(AllSamples) /\ heard[t] \in Seq(AllSamples)
    BY DEF BufferTypes
  <2> HIDE DEF l
  <2>5. Len(l) \in Nat /\ Len(l) >= 1
    BY <2>3, <2>4, QueueParts
  <2>6. k \in 1..Len(l)
    BY <2>3, <2>4, <2>5
  <2> HIDE DEF k
  <2>7. /\ SubSeq(l, 1, k) \in Seq(AllSamples)
        /\ SubSeq(l, k + 1, Len(l)) \in Seq(AllSamples)
        /\ SubSeq(l, 1, k) \o SubSeq(l, k + 1, Len(l)) = l
    BY <2>4, <2>6, CutInTwo
  <2>8. (heard[t] \o SubSeq(l, 1, k)) \o SubSeq(l, k + 1, Len(l)) = heard[t] \o l
    BY <2>4, <2>6, CutJoined
  <2>9. Taken(t)' = Taken(t) /\ Offered(t)' = Offered(t)
    BY <2>3, <2>8 DEF Taken, Offered, l
  <2>10. TrackOK(t)'
    BY <2>2, <2>3, <2>9, TrackStill
  <2> QED
    BY <2>1, <2>10, OthersStill
<1>17. CASE RemovePeer
  BY <1>17, StreamsStill
  DEF PlaceTypes, RemovePeer, trackVars, audioVars
<1>18. CASE ClosePeer
  BY <1>18, StreamsStill
  DEF PlaceTypes, ClosePeer, trackVars, audioVars
<1>19. CASE ClosePlayer
  BY <1>19, StreamsStill
  DEF PlaceTypes, ClosePlayer, trackVars, audioVars
<1>20. CASE CloseConn
  BY <1>20, StreamsStill
  DEF PlaceTypes, CloseConn, trackVars, audioVars
<1>21. CASE UNCHANGED playbackVars
  BY <1>21, StreamsStill DEF playbackVars
<1> QED
  BY <1>1, <1>2, <1>3, <1>4, <1>5, <1>6, <1>7, <1>8, <1>9, <1>10, <1>11, <1>12,
     <1>13, <1>14, <1>15, <1>16, <1>17, <1>18, <1>19, <1>20, <1>21
  DEF PlaybackNext, TrackStep, AudioStep, ShutStep,
      CloseStep, PlaybackDone

----------------------------------------------------------------------------
\* The theorems.

\* The invariant holds at the start.
LEMMA PlaybackInitInv ==
  ASSUME PlaybackConstants
  PROVE  PlaybackInit => PlaybackInv
<1> SUFFICES ASSUME PlaybackInit PROVE PlaybackInv
  OBVIOUS
<1>1. PlaceTypes
  BY PlaybackNumbers DEF PlaybackInit, PlaceTypes
<1>2. << >> \in Seq(1..MaxPackets) /\ << >> \in Seq(AllSamples) /\ Len(<< >>) = 0
  BY EmptyQueue
<1>3. BufferTypes
  BY <1>2, PlaybackNumbers DEF PlaybackInit, BufferTypes
<1>4. NotYetOpen /\ OpenPlayersOwned
  BY DEF PlaybackInit, NotYetOpen, OpenPlayersOwned
<1>5. Streams
  <2> SUFFICES ASSUME NEW t \in Tracks PROVE TrackOK(t)
    BY DEF Streams
  <2>1. queue[t] = << >> /\ heard[t] = << >> /\ leftover[t] = << >> /\ Offered(t) = 0
    BY DEF PlaybackInit, Offered
  <2>2. Taken(t) = << >>
    BY <1>2, <2>1, ConcatEmptySeq DEF Taken
  <2>3. InOrder(<< >>)
    BY <1>2 DEF InOrder
  <2>4. Stream(queue[t], Taken(t), Offered(t))
    BY <1>2, <2>1, <2>2, <2>3 DEF Stream
  <2>5. UpToDate(t)
    BY <2>1 DEF UpToDate, PlaybackInit
  <2> QED
    BY <2>4, <2>5 DEF TrackOK
<1> QED
  BY <1>1, <1>3, <1>4, <1>5 DEF PlaybackInv

\* Every step keeps it.
LEMMA PlaybackStep ==
  ASSUME PlaybackConstants
  PROVE  PlaybackInv /\ [PlaybackNext]_playbackVars => PlaybackInv'
  BY PlaceTypesStep, BufferTypesStep, NotYetOpenStep, OwnedStep, StreamsStep
  DEF PlaybackInv

\* What it says about types.
LEMMA PlaybackInvTypes ==
  PlaybackInv => PlaybackTypeOK
  BY DEF PlaybackInv, PlaceTypes, BufferTypes, PlaybackTypeOK

\* What it says about the sound.
LEMMA PlaybackInvSound ==
  ASSUME PlaybackConstants
  PROVE  PlaybackInv => SoundInOrder /\ NewestKept /\ OpenPlayersOwned
<1> SUFFICES ASSUME PlaybackInv PROVE SoundInOrder /\ NewestKept
  BY DEF PlaybackInv
<1>1. BufferTypes /\ Streams
  BY DEF PlaybackInv
<1>2. ASSUME NEW t \in Tracks, NEW i \in 1..(Len(heard[t]) - 1)
      PROVE  \/ heard[t][i + 1] = heard[t][i] + 1
             \/ /\ heard[t][i] % PacketSize = 0
                /\ heard[t][i + 1] > heard[t][i]
                /\ heard[t][i + 1] % PacketSize = 1 % PacketSize
  <2> DEFINE h == heard[t]
  <2> DEFINE l == leftover[t]
  <2>1. InOrder(h \o l)
    BY <1>1 DEF Streams, TrackOK, Stream, Taken
  <2>2. h \in Seq(AllSamples) /\ l \in Seq(AllSamples)
    BY <1>1 DEF BufferTypes
  <2>3. i \in 1..(Len(h) - 1)
    OBVIOUS
  <2> HIDE DEF h, l
  <2>4. /\ Len(h) \in Nat /\ Len(l) \in Nat /\ Len(h \o l) = Len(h) + Len(l)
        /\ \A j \in 1..Len(h) : (h \o l)[j] = h[j]
    BY <2>2, Joined
  <2>5. i \in 1..(Len(h \o l) - 1) /\ i \in 1..Len(h) /\ i + 1 \in 1..Len(h)
    BY <2>3, <2>4
  <2>6. (h \o l)[i] = h[i] /\ (h \o l)[i + 1] = h[i + 1]
    BY <2>4, <2>5
  <2>7. \/ h[i + 1] = h[i] + 1
        \/ /\ h[i] % PacketSize = 0
           /\ h[i + 1] > h[i] /\ h[i + 1] % PacketSize = 1 % PacketSize
    <3> DEFINE s == h \o l
    <3>1. InOrder(s) /\ i \in 1..(Len(s) - 1) /\ s[i] = h[i] /\ s[i + 1] = h[i + 1]
      BY <2>1, <2>5, <2>6
    <3> HIDE DEF s
    <3> QED
      BY <3>1 DEF InOrder
  <2> QED
    BY <2>7 DEF h
<1>3. SoundInOrder
  BY <1>2 DEF SoundInOrder
<1>4. NewestKept
  BY <1>1
  DEF Streams, TrackOK, Stream, UpToDate, Taken, Offered, NewestKept
<1> QED
  BY <1>3, <1>4

\* Every variable of the playback keeps its type, and the queue its bound.
THEOREM PlaybackTypeCorrect == PlaybackSpec => []PlaybackTypeOK
  BY PlaybackAssumption, PlaybackInitInv, PlaybackStep, PlaybackInvTypes, PTL DEF PlaybackSpec

\* Sound is never repeated, reordered or cut in mid-packet, whatever the
\* writer, the audio thread and the closing of players do
\* (WriteOpus, onAudioRequest).
THEOREM PlaybackInOrder == PlaybackSpec => []SoundInOrder
  BY PlaybackAssumption, PlaybackInitInv, PlaybackStep, PlaybackInvSound, PTL DEF PlaybackSpec

\* A full queue gives up its oldest packet and never the new one, even when
\* the audio thread empties it in the meantime (WriteOpus).
THEOREM PlaybackFresh == PlaybackSpec => []NewestKept
  BY PlaybackAssumption, PlaybackInitInv, PlaybackStep, PlaybackInvSound, PTL DEF PlaybackSpec

\* No player leaks: an open one is always in the hands of someone who will
\* close it (OnTrack, SetPlayer, ClearPlayer, RemotePeer.Close).
THEOREM NoPlayerLeaks == PlaybackSpec => []OpenPlayersOwned
  BY PlaybackAssumption, PlaybackInitInv, PlaybackStep, PlaybackInvSound, PTL DEF PlaybackSpec

=============================================================================
