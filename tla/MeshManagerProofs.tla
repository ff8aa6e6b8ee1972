------------------------- MODULE MeshManagerProofs -------------------------
(***************************************************************************)
(* Proofs about the mesh manager, for any number of peers, connections and *)
(* changes of the microphone.                                              *)
(***************************************************************************)
EXTENDS MeshManager, TLAPS

----------------------------------------------------------------------------
\* The inductive invariant of connections.

\* What a goroutine works on is there.
HandsFull ==
  /\ at # "idle" => cur \in PeerIDs /\ leaving[Loop] = "no"
  /\ at \notin {"idle", "creating"} => fresh \in ConnIDs
  /\ \A g \in Goroutines :
       /\ leaving[g] # "no" => leaver[g] \in PeerIDs
       /\ leaving[g] \in {"closing", "notifying"} => victim[g] \in ConnIDs
  /\ \A c \in ConnIDs : conn[c] # "unused" => owner[c] \in PeerIDs

Mapped(c) == \E i \in PeerIDs : peers[i] = c

Carried(c) == at \in {"inserting", "discarding"} /\ fresh = c

Taken(c) == \E g \in Goroutines : leaving[g] = "closing" /\ victim[g] = c

\* An open connection has a holder: the map, handlePeerJoined, a goroutine in
\* handlePeerLeft, or Stop.
OpenIsHeld == \A c \in ConnIDs : conn[c] = "open" => Held(c) \/ Mapped(c)

\* The map holds open connections of the right peer.
MapIsOpen ==
  \A i \in PeerIDs :
    peers[i] # None => conn[peers[i]] = "open" /\ owner[peers[i]] = i

\* What is held outside the map is open, and not in the map.
HeldIsOpen == \A c \in ConnIDs : Held(c) => conn[c] = "open" /\ ~Mapped(c)

\* And it is held once.
HeldOnce ==
  /\ \A c \in ConnIDs : Carried(c) => ~Taken(c) /\ c \notin stopList
  /\ \A c \in stopList : ~Taken(c)
  /\ \A g, h \in Goroutines :
       /\ leaving[g] = "closing" /\ leaving[h] = "closing"
       /\ victim[g] = victim[h]
       => g = h
  /\ at \in {"inserting", "discarding"} => owner[fresh] = cur

OneHolder == OpenIsHeld /\ MapIsOpen /\ HeldIsOpen /\ HeldOnce

\* How far Stop has come.
Stopping ==
  /\ stop # "no" => ctxDone
  /\ stop \in {"closing", "stopped"} => \A i \in PeerIDs : peers[i] = None
  /\ stop \in {"no", "taking"} => stopList = {}
  /\ stop = "stopped" => stopList = {} /\ (at # "idle" => phase = "initial")
  /\ phase = "done" => at = "idle"

ConnInv == TypeOK /\ HandsFull /\ OneHolder /\ Stopping

----------------------------------------------------------------------------
\* Audio.
Tuned ==
  /\ \A i \in PeerIDs :
       peers[i] # None /\ peers[i] \notin missed \cup audioList
         => sender[peers[i]] = track
  /\ at = "inserting" /\ fresh \notin missed => sender[fresh] = track

----------------------------------------------------------------------------
\* The UI.

\* Whoever calls handlePeerLeft for a connection was told of its peer by it: a
\* connection that was made and, unless it is closed, negotiated.  What it
\* takes from the map is of the same peer.  The connection handlePeerJoined
\* works on is not negotiated yet.
Callers ==
  /\ \A c \in ConnIDs : conn[c] = "unused" => owner[c] = None
  /\ \A c \in negotiated : conn[c] # "unused"
  /\ \A k \in Reports \cup {"closed"}, c \in ConnIDs :
       leaver[<<k, c>>] # None =>
         leaver[<<k, c>>] = owner[c] /\ (c \in negotiated \/ conn[c] = "closed")
  /\ \A g \in Goroutines :
       leaving[g] \in {"closing", "notifying"} =>
         /\ owner[victim[g]] = leaver[g]
         /\ leaving[g] = "notifying" => conn[victim[g]] = "closed"
  /\ at \in {"inserting", "discarding", "notifying", "offering"} =>
       owner[fresh] = cur /\ fresh \notin negotiated

TwoMade(i) == \E c, d \in ConnIDs : c # d /\ owner[c] = i /\ owner[d] = i

\* Two notices of one peer are under way at once only for two connections.
Overlapping ==
  /\ \A i \in overlapped : TwoMade(i)
  /\ at = "notifying" /\ cur \notin overlapped /\ peers[cur] # None
       => peers[cur] = fresh

\* Otherwise a tile without a peer belongs to a goroutine that has yet to
\* remove it, and a peer without a tile to handlePeerJoined.
Tiles ==
  \A i \in PeerIDs \ overlapped :
    /\ \A g \in Goroutines : Removing(g, i) => peers[i] = None
    /\ at = "notifying" /\ cur = i => peers[i] # None
    /\ i \in ui /\ peers[i] = None => \E g \in Goroutines : Removing(g, i)
    /\ i \notin ui /\ peers[i] # None => at = "notifying" /\ cur = i

UIInv == Callers /\ Overlapping /\ (stop = "no" => Tiles)

----------------------------------------------------------------------------
\* The conjuncts of the invariant of connections over a step.

\* Every action keeps the types.
LEMMA TypeStep ==
  ASSUME TypeOK, HandsFull, [Next]_vars
  PROVE  TypeOK'
<1> USE MeshAssumption DEF TypeOK, HandsFull, Options, audioVars, stopVars,
        connVars, loopVars, leftVars, uiVars
<1>1. CASE StartLoop
  BY <1>1 DEF StartLoop, LoopIdle
<1>2. CASE EndLoop
  BY <1>2 DEF EndLoop, LoopIdle
<1>3. ASSUME NEW i \in PeerIDs, PeerJoined(i) PROVE TypeOK'
  BY <1>3 DEF PeerJoined, LoopIdle
<1>4. CASE CreateConn
  BY <1>4 DEF CreateConn
<1>5. CASE CreateFails
  BY <1>5 DEF CreateFails, Return
<1>6. CASE InsertPeer
  BY <1>6 DEF InsertPeer
<1>7. CASE DiscardConn
  BY <1>7 DEF DiscardConn, Close, Return
<1>8. CASE NotifyJoin
  BY <1>8 DEF NotifyJoin
<1>9. CASE Offer
  BY <1>9 DEF Offer, Return
<1>10. ASSUME NEW i \in PeerIDs, PeerLeft(i) PROVE TypeOK'
  BY <1>10 DEF PeerLeft, LoopIdle
<1>11. ASSUME NEW c \in ConnIDs, ConnFails(c) PROVE TypeOK'
  BY <1>11 DEF ConnFails
<1>12. ASSUME NEW g \in Goroutines, TakePeer(g) PROVE TypeOK'
  BY <1>12 DEF TakePeer
<1>13. ASSUME NEW g \in Goroutines, CloseTaken(g) PROVE TypeOK'
  BY <1>13 DEF CloseTaken, Close
<1>14. ASSUME NEW g \in Goroutines, NotifyLeave(g) PROVE TypeOK'
  BY <1>14 DEF NotifyLeave
<1>15. CASE StopCancel
  BY <1>15 DEF StopCancel
<1>16. CASE StopTake
  BY <1>16 DEF StopTake
<1>17. CASE StopClose
  BY <1>17 DEF StopClose, Close
<1>18. CASE StopWait
  BY <1>18 DEF StopWait
<1>19. CASE SetMuteAudio
  <2>1. /\ toggles' \in 0..MaxToggles /\ track' \in 0..MaxToggles
        /\ audioList' \subseteq ConnIDs /\ missed' \subseteq ConnIDs
    BY <1>19 DEF SetMuteAudio
  <2> QED
    BY <1>19, <2>1 DEF SetMuteAudio
<1>20. CASE ReplaceTrack
  BY <1>20 DEF ReplaceTrack
<1>21. CASE RefuseTrack
  BY <1>21 DEF RefuseTrack
<1>22. CASE UNCHANGED vars
  BY <1>22 DEF vars
<1> QED
  BY <1>1, <1>2, <1>3, <1>4, <1>5, <1>6, <1>7, <1>8, <1>9, <1>10, <1>11,
     <1>12, <1>13, <1>14, <1>15, <1>16, <1>17, <1>18, <1>19, <1>20, <1>21,
     <1>22
  DEF Next, LoopStep, LeftStep, StopStep, Finished

\* A callback of a connection runs in a goroutine of its own.
LEMMA CallersDiffer ==
  \A k \in Reports \cup {"closed"}, c \in ConnIDs :
    <<k, c>> \in Goroutines /\ <<k, c>> # Loop
BY MeshAssumption DEF Goroutines, Loop, ConnIDs

\* Who is about to take a peer has not taken one.
LEMMA DueIdle ==
  ASSUME HandsFull, NEW g \in Goroutines, NEW i \in PeerIDs, Due(g, i)
  PROVE  leaving[g] \in {"no", "due"} /\ (g = Loop => leaving[g] = "due")
<1>1. CASE leaving[g] = "due"
  BY <1>1
<1>2. CASE leaving[g] # "due"
  <2>1. leaver[g] = None /\ g # Loop
    BY <1>2, CallersDiffer DEF Due
  <2> QED
    BY <2>1, MeshAssumption DEF HandsFull
<1> QED
  BY <1>1, <1>2

\* A goroutine is given what it works on before it is at work: a callback has
\* the peer its connection was made for.
LEMMA HandsStep ==
  ASSUME TypeOK, HandsFull, HeldIsOpen, [Next]_vars
  PROVE  HandsFull'
<1> USE MeshAssumption DEF TypeOK, Options, HandsFull, HeldIsOpen, Held,
        audioVars, stopVars, connVars, loopVars, leftVars,
        uiVars
<1>1. CASE StartLoop
  BY <1>1 DEF StartLoop, LoopIdle
<1>2. CASE EndLoop
  BY <1>2 DEF EndLoop, LoopIdle
<1>3. ASSUME NEW i \in PeerIDs, PeerJoined(i) PROVE HandsFull'
  BY <1>3 DEF PeerJoined, LoopIdle
<1>4. CASE CreateConn
  BY <1>4 DEF CreateConn
<1>5. CASE CreateFails
  BY <1>5 DEF CreateFails, Return
<1>6. CASE InsertPeer
  BY <1>6 DEF InsertPeer
<1>7. CASE DiscardConn
  BY <1>7 DEF DiscardConn, Close, Return
<1>8. CASE NotifyJoin
  BY <1>8 DEF NotifyJoin
<1>9. CASE Offer
  BY <1>9 DEF Offer, Return
<1>10. ASSUME NEW i \in PeerIDs, PeerLeft(i) PROVE HandsFull'
  BY <1>10 DEF PeerLeft, LoopIdle
<1>11. ASSUME NEW c \in ConnIDs, ConnFails(c) PROVE HandsFull'
  <2>1. \A k \in Reports : <<k, c>> \in Goroutines /\ <<k, c>> # Loop
    BY CallersDiffer
  <2>2. owner[c] \in PeerIDs
    BY <1>11 DEF ConnFails
  <2> QED
    BY <1>11, <2>1, <2>2 DEF ConnFails
<1>12. ASSUME NEW g \in Goroutines, TakePeer(g) PROVE HandsFull'
  BY <1>12, DueIdle DEF TakePeer
<1>13. ASSUME NEW g \in Goroutines, CloseTaken(g) PROVE HandsFull'
  BY <1>13 DEF CloseTaken, Close
<1>14. ASSUME NEW g \in Goroutines, NotifyLeave(g) PROVE HandsFull'
  BY <1>14 DEF NotifyLeave
<1>15. CASE StopCancel
  BY <1>15 DEF StopCancel
<1>16. CASE StopTake
  BY <1>16 DEF StopTake
<1>17. CASE StopClose
  BY <1>17 DEF StopClose, Close
<1>18. CASE StopWait
  BY <1>18 DEF StopWait
<1>19. CASE SetMuteAudio
  BY <1>19 DEF SetMuteAudio
<1>20. CASE ReplaceTrack
  BY <1>20 DEF ReplaceTrack
<1>21. CASE RefuseTrack
  BY <1>21 DEF RefuseTrack
<1>22. CASE UNCHANGED vars
  BY <1>22 DEF vars
<1> QED
  BY <1>1, <1>2, <1>3, <1>4, <1>5, <1>6, <1>7, <1>8, <1>9, <1>10, <1>11,
     <1>12, <1>13, <1>14, <1>15, <1>16, <1>17, <1>18, <1>19, <1>20, <1>21,
     <1>22
  DEF Next, LoopStep, LeftStep, StopStep, Finished

\* Stop goes one way, and empties what it took.
LEMMA StoppingStep ==
  ASSUME TypeOK, Stopping, [Next]_vars
  PROVE  Stopping'
<1> USE MeshAssumption DEF TypeOK, Options, Stopping, audioVars, stopVars,
        connVars, loopVars, leftVars, uiVars
<1>1. CASE StartLoop
  BY <1>1 DEF StartLoop, LoopIdle
<1>2. CASE EndLoop
  BY <1>2 DEF EndLoop, LoopIdle
<1>3. ASSUME NEW i \in PeerIDs, PeerJoined(i) PROVE Stopping'
  BY <1>3 DEF PeerJoined, LoopIdle
<1>4. CASE CreateConn
  BY <1>4 DEF CreateConn
<1>5. CASE CreateFails
  BY <1>5 DEF CreateFails, Return
<1>6. CASE InsertPeer
  BY <1>6 DEF InsertPeer
<1>7. CASE DiscardConn
  BY <1>7 DEF DiscardConn, Close, Return
<1>8. CASE NotifyJoin
  BY <1>8 DEF NotifyJoin
<1>9. CASE Offer
  BY <1>9 DEF Offer, Return
<1>10. ASSUME NEW i \in PeerIDs, PeerLeft(i) PROVE Stopping'
  BY <1>10 DEF PeerLeft, LoopIdle
<1>11. ASSUME NEW c \in ConnIDs, ConnFails(c) PROVE Stopping'
  BY <1>11 DEF ConnFails
<1>12. ASSUME NEW g \in Goroutines, TakePeer(g) PROVE Stopping'
  BY <1>12 DEF TakePeer
<1>13. ASSUME NEW g \in Goroutines, CloseTaken(g) PROVE Stopping'
  BY <1>13 DEF CloseTaken, Close
<1>14. ASSUME NEW g \in Goroutines, NotifyLeave(g) PROVE Stopping'
  BY <1>14 DEF NotifyLeave
<1>15. CASE StopCancel
  BY <1>15 DEF StopCancel
<1>16. CASE StopTake
  BY <1>16 DEF StopTake
<1>17. CASE StopClose
  BY <1>17 DEF StopClose, Close
<1>18. CASE StopWait
  BY <1>18 DEF StopWait
<1>19. CASE SetMuteAudio
  BY <1>19 DEF SetMuteAudio
<1>20. CASE ReplaceTrack
  BY <1>20 DEF ReplaceTrack
<1>21. CASE RefuseTrack
  BY <1>21 DEF RefuseTrack
<1>22. CASE UNCHANGED vars
  BY <1>22 DEF vars
<1> QED
  BY <1>1, <1>2, <1>3, <1>4, <1>5, <1>6, <1>7, <1>8, <1>9, <1>10, <1>11,
     <1>12, <1>13, <1>14, <1>15, <1>16, <1>17, <1>18, <1>19, <1>20, <1>21,
     <1>22
  DEF Next, LoopStep, LeftStep, StopStep, Finished

----------------------------------------------------------------------------
\* Who holds a connection.

\* A step that hands no connection over keeps the holders.
Quiet ==
  /\ UNCHANGED <<peers, conn, owner, stopList>>
  /\ at' \in {"inserting", "discarding"} <=> at \in {"inserting", "discarding"}
  /\ at \in {"inserting", "discarding"} => fresh' = fresh /\ cur' = cur
  /\ \A g \in Goroutines :
       /\ leaving'[g] = "closing" <=> leaving[g] = "closing"
       /\ leaving[g] = "closing" => victim'[g] = victim[g]

\* Then every part of OneHolder means the same before and after.
LEMMA QuietHolders ==
  ASSUME OneHolder, Quiet
  PROVE  OneHolder'
<1>1. \A c : (Carried(c)' <=> Carried(c)) /\ (Taken(c)' <=> Taken(c))
             /\ (Mapped(c)' <=> Mapped(c))
  BY DEF Quiet, Carried, Taken, Mapped
<1>2. \A c : Held(c)' <=> Held(c)
  BY <1>1 DEF Quiet, Held, Carried, Taken
<1>3. OpenIsHeld' /\ MapIsOpen' /\ HeldIsOpen'
  BY <1>1, <1>2 DEF Quiet, OneHolder, OpenIsHeld, MapIsOpen, HeldIsOpen
<1>4. HeldOnce'
  BY <1>1 DEF Quiet, OneHolder, HeldOnce
<1> QED
  BY <1>3, <1>4 DEF OneHolder

\* A connection that is created is carried by handlePeerJoined.
LEMMA CreateHolders ==
  ASSUME ConnInv, CreateConn
  PROVE  OneHolder'
<1> USE DEF ConnInv, TypeOK, leftVars, stopVars
<1>1. PICK c \in ConnIDs :
        /\ conn[c] = "unused" /\ conn' = [conn EXCEPT ![c] = "open"]
        /\ owner' = [owner EXCEPT ![c] = cur] /\ fresh' = c
  BY DEF CreateConn
<1>2. /\ at = "creating" /\ at' = "inserting"
      /\ UNCHANGED <<peers, leaving, victim, stopList, cur>>
  BY DEF CreateConn
<1>3. ~Held(c) /\ ~Mapped(c) /\ \A i \in PeerIDs : peers[i] # c
  <2>1. c # None
    BY MeshAssumption DEF ConnIDs
  <2>2. \A i \in PeerIDs : peers[i] # c
    BY <1>1, <2>1 DEF OneHolder, MapIsOpen
  <2> QED
    BY <1>1, <2>2 DEF OneHolder, HeldIsOpen, Mapped
<1>4. \A d : /\ Carried(d)' <=> d = c
             /\ Taken(d)' <=> Taken(d)
             /\ Mapped(d)' <=> Mapped(d)
             /\ ~Carried(d)
  BY <1>1, <1>2 DEF Carried, Taken, Mapped
<1>5. \A d : (Held(d)' <=> Held(d) \/ d = c)
  BY <1>2, <1>4 DEF Held, Carried, Taken
<1>6. OpenIsHeld' /\ HeldIsOpen'
  BY <1>1, <1>3, <1>4, <1>5 DEF OneHolder, OpenIsHeld, HeldIsOpen
<1>7. MapIsOpen'
  BY <1>1, <1>2, <1>3 DEF OneHolder, MapIsOpen, Options
<1>8. HeldOnce'
  <2>1. ~Taken(c) /\ c \notin stopList
    BY <1>3 DEF Held, Taken
  <2> QED
    BY <1>1, <1>2, <1>4, <2>1 DEF OneHolder, HeldOnce
<1> QED
  BY <1>6, <1>7, <1>8 DEF OneHolder

\* One that is inserted passes from it to the map.
LEMMA InsertHolders ==
  ASSUME ConnInv, InsertPeer
  PROVE  OneHolder'
<1> USE DEF ConnInv, TypeOK, leftVars, stopVars, connVars
<1>1. /\ at = "inserting" /\ UNCHANGED <<conn, owner, stopList, cur, fresh>>
      /\ UNCHANGED <<leaving, victim>>
  BY DEF InsertPeer
<1>2. CASE at' = "discarding" /\ peers' = peers
  <2>1. Quiet
    BY <1>1, <1>2 DEF Quiet
  <2> QED
    BY <2>1, QuietHolders
<1>3. CASE at' = "notifying" /\ peers[cur] = None
           /\ peers' = [peers EXCEPT ![cur] = fresh]
  <2>1. cur \in PeerIDs /\ fresh \in ConnIDs /\ fresh # None
    BY <1>1, MeshAssumption DEF HandsFull, ConnIDs
  <2>2. Carried(fresh) /\ ~Taken(fresh) /\ fresh \notin stopList
        /\ owner[fresh] = cur
    BY <1>1, <2>1 DEF Carried, OneHolder, HeldOnce
  <2>3. conn[fresh] = "open" /\ ~Mapped(fresh)
    BY <2>1, <2>2 DEF Held, Carried, OneHolder, HeldIsOpen
  <2>4. \A d \in ConnIDs : /\ ~Carried(d)' /\ (Taken(d)' <=> Taken(d))
                           /\ Carried(d) => d = fresh
    BY <1>1, <1>3 DEF Carried, Taken
  <2>5. \A d \in ConnIDs : Mapped(d)' <=> Mapped(d) \/ d = fresh
    BY <1>3, <2>1, MeshAssumption DEF Mapped, ConnIDs
  <2>6. \A d \in ConnIDs : Held(d)' <=> Held(d) /\ d # fresh
    BY <1>1, <2>2, <2>4 DEF Held, Carried, Taken
  <2>7. OpenIsHeld' /\ HeldIsOpen'
    BY <1>1, <2>5, <2>6 DEF OneHolder, OpenIsHeld, HeldIsOpen
  <2>8. MapIsOpen'
    BY <1>1, <1>3, <2>1, <2>2, <2>3 DEF OneHolder, MapIsOpen
  <2>9. HeldOnce'
    BY <1>1, <1>3, <2>4 DEF OneHolder, HeldOnce
  <2> QED
    BY <2>7, <2>8, <2>9 DEF OneHolder
<1> QED
  BY <1>2, <1>3 DEF InsertPeer

\* One that handlePeerLeft takes passes from the map to its goroutine.
LEMMA TakeHolders ==
  ASSUME ConnInv, NEW g \in Goroutines, TakePeer(g)
  PROVE  OneHolder'
<1> USE DEF ConnInv, TypeOK, stopVars, connVars, loopVars
<1>1. PICK i \in PeerIDs :
        /\ Due(g, i)
        /\ peers' = [peers EXCEPT ![i] = None]
        /\ victim' = [victim EXCEPT ![g] = peers[i]]
        /\ leaving' = [leaving EXCEPT ![g] = IF peers[i] = None THEN "no"
                                             ELSE "closing"]
        /\ UNCHANGED <<conn, owner, stopList, at, cur, fresh>>
  BY DEF TakePeer
<1> DEFINE v == peers[i]
<1>2. leaving[g] \in {"no", "due"} /\ v \in Options(ConnIDs)
  BY <1>1, DueIdle
<1>3. CASE v = None
  <2>1. peers' = peers
    BY <1>1, <1>2, <1>3
  <2>2. Quiet
    BY <1>1, <1>2, <1>3, <2>1 DEF Quiet
  <2> QED
    BY <2>2, QuietHolders
<1>4. CASE v # None
  <2>1. v \in ConnIDs /\ conn[v] = "open" /\ Mapped(v)
    BY <1>1, <1>2, <1>4 DEF Options, OneHolder, MapIsOpen, Mapped
  <2>2. ~Held(v) /\ ~Carried(v) /\ ~Taken(v) /\ v \notin stopList
    BY <2>1 DEF OneHolder, HeldIsOpen, Held, Carried, Taken
  <2>3. \A j \in PeerIDs : peers[j] = v => j = i
    <3>1. \A j \in PeerIDs : peers[j] # None => owner[peers[j]] = j
      BY DEF OneHolder, MapIsOpen
    <3> QED
      BY <1>1, <1>2, <1>4, <3>1
  <2>4. /\ leaving'[g] = "closing" /\ victim'[g] = v
        /\ \A h \in Goroutines : h # g => leaving'[h] = leaving[h]
                                          /\ victim'[h] = victim[h]
    BY <1>1, <1>4
  <2>5. \A d \in ConnIDs : /\ Carried(d)' <=> Carried(d)
                           /\ Taken(d)' <=> Taken(d) \/ d = v
    BY <1>1, <1>2, <2>4 DEF Carried, Taken
  <2>6. \A d \in ConnIDs : Mapped(d)' <=> Mapped(d) /\ d # v
    BY <1>1, <1>2, <2>3, MeshAssumption DEF Mapped, ConnIDs
  <2>7. \A d \in ConnIDs : Held(d)' <=> Held(d) \/ d = v
    BY <1>1, <1>2, <2>5 DEF Held, Carried, Taken
  <2>8. OpenIsHeld' /\ HeldIsOpen'
    BY <1>1, <1>2, <2>1, <2>6, <2>7 DEF OneHolder, OpenIsHeld, HeldIsOpen
  <2>9. MapIsOpen'
    BY <1>1, <1>2 DEF OneHolder, MapIsOpen
  <2>10. HeldOnce'
    <3>1. \A d \in ConnIDs : Carried(d)' => ~Taken(d)' /\ d \notin stopList'
      BY <1>1, <1>2, <2>2, <2>5 DEF OneHolder, HeldOnce
    <3>2. \A d \in stopList' : ~Taken(d)'
      BY <1>1, <1>2, <2>2, <2>5 DEF OneHolder, HeldOnce
    <3>3. \A h \in Goroutines : leaving[h] = "closing" => victim[h] # v
      BY <2>2 DEF Taken
    <3>4. ASSUME NEW h \in Goroutines, NEW k \in Goroutines,
                 leaving'[h] = "closing", leaving'[k] = "closing",
                 victim'[h] = victim'[k]
          PROVE  h = k
      BY <2>4, <3>3, <3>4 DEF OneHolder, HeldOnce
    <3> QED
      BY <1>1, <1>2, <3>1, <3>2, <3>4 DEF OneHolder, HeldOnce
  <2> QED
    BY <2>8, <2>9, <2>10 DEF OneHolder
<1> QED
  BY <1>3, <1>4

\* Stop takes the whole map.
LEMMA StopTakeHolders ==
  ASSUME ConnInv, StopTake, stopList = {}
  PROVE  OneHolder'
<1> USE DEF ConnInv, TypeOK, connVars, loopVars, leftVars
<1>1. /\ UNCHANGED <<conn, owner, at, cur, fresh, leaving, victim>>
      /\ stopList' = {peers[i] : i \in PeerIDs} \ {None}
      /\ \A i \in PeerIDs : peers'[i] = None
  BY DEF StopTake
<1>2. None \notin ConnIDs
  BY MeshAssumption DEF ConnIDs
<1>3. \A d \in ConnIDs : ~Mapped(d)' /\ (d \in stopList' <=> Mapped(d))
  BY <1>1, <1>2 DEF Mapped
<1>4. \A d \in ConnIDs : (Carried(d)' <=> Carried(d)) /\ (Taken(d)' <=>
   Taken(d))
  BY <1>1 DEF Carried, Taken
<1>5. \A d \in ConnIDs : Held(d)' <=> Held(d) \/ Mapped(d)
  BY <1>1, <1>3, <1>4 DEF Held, Carried, Taken
<1>6. \A d \in ConnIDs : Mapped(d) => conn[d] = "open"
  BY <1>2 DEF Mapped, OneHolder, MapIsOpen
<1>7. OpenIsHeld' /\ HeldIsOpen'
  BY <1>1, <1>3, <1>5, <1>6 DEF OneHolder, OpenIsHeld, HeldIsOpen
<1>8. MapIsOpen'
  BY <1>1 DEF MapIsOpen
<1>9. \A d \in ConnIDs : Mapped(d) => ~Carried(d) /\ ~Taken(d)
  BY DEF OneHolder, HeldIsOpen, Held, Carried, Taken
<1>10. stopList' \subseteq ConnIDs
  BY <1>1 DEF Options
<1>11. HeldOnce'
  BY <1>1, <1>3, <1>4, <1>9, <1>10 DEF OneHolder, HeldOnce
<1> QED
  BY <1>7, <1>8, <1>11 DEF OneHolder

\* Whoever holds a connection outside the map may close it, and lets it go.
LEMMA CloseHolders ==
  ASSUME ConnInv, NEW c \in ConnIDs, Held(c), Close(c),
         UNCHANGED <<peers, owner, victim>>,
         \A d \in ConnIDs :
           /\ Carried(d)' <=> Carried(d) /\ d # c
           /\ Taken(d)' <=> Taken(d) /\ d # c
           /\ d \in stopList' <=> d \in stopList /\ d # c,
         stopList' \subseteq stopList,
         \A g \in Goroutines : leaving'[g] = "closing" => leaving[g] =
            "closing",
         at' \in {"inserting", "discarding"} =>
           at \in {"inserting", "discarding"} /\ UNCHANGED <<fresh, cur>>
  PROVE  OneHolder'
<1> USE DEF ConnInv, TypeOK
<1>1. \A d \in ConnIDs : conn'[d] = IF d = c THEN "closed" ELSE conn[d]
  BY DEF Close
<1>2. ~Mapped(c) /\ \A d : Mapped(d)' <=> Mapped(d)
  BY DEF OneHolder, HeldIsOpen, Mapped
<1>3. \A d \in ConnIDs : Held(d)' <=> Held(d) /\ d # c
  BY DEF Held, Carried, Taken
<1>4. OpenIsHeld' /\ HeldIsOpen'
  BY <1>1, <1>2, <1>3 DEF OneHolder, OpenIsHeld, HeldIsOpen
<1>5. MapIsOpen'
  BY <1>1, <1>2 DEF OneHolder, MapIsOpen, Mapped, Options
<1>6. HeldOnce'
  BY DEF OneHolder, HeldOnce
<1> QED
  BY <1>4, <1>5, <1>6 DEF OneHolder

\* The holders over every step.
LEMMA HolderStep ==
  ASSUME ConnInv, [Next]_vars
  PROVE  OneHolder'
<1> USE DEF ConnInv, TypeOK, audioVars, stopVars, connVars, loopVars, leftVars,
        uiVars
<1>1. CASE \/ StartLoop \/ EndLoop \/ CreateFails \/ NotifyJoin \/ StopCancel
           \/ StopWait \/ SetMuteAudio \/ ReplaceTrack \/ RefuseTrack
           \/ UNCHANGED vars
  <2>1. Quiet
    BY <1>1 DEF StartLoop, EndLoop, CreateFails, NotifyJoin, StopCancel,
       StopWait, SetMuteAudio, ReplaceTrack, RefuseTrack, Return, vars, Quiet
  <2> QED
    BY <2>1, QuietHolders
<1>2. ASSUME NEW i \in PeerIDs, PeerJoined(i) \/ PeerLeft(i)
      PROVE  OneHolder'
  <2>1. Quiet
    BY <1>2 DEF PeerJoined, PeerLeft, LoopIdle, Quiet
  <2> QED
    BY <2>1, QuietHolders
<1>3. CASE Offer
  <2>1. Quiet
    <3>1. at = "offering" /\ at' = "idle" /\ leaving[Loop] = "no"
      BY <1>3 DEF Offer, Return, HandsFull
    <3> QED
      BY <1>3, <3>1 DEF Offer, Return, Quiet
  <2> QED
    BY <2>1, QuietHolders
<1>4. ASSUME NEW c \in ConnIDs, ConnFails(c)
      PROVE  OneHolder'
  <2>1. PICK k \in Reports :
          /\ leaver[<<k, c>>] = None
          /\ leaving' = [leaving EXCEPT ![<<k, c>>] = "due"]
    BY <1>4 DEF ConnFails
  <2>2. leaving[<<k, c>>] = "no"
    BY <2>1, CallersDiffer, MeshAssumption DEF HandsFull
  <2>3. \A g \in Goroutines : leaving'[g] = "closing" <=> leaving[g] = "closing"
    BY <2>1, <2>2
  <2>4. Quiet
    BY <1>4, <2>3 DEF ConnFails, Quiet
  <2> QED
    BY <2>4, QuietHolders
<1>5. ASSUME NEW g \in Goroutines, NotifyLeave(g)
      PROVE  OneHolder'
  <2>1. Quiet
    BY <1>5 DEF NotifyLeave, Quiet
  <2> QED
    BY <2>1, QuietHolders
<1>6. CASE CreateConn
  BY <1>6, CreateHolders
<1>7. CASE InsertPeer
  BY <1>7, InsertHolders
<1>8. ASSUME NEW g \in Goroutines, TakePeer(g)
      PROVE  OneHolder'
  BY <1>8, TakeHolders
<1>9. CASE StopTake
  BY <1>9, StopTakeHolders DEF StopTake, Stopping
<1>10. CASE DiscardConn
  <2>1. /\ at = "discarding" /\ at' = "idle" /\ Close(fresh)
        /\ UNCHANGED <<peers, owner, victim, leaving, stopList>>
    BY <1>10 DEF DiscardConn, Return
  <2>2. fresh \in ConnIDs /\ Held(fresh)
    BY <2>1 DEF HandsFull, Held
  <2>3. ~Taken(fresh) /\ fresh \notin stopList
    BY <2>1, <2>2 DEF OneHolder, HeldOnce, Carried
  <2>4. \A d \in ConnIDs : /\ Carried(d)' <=> Carried(d) /\ d # fresh
                           /\ Taken(d)' <=> Taken(d) /\ d # fresh
                           /\ d \in stopList' <=> d \in stopList /\ d # fresh
    BY <2>1, <2>3 DEF Carried, Taken
  <2> QED
    BY <2>1, <2>2, <2>4, CloseHolders
<1>11. ASSUME NEW g \in Goroutines, CloseTaken(g)
       PROVE  OneHolder'
  <2> DEFINE c == victim[g]
  <2>1. /\ leaving[g] = "closing" /\ Close(c)
        /\ leaving' = [leaving EXCEPT ![g] = "notifying"]
        /\ UNCHANGED <<peers, owner, fresh, cur, victim, at, stopList>>
    BY <1>11 DEF CloseTaken
  <2>2. c \in ConnIDs /\ Taken(c)
    BY <2>1 DEF HandsFull, Taken
  <2>3. Held(c) /\ ~Carried(c) /\ c \notin stopList
    BY <2>2 DEF OneHolder, HeldOnce, Held, Taken
  <2>4. \A h \in Goroutines : leaving'[h] = "closing" <=> leaving[h] =
     "closing" /\ h # g
    BY <2>1
  <2>5. \A d \in ConnIDs : Taken(d)' <=> Taken(d) /\ d # c
    BY <2>1, <2>4 DEF Taken, OneHolder, HeldOnce
  <2>6. \A d \in ConnIDs : /\ Carried(d)' <=> Carried(d) /\ d # c
                           /\ d \in stopList' <=> d \in stopList /\ d # c
    BY <2>1, <2>3 DEF Carried
  <2> HIDE DEF c
  <2> QED
    BY <2>1, <2>2, <2>3, <2>4, <2>5, <2>6, CloseHolders
<1>12. CASE StopClose
  <2>1. PICK c \in stopList : Close(c) /\ stopList' = stopList \ {c}
    BY <1>12 DEF StopClose
  <2>2. UNCHANGED <<peers, owner, fresh, cur, victim, at, leaving>>
    BY <1>12 DEF StopClose
  <2>3. c \in ConnIDs /\ Held(c) /\ ~Taken(c) /\ ~Carried(c)
    BY DEF OneHolder, HeldOnce, Held
  <2>4. \A d \in ConnIDs : /\ Carried(d)' <=> Carried(d) /\ d # c
                           /\ Taken(d)' <=> Taken(d) /\ d # c
                           /\ d \in stopList' <=> d \in stopList /\ d # c
    BY <2>1, <2>2, <2>3 DEF Carried, Taken
  <2> QED
    BY <2>1, <2>2, <2>3, <2>4, CloseHolders
<1> QED
  BY <1>1, <1>2, <1>3, <1>4, <1>5, <1>6, <1>7, <1>8, <1>9, <1>10, <1>11, <1>12
  DEF Next, LoopStep, LeftStep, StopStep, Finished

----------------------------------------------------------------------------
\* The theorems about connections.

\* Every step keeps the invariant of connections.
LEMMA ConnStep == ConnInv /\ [Next]_vars => ConnInv'
<1> SUFFICES ASSUME ConnInv, [Next]_vars PROVE ConnInv'
  OBVIOUS
<1>1. TypeOK /\ HandsFull /\ OneHolder /\ Stopping /\ HeldIsOpen
  BY DEF ConnInv, OneHolder
<1> QED
  BY <1>1, TypeStep, HandsStep, HolderStep, StoppingStep DEF ConnInv

\* Before Start nobody holds anything.
LEMMA ConnInit == Init => ConnInv
<1> SUFFICES ASSUME Init PROVE ConnInv
  OBVIOUS
<1> USE MeshAssumption DEF Init
<1>1. TypeOK
  <2>1. 0 \in 0..MaxToggles /\ 0 \in 0..2
    OBVIOUS
  <2>2. /\ peers \in [PeerIDs -> Options(ConnIDs)]
        /\ owner \in [ConnIDs -> Options(PeerIDs)]
        /\ leaver \in [Goroutines -> Options(PeerIDs)]
        /\ victim \in [Goroutines -> Options(ConnIDs)]
        /\ cur \in Options(PeerIDs) /\ fresh \in Options(ConnIDs)
    BY DEF Options
  <2>3. /\ conn \in [ConnIDs -> {"unused", "open", "closed"}]
        /\ sender \in [ConnIDs -> 0..MaxToggles]
        /\ announced \in [PeerIDs -> Options(0..2)]
        /\ leaving \in [Goroutines -> {"no", "due", "closing", "notifying"}]
    BY <2>1 DEF Options
  <2> QED
    BY <2>1, <2>2, <2>3 DEF TypeOK
<1>2. HandsFull /\ Stopping
  BY DEF HandsFull, Stopping, Goroutines
<1>3. OneHolder
  BY DEF OneHolder, OpenIsHeld, MapIsOpen, HeldIsOpen, HeldOnce, Held, Carried,
     Taken, Mapped
<1> QED
  BY <1>1, <1>2, <1>3 DEF ConnInv

\* So it holds throughout.
LEMMA ConnInvariant == Spec => []ConnInv
  BY ConnInit, ConnStep, PTL DEF Spec

\* Every variable of the mesh keeps its type.
THEOREM MeshTypeCorrect == Spec => []TypeOK
<1>1. ConnInv => TypeOK
  BY DEF ConnInv
<1> QED
  BY <1>1, ConnInvariant, PTL

\* No connection is orphaned and none is closed under the map, however many
\* peers come and go while Stop, the loop and the callbacks interleave.
THEOREM OpenConnsAlwaysOwned == Spec => []OpenConnsOwned
<1>1. ASSUME ConnInv PROVE OpenConnsOwned
  <2> USE <1>1 DEF ConnInv
  <2>1. \A c \in ConnIDs :
          conn[c] = "open" => Held(c) \/ \E i \in PeerIDs : peers[i] = c
    BY DEF OneHolder, OpenIsHeld, Mapped
  <2>2. \A i \in PeerIDs :
          peers[i] # None => conn[peers[i]] = "open" /\ owner[peers[i]] = i
    BY DEF OneHolder, MapIsOpen
  <2>3. ASSUME stop = "stopped"
        PROVE  /\ \A i \in PeerIDs : peers[i] = None
               /\ \A c \in ConnIDs :
                    conn[c] = "open" =>
                      \/ phase = "initial" /\ fresh = c
                      \/ \E g \in Goroutines :
                           leaving[g] = "closing" /\ victim[g] = c
    <3>1. /\ stopList = {} /\ (at # "idle" => phase = "initial")
          /\ \A i \in PeerIDs : peers[i] = None
      BY <2>3 DEF Stopping
    <3>2. None \notin ConnIDs
      BY MeshAssumption DEF ConnIDs
    <3> QED
      BY <2>1, <3>1, <3>2 DEF Held
  <2> QED
    BY <2>1, <2>2, <2>3 DEF OpenConnsOwned
<1> QED
  BY <1>1, ConnInvariant, PTL

----------------------------------------------------------------------------
\* Audio: the track of every peer over a step.

\* SetMuteAudio lists the whole map when it changes the track, so what is out
\* of step is listed or was missed.
LEMMA TunedStep ==
  ASSUME ConnInv, Tuned, [Next]_vars
  PROVE  Tuned'
<1> USE MeshAssumption DEF TypeOK, Options, HandsFull, MapIsOpen, OneHolder,
        ConnInv, Tuned, audioVars, stopVars, connVars, loopVars, leftVars,
        uiVars
<1>1. CASE StartLoop
  BY <1>1 DEF StartLoop, LoopIdle
<1>2. CASE EndLoop
  BY <1>2 DEF EndLoop, LoopIdle
<1>3. ASSUME NEW i \in PeerIDs, PeerJoined(i) PROVE Tuned'
  BY <1>3 DEF PeerJoined, LoopIdle
<1>4. CASE CreateConn
  BY <1>4 DEF CreateConn
<1>5. CASE CreateFails
  BY <1>5 DEF CreateFails, Return
<1>6. CASE InsertPeer
  BY <1>6 DEF InsertPeer
<1>7. CASE DiscardConn
  BY <1>7 DEF DiscardConn, Close, Return
<1>8. CASE NotifyJoin
  BY <1>8 DEF NotifyJoin
<1>9. CASE Offer
  BY <1>9 DEF Offer, Return
<1>10. ASSUME NEW i \in PeerIDs, PeerLeft(i) PROVE Tuned'
  BY <1>10 DEF PeerLeft, LoopIdle
<1>11. ASSUME NEW c \in ConnIDs, ConnFails(c) PROVE Tuned'
  BY <1>11 DEF ConnFails
<1>12. ASSUME NEW g \in Goroutines, TakePeer(g) PROVE Tuned'
  BY <1>12 DEF TakePeer
<1>13. ASSUME NEW g \in Goroutines, CloseTaken(g) PROVE Tuned'
  BY <1>13 DEF CloseTaken, Close
<1>14. ASSUME NEW g \in Goroutines, NotifyLeave(g) PROVE Tuned'
  BY <1>14 DEF NotifyLeave
<1>15. CASE StopCancel
  BY <1>15 DEF StopCancel
<1>16. CASE StopTake
  BY <1>16 DEF StopTake
<1>17. CASE StopClose
  BY <1>17 DEF StopClose, Close
<1>18. CASE StopWait
  BY <1>18 DEF StopWait
<1>19. CASE SetMuteAudio
  BY <1>19 DEF SetMuteAudio
<1>20. CASE ReplaceTrack
  BY <1>20 DEF ReplaceTrack
<1>21. CASE RefuseTrack
  BY <1>21 DEF RefuseTrack
<1>22. CASE UNCHANGED vars
  BY <1>22 DEF vars
<1> QED
  BY <1>1, <1>2, <1>3, <1>4, <1>5, <1>6, <1>7, <1>8, <1>9, <1>10, <1>11,
     <1>12, <1>13, <1>14, <1>15, <1>16, <1>17, <1>18, <1>19, <1>20, <1>21,
     <1>22
  DEF Next, LoopStep, LeftStep, StopStep, Finished

\* And the tracks are in step from the start: the map is empty.
LEMMA TunedInvariant == Spec => [](ConnInv /\ Tuned)
<1>1. Init => Tuned
  BY DEF Init, Tuned
<1>2. ConnInv /\ Tuned /\ [Next]_vars => Tuned'
  BY TunedStep
<1> QED
  BY <1>1, <1>2, ConnInvariant, PTL DEF Spec

\* Once SetMuteAudio is done every peer is sent the track the user chose, but
\* for a connection that was made before the change and inserted after it, or
\* one whose sender refused the track.
THEOREM AudioAlwaysFollowsMute == Spec => []AudioFollowsMute
<1>1. ConnInv /\ Tuned => AudioFollowsMute
  BY DEF Tuned, AudioFollowsMute
<1> QED
  BY <1>1, TunedInvariant, PTL

----------------------------------------------------------------------------
\* The UI: who calls handlePeerLeft, and the notices of a peer.

\* A callback has the peer of a connection that was made before the one
\* handlePeerJoined works on, which nobody has negotiated.
LEMMA CallersStep ==
  ASSUME ConnInv, Callers, [Next]_vars
  PROVE  Callers'
<1> USE MeshAssumption DEF TypeOK, Options, HandsFull, MapIsOpen, OneHolder,
        ConnInv, Callers, audioVars, stopVars, connVars, loopVars, leftVars,
        uiVars
<1>1. CASE StartLoop
  BY <1>1 DEF StartLoop, LoopIdle
<1>2. CASE EndLoop
  BY <1>2 DEF EndLoop, LoopIdle
<1>3. ASSUME NEW i \in PeerIDs, PeerJoined(i) PROVE Callers'
  BY <1>3 DEF PeerJoined, LoopIdle
<1>4. CASE CreateConn
  <2>1. PICK c \in ConnIDs :
          /\ conn[c] = "unused" /\ conn' = [conn EXCEPT ![c] = "open"]
          /\ owner' = [owner EXCEPT ![c] = cur] /\ fresh' = c
    BY <1>4 DEF CreateConn
  <2>2. /\ at' = "inserting"
        /\ UNCHANGED <<cur, negotiated, leaving, leaver, victim>>
    BY <1>4 DEF CreateConn
  <2>3. ASSUME NEW k \in Reports \cup {"closed"}, NEW d \in ConnIDs,
               leaver[<<k, d>>] # None
        PROVE  d # c
    <3>1. <<k, d>> \in Goroutines
      BY CallersDiffer
    <3> QED
      BY <2>1, <2>3, <3>1
  <2>4. \A g \in Goroutines :
          leaving[g] \in {"closing", "notifying"} => victim[g] # c
    <3>1. \A g \in Goroutines :
            leaving[g] = "closing" => conn[victim[g]] = "open"
      BY DEF HeldIsOpen, Held
    <3> QED
      BY <2>1, <3>1
  <2> QED
    BY <2>1, <2>2, <2>3, <2>4
<1>5. CASE CreateFails
  BY <1>5 DEF CreateFails, Return
<1>6. CASE InsertPeer
  BY <1>6 DEF InsertPeer
<1>7. CASE DiscardConn
  BY <1>7 DEF DiscardConn, Close, Return
<1>8. CASE NotifyJoin
  BY <1>8 DEF NotifyJoin
<1>9. CASE Offer
  <2>1. Loop \in Goroutines /\ leaving[Loop] = "no"
    BY <1>9 DEF Offer, Loop, Goroutines
  <2>2. \A g \in Goroutines : g # Loop => leaver'[g] = leaver[g]
    BY <1>9 DEF Offer
  <2>3. ASSUME NEW k \in Reports \cup {"closed"}, NEW c \in ConnIDs
        PROVE  leaver'[<<k, c>>] = leaver[<<k, c>>]
    <3>1. <<k, c>> \in Goroutines /\ <<k, c>> # Loop
      BY CallersDiffer
    <3> QED
      BY <2>2, <3>1
  <2> QED
    BY <1>9, <2>1, <2>3 DEF Offer, Return
<1>10. ASSUME NEW i \in PeerIDs, PeerLeft(i) PROVE Callers'
  <2>1. \A g \in Goroutines : g # Loop => leaver'[g] = leaver[g]
    BY <1>10 DEF PeerLeft
  <2>2. ASSUME NEW k \in Reports \cup {"closed"}, NEW c \in ConnIDs
        PROVE  leaver'[<<k, c>>] = leaver[<<k, c>>]
    <3>1. <<k, c>> \in Goroutines /\ <<k, c>> # Loop
      BY CallersDiffer
    <3> QED
      BY <2>1, <3>1
  <2> QED
    BY <1>10, <2>2 DEF PeerLeft, LoopIdle
<1>11. ASSUME NEW c \in ConnIDs, ConnFails(c) PROVE Callers'
  <2>1. PICK k \in Reports :
          /\ leaver[<<k, c>>] = None
          /\ leaving' = [leaving EXCEPT ![<<k, c>>] = "due"]
          /\ leaver' = [leaver EXCEPT ![<<k, c>>] = owner[c]]
    BY <1>11 DEF ConnFails
  <2>2. <<k, c>> \in Goroutines /\ leaving[<<k, c>>] = "no"
    BY <2>1, CallersDiffer
  <2> QED
    BY <1>11, <2>1, <2>2, CallersDiffer DEF ConnFails
<1>12. ASSUME NEW g \in Goroutines, TakePeer(g) PROVE Callers'
  <2>1. PICK i \in PeerIDs :
          /\ Due(g, i)
          /\ leaver' = [leaver EXCEPT ![g] = i]
          /\ victim' = [victim EXCEPT ![g] = peers[i]]
          /\ leaving' = [leaving EXCEPT ![g] = IF peers[i] = None THEN "no"
                                               ELSE "closing"]
          /\ UNCHANGED <<conn, owner, negotiated, at, cur, fresh>>
    BY <1>12 DEF TakePeer
  <2>2. ASSUME NEW k \in Reports \cup {"closed"}, NEW c \in ConnIDs,
               g = <<k, c>>
        PROVE  i = owner[c] /\ (c \in negotiated \/ conn[c] = "closed")
    BY <2>1, <2>2 DEF Due
  <2>3. peers[i] # None => owner[peers[i]] = i
    OBVIOUS
  <2> QED
    BY <2>1, <2>2, <2>3
<1>13. ASSUME NEW g \in Goroutines, CloseTaken(g) PROVE Callers'
  BY <1>13 DEF CloseTaken, Close
<1>14. ASSUME NEW g \in Goroutines, NotifyLeave(g) PROVE Callers'
  BY <1>14 DEF NotifyLeave
<1>15. CASE StopCancel
  BY <1>15 DEF StopCancel
<1>16. CASE StopTake
  BY <1>16 DEF StopTake
<1>17. CASE StopClose
  BY <1>17 DEF StopClose, Close
<1>18. CASE StopWait
  BY <1>18 DEF StopWait
<1>19. CASE SetMuteAudio
  BY <1>19 DEF SetMuteAudio
<1>20. CASE ReplaceTrack
  BY <1>20 DEF ReplaceTrack
<1>21. CASE RefuseTrack
  BY <1>21 DEF RefuseTrack
<1>22. CASE UNCHANGED vars
  BY <1>22 DEF vars
<1> QED
  BY <1>1, <1>2, <1>3, <1>4, <1>5, <1>6, <1>7, <1>8, <1>9, <1>10, <1>11,
     <1>12, <1>13, <1>14, <1>15, <1>16, <1>17, <1>18, <1>19, <1>20, <1>21,
     <1>22
  DEF Next, LoopStep, LeftStep, StopStep, Finished

\* A peer whose earlier connection is still being removed when a new one is
\* inserted has two: the one inserted is open, in nobody else's hands.
LEMMA InsertOverlaps ==
  ASSUME ConnInv, Callers, InsertPeer,
         NEW g \in Goroutines, Removing(g, cur)
  PROVE  TwoMade(cur)
<1> USE DEF ConnInv
<1>1. at = "inserting" /\ fresh \in ConnIDs /\ owner[fresh] = cur
  BY DEF InsertPeer, HandsFull, Callers
<1>2. Carried(fresh) /\ Held(fresh)
  BY <1>1 DEF Carried, Held
<1>3. ~Taken(fresh) /\ conn[fresh] = "open"
  BY <1>1, <1>2 DEF OneHolder, HeldOnce, HeldIsOpen
<1>4. victim[g] \in ConnIDs /\ owner[victim[g]] = cur
  BY DEF Removing, Callers, HandsFull
<1>5. victim[g] # fresh
  BY <1>3 DEF Removing, Callers, Taken
<1> QED
  BY <1>1, <1>4, <1>5 DEF TwoMade

\* One that is removed before its OnPeerJoin has two as well: the callback
\* belongs to an earlier connection, as nobody has negotiated this one yet.
LEMMA TakeOverlaps ==
  ASSUME ConnInv, Callers, Overlapping, NEW g \in Goroutines, Due(g, cur),
         at = "notifying", peers[cur] # None, cur \notin overlapped
  PROVE  TwoMade(cur)
<1> USE DEF ConnInv
<1>1. /\ cur \in PeerIDs /\ fresh \in ConnIDs /\ owner[fresh] = cur
      /\ fresh \notin negotiated /\ leaving[Loop] = "no"
  BY DEF HandsFull, Callers
<1>2. conn[fresh] = "open"
  BY <1>1 DEF Overlapping, OneHolder, MapIsOpen
<1>3. PICK c \in ConnIDs :
        owner[c] = cur /\ (c \in negotiated \/ conn[c] = "closed")
  <2>1. CASE leaving[g] = "due" /\ leaver[g] = cur
    <3>1. PICK k \in Reports \cup {"closed"}, c \in ConnIDs : g = <<k, c>>
      BY <1>1, <2>1 DEF Goroutines, Loop
    <3> QED
      BY <1>1, <2>1, <3>1, MeshAssumption DEF Callers
  <2> QED
    BY <2>1 DEF Due
<1> QED
  BY <1>1, <1>2, <1>3 DEF TwoMade

\* Whatever was made stays made.
LEMMA MadeStays ==
  ASSUME ConnInv, Callers, [Next]_vars, NEW i \in PeerIDs, TwoMade(i)
  PROVE  TwoMade(i)'
<1>1. owner' = owner \/ CreateConn
  BY DEF Next, LoopStep, LeftStep, StopStep, Finished, StartLoop, EndLoop,
     CreateFails, InsertPeer, DiscardConn, NotifyJoin, Offer, PeerJoined,
     PeerLeft, ConnFails, TakePeer, CloseTaken, NotifyLeave,
     StopCancel, StopTake, StopClose, StopWait, SetMuteAudio, ReplaceTrack,
     RefuseTrack, connVars, vars
<1>2. CASE owner' = owner
  BY <1>2 DEF TwoMade
<1>3. CASE CreateConn
  <2>1. PICK c \in ConnIDs :
          conn[c] = "unused" /\ owner' = [owner EXCEPT ![c] = cur]
    BY <1>3 DEF CreateConn
  <2>2. owner[c] # i
    BY <2>1, MeshAssumption DEF Callers
  <2> QED
    BY <2>1, <2>2 DEF TwoMade
<1> QED
  BY <1>1, <1>2, <1>3

\* So notices overlap only for a peer with two connections.
LEMMA OverlapStep ==
  ASSUME ConnInv, Callers, Overlapping, [Next]_vars
  PROVE  Overlapping'
<1> USE DEF audioVars, stopVars, connVars, loopVars, leftVars, uiVars
<1> DEFINE Order ==
      at = "notifying" /\ cur \notin overlapped /\ peers[cur] # None
        => peers[cur] = fresh
<1>1. \A i \in overlapped : i \in PeerIDs /\ TwoMade(i)'
  BY MadeStays DEF Overlapping, ConnInv, TypeOK
<1>2. CASE InsertPeer
  <2>1. cur \in PeerIDs /\ peers \in [PeerIDs -> Options(ConnIDs)]
    BY <1>2 DEF InsertPeer, ConnInv, HandsFull, TypeOK
  <2>2. ASSUME NEW i \in PeerIDs, i = cur,
               NEW g \in Goroutines, Removing(g, cur)
        PROVE  TwoMade(i)'
    <3>1. TwoMade(i)
      BY <1>2, <2>2, InsertOverlaps
    <3> QED
      BY <3>1, MadeStays
  <2>3. \A i \in overlapped' : TwoMade(i)'
    BY <1>1, <1>2, <2>1, <2>2 DEF InsertPeer
  <2>4. Order'
    BY <1>2, <2>1 DEF InsertPeer
  <2> QED
    BY <2>3, <2>4 DEF Overlapping
<1>3. ASSUME NEW g \in Goroutines, TakePeer(g)
      PROVE  Overlapping'
  <2>1. peers \in [PeerIDs -> Options(ConnIDs)]
    BY DEF ConnInv, TypeOK
  <2>2. PICK i \in PeerIDs :
          /\ Due(g, i)
          /\ peers' = [peers EXCEPT ![i] = None] /\ UNCHANGED <<at, cur, fresh>>
          /\ overlapped' = IF peers[i] # None /\ at = "notifying" /\ cur = i
                           THEN overlapped \cup {i} ELSE overlapped
    BY <1>3 DEF TakePeer
  <2>3. ASSUME i \in overlapped', i \notin overlapped
        PROVE  TwoMade(i)'
    <3>1. at = "notifying" /\ cur = i /\ peers[cur] # None
      BY <2>2, <2>3
    <3>2. TwoMade(i)
      BY <2>2, <2>3, <3>1, TakeOverlaps
    <3> QED
      BY <3>2, MadeStays
  <2>4. \A j \in overlapped' : TwoMade(j)'
    BY <1>1, <2>2, <2>3
  <2>5. Order'
    <3>1. at = "notifying" => cur \in PeerIDs
      BY DEF ConnInv, HandsFull
    <3> QED
      BY <2>1, <2>2, <3>1 DEF Overlapping
  <2> QED
    BY <2>4, <2>5 DEF Overlapping
<1>4. CASE StopTake
  <2>1. Order'
    <3>1. at = "notifying" => cur \in PeerIDs
      BY DEF ConnInv, HandsFull
    <3> QED
      BY <1>4, <3>1 DEF StopTake
  <2>2. overlapped' = overlapped
    BY <1>4 DEF StopTake
  <2> QED
    BY <1>1, <2>1, <2>2 DEF Overlapping
<1>5. ASSUME UNCHANGED <<peers, overlapped>>,
             at' = "notifying" => UNCHANGED <<at, cur, fresh>>
      PROVE  Overlapping'
  BY <1>1, <1>5 DEF Overlapping
<1>6. CASE StartLoop \/ EndLoop \/ CreateConn \/ CreateFails \/ DiscardConn
           \/ NotifyJoin \/ Offer
  BY <1>5, <1>6 DEF StartLoop, EndLoop, CreateConn, CreateFails, DiscardConn,
     NotifyJoin, Offer, Return
<1>7. ASSUME NEW i \in PeerIDs, PeerJoined(i) \/ PeerLeft(i)
      PROVE  Overlapping'
  BY <1>5, <1>7 DEF PeerJoined, PeerLeft, LoopIdle
<1>8. ASSUME NEW c \in ConnIDs, ConnFails(c)
      PROVE  Overlapping'
  BY <1>5, <1>8 DEF ConnFails
<1>9. ASSUME NEW g \in Goroutines, CloseTaken(g) \/ NotifyLeave(g)
      PROVE  Overlapping'
  BY <1>5, <1>9 DEF CloseTaken, NotifyLeave
<1>10. CASE StopCancel \/ StopClose \/ StopWait \/ SetMuteAudio
            \/ ReplaceTrack \/ RefuseTrack \/ UNCHANGED vars
  BY <1>5, <1>10 DEF StopCancel, StopClose, StopWait, SetMuteAudio,
     ReplaceTrack, RefuseTrack, vars
<1> QED
  BY <1>2, <1>3, <1>4, <1>6, <1>7, <1>8, <1>9, <1>10
  DEF Next, LoopStep, LeftStep, StopStep, Finished

----------------------------------------------------------------------------
\* The UI: the tiles over a step.

\* Where notices do not overlap, a tile without a peer belongs to a goroutine
\* that has yet to remove it, and a peer without a tile to handlePeerJoined,
\* which has yet to add it.
LEMMA TilesStep ==
  ASSUME ConnInv, Tiles, stop' = "no", [Next]_vars
  PROVE  Tiles'
<1> USE DEF audioVars, stopVars, connVars, loopVars, leftVars, uiVars
<1>1. /\ peers \in [PeerIDs -> Options(ConnIDs)] /\ ui \subseteq PeerIDs
      /\ leaving \in [Goroutines -> {"no", "due", "closing", "notifying"}]
      /\ leaver \in [Goroutines -> Options(PeerIDs)]
      /\ None \notin ConnIDs
  BY MeshAssumption DEF ConnInv, TypeOK, ConnIDs
<1>2. ASSUME UNCHANGED <<peers, ui, overlapped>>,
             (at = "notifying" \/ at' = "notifying") => UNCHANGED <<at, cur>>,
             \A g \in Goroutines, i \in PeerIDs :
               Removing(g, i)' <=> Removing(g, i)
      PROVE  Tiles'
  BY <1>2 DEF Tiles
<1>3. CASE StartLoop \/ EndLoop \/ CreateConn \/ CreateFails \/ DiscardConn
  BY <1>2, <1>3 DEF StartLoop, EndLoop, CreateConn, CreateFails, DiscardConn,
     LoopIdle, Return, Removing
<1>4. ASSUME NEW i \in PeerIDs, PeerJoined(i) \/ PeerLeft(i)
      PROVE  Tiles'
  <2>1. leaving[Loop] = "no" /\ at = "idle" /\ at' # "notifying"
    BY <1>4 DEF PeerJoined, PeerLeft, LoopIdle
  <2>2. \A g \in Goroutines, j \in PeerIDs : Removing(g, j)' <=> Removing(g, j)
    BY <1>1, <1>4, <2>1 DEF PeerJoined, PeerLeft, Removing
  <2> QED
    BY <1>2, <1>4, <2>1, <2>2 DEF PeerJoined, PeerLeft
<1>5. ASSUME NEW c \in ConnIDs, ConnFails(c)
      PROVE  Tiles'
  <2>1. PICK k \in Reports :
          /\ leaver[<<k, c>>] = None
          /\ leaving' = [leaving EXCEPT ![<<k, c>>] = "due"]
          /\ leaver' = [leaver EXCEPT ![<<k, c>>] = owner[c]]
    BY <1>5 DEF ConnFails
  <2>2. leaving[<<k, c>>] = "no"
    BY <1>1, <2>1, CallersDiffer, MeshAssumption DEF ConnInv, HandsFull
  <2>3. \A g \in Goroutines, i \in PeerIDs : Removing(g, i)' <=> Removing(g, i)
    BY <1>1, <2>1, <2>2 DEF Removing
  <2> QED
    BY <1>2, <1>5, <2>3 DEF ConnFails
<1>6. CASE InsertPeer
  <2>1. /\ at = "inserting" /\ UNCHANGED <<cur, ui, leaving, leaver>>
        /\ cur \in PeerIDs /\ fresh \in ConnIDs
    BY <1>6 DEF InsertPeer, ConnInv, HandsFull
  <2>2. CASE at' = "discarding" /\ UNCHANGED <<peers, overlapped>>
    BY <1>2, <2>1, <2>2 DEF Removing
  <2>3. CASE /\ at' = "notifying" /\ peers' = [peers EXCEPT ![cur] = fresh]
             /\ overlapped' = IF \E g \in Goroutines : Removing(g, cur)
                              THEN overlapped \cup {cur} ELSE overlapped
    <3>1. \A g \in Goroutines, i \in PeerIDs : Removing(g, i)' <=> Removing(g, i)
      BY <2>1 DEF Removing
    <3>2. ASSUME NEW i \in PeerIDs, i \notin overlapped', i # cur
          PROVE  peers'[i] = peers[i] /\ i \notin overlapped
      BY <1>1, <2>1, <2>3, <3>2
    <3>3. cur \notin overlapped' =>
            /\ \A g \in Goroutines : ~Removing(g, cur)
            /\ peers'[cur] # None
      BY <1>1, <2>1, <2>3
    <3> QED
      BY <1>1, <2>1, <2>3, <3>1, <3>2, <3>3 DEF Tiles
  <2> QED
    BY <1>6, <2>2, <2>3 DEF InsertPeer
<1>7. CASE NotifyJoin
  <2>1. /\ at = "notifying" /\ at' = "offering" /\ ui' = ui \cup {cur}
        /\ UNCHANGED <<peers, leaving, leaver, overlapped>>
    BY <1>7 DEF NotifyJoin
  <2>2. \A g \in Goroutines, i \in PeerIDs : Removing(g, i)' <=> Removing(g, i)
    BY <2>1 DEF Removing
  <2> QED
    BY <2>1, <2>2 DEF Tiles
<1>8. CASE Offer
  <2>1. at = "offering" /\ at' = "idle" /\ leaving[Loop] = "no"
    BY <1>8 DEF Offer, Return, ConnInv, HandsFull
  <2>2. \A g \in Goroutines, i \in PeerIDs : Removing(g, i)' <=> Removing(g, i)
    BY <1>1, <1>8, <2>1 DEF Offer, Removing
  <2> QED
    BY <1>2, <1>8, <2>1, <2>2 DEF Offer
<1>9. ASSUME NEW g \in Goroutines, TakePeer(g)
      PROVE  Tiles'
  <2>1. PICK j \in PeerIDs :
          /\ Due(g, j)
          /\ peers' = [peers EXCEPT ![j] = None]
          /\ leaver' = [leaver EXCEPT ![g] = j]
          /\ leaving' = [leaving EXCEPT ![g] = IF peers[j] = None THEN "no"
                                               ELSE "closing"]
          /\ overlapped' = IF peers[j] # None /\ at = "notifying" /\ cur = j
                           THEN overlapped \cup {j} ELSE overlapped
          /\ UNCHANGED <<at, cur, ui>>
    BY <1>9 DEF TakePeer
  <2>2. leaving[g] \in {"no", "due"}
    BY <2>1, DueIdle DEF ConnInv
  <2>3. CASE peers[j] = None
    <3>1. peers' = peers /\ overlapped' = overlapped
      BY <1>1, <2>1, <2>3
    <3>2. \A h \in Goroutines, i \in PeerIDs : Removing(h, i)' <=> Removing(h, i)
      BY <1>1, <2>1, <2>2, <2>3 DEF Removing
    <3> QED
      BY <1>2, <2>1, <3>1, <3>2
  <2>4. CASE peers[j] # None
    <3>1. \A h \in Goroutines, i \in PeerIDs :
            Removing(h, i)' <=> Removing(h, i) \/ (h = g /\ i = j)
      BY <1>1, <2>1, <2>2, <2>4 DEF Removing
    <3>2. \A i \in PeerIDs : peers'[i] = IF i = j THEN None ELSE peers[i]
      BY <1>1, <2>1
    <3> QED
      BY <2>1, <2>4, <3>1, <3>2 DEF Tiles
  <2> QED
    BY <2>3, <2>4
<1>10. ASSUME NEW g \in Goroutines, CloseTaken(g)
       PROVE  Tiles'
  <2>1. \A h \in Goroutines, i \in PeerIDs : Removing(h, i)' <=> Removing(h, i)
    BY <1>1, <1>10 DEF CloseTaken, Removing
  <2> QED
    BY <1>2, <1>10, <2>1 DEF CloseTaken
<1>11. ASSUME NEW g \in Goroutines, NotifyLeave(g)
       PROVE  Tiles'
  <2>1. /\ leaving[g] = "notifying" /\ ui' = ui \ {leaver[g]}
        /\ leaving' = [leaving EXCEPT ![g] = "no"]
        /\ UNCHANGED <<peers, at, cur, leaver, overlapped>>
    BY <1>11 DEF NotifyLeave
  <2>2. Removing(g, leaver[g])
    BY <2>1 DEF Removing
  <2>3. \A h \in Goroutines, i \in PeerIDs :
          Removing(h, i)' <=> Removing(h, i) /\ h # g
    BY <1>1, <2>1 DEF Removing
  <2>4. \A i \in PeerIDs : Removing(g, i) => i = leaver[g]
    BY DEF Removing
  <2> QED
    BY <2>1, <2>2, <2>3, <2>4 DEF Tiles
<1>12. CASE StopWait \/ SetMuteAudio \/ ReplaceTrack \/ RefuseTrack
            \/ StopClose \/ UNCHANGED vars
  BY <1>2, <1>12 DEF StopWait, SetMuteAudio, ReplaceTrack, RefuseTrack,
     StopClose, vars, Removing
<1>13. CASE StopCancel \/ StopTake
  BY <1>13 DEF StopCancel, StopTake
<1> QED
  BY <1>3, <1>4, <1>5, <1>6, <1>7, <1>8, <1>9, <1>10, <1>11, <1>12, <1>13
  DEF Next, LoopStep, LeftStep, StopStep, Finished

\* Until Stop is called, which removes peers without telling the UI, the tiles
\* follow the map from the start.
LEMMA UIInvariant == Spec => [](ConnInv /\ UIInv)
<1>1. Init => UIInv
  <2> SUFFICES ASSUME Init PROVE Callers /\ Overlapping /\ Tiles
    BY DEF UIInv
  <2>1. Callers
    BY CallersDiffer DEF Init, Callers
  <2> QED
    BY <2>1 DEF Init, Overlapping, Tiles, Removing
<1>2. ConnInv /\ UIInv /\ [Next]_vars => UIInv'
  <2> SUFFICES ASSUME ConnInv, UIInv, [Next]_vars PROVE UIInv'
    OBVIOUS
  <2>1. stop' = "no" => stop = "no"
    BY DEF Next, LoopStep, LeftStep, StopStep, Finished, StartLoop, EndLoop,
       CreateConn, CreateFails, InsertPeer, DiscardConn, NotifyJoin, Offer,
       PeerJoined, PeerLeft, ConnFails, TakePeer, CloseTaken,
       NotifyLeave, StopCancel, StopTake, StopClose, StopWait, SetMuteAudio,
       ReplaceTrack, RefuseTrack, stopVars, vars
  <2>2. Callers' /\ Overlapping'
    BY CallersStep, OverlapStep DEF UIInv
  <2>3. stop' = "no" => Tiles'
    BY <2>1, TilesStep DEF UIInv
  <2> QED
    BY <2>2, <2>3 DEF UIInv
<1> QED
  BY <1>1, <1>2, ConnInvariant, PTL DEF Spec

\* When nothing is under way the UI has a tile for exactly the peers of the
\* map, although different goroutines tell it of the two, unlocked; but for a
\* peer two notices of which were under way at once, which has had two
\* connections, the late callbacks of the first meeting the second.
THEOREM UIAlwaysFollowsMap == Spec => []UIFollowsMap
<1>1. ASSUME ConnInv, UIInv PROVE UIFollowsMap
  <2>1. ASSUME stop = "no", LoopIdle, \A g \in Goroutines : leaving[g] = "no",
               NEW i \in PeerIDs \ overlapped
        PROVE  i \in ui <=> peers[i] # None
    <3>1. at = "idle" /\ \A g \in Goroutines : ~Removing(g, i)
      BY <2>1 DEF LoopIdle, Removing
    <3> QED
      BY <1>1, <2>1, <3>1 DEF UIInv, Tiles
  <2>2. \A i \in overlapped :
          \E c, d \in ConnIDs : c # d /\ owner[c] = i /\ owner[d] = i
    BY <1>1 DEF UIInv, Overlapping, TwoMade
  <2> QED
    BY <2>1, <2>2 DEF UIFollowsMap
<1> QED
  BY <1>1, UIInvariant, PTL

============================================================================
