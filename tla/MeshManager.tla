---------------------------- MODULE MeshManager ----------------------------
(***************************************************************************)
(* The client's mesh of peer connections (internal/rtc/mesh.go): Start and *)
(* the signaling loop create and remove peers, WebRTC callbacks remove     *)
(* them too, the terminal UI changes the audio track and stops the mesh.   *)
(* The goroutines share Peers under the manager's lock and do everything   *)
(* else, closing connections and calling the UI back included, outside it. *)
(*                                                                         *)
(* The signaling server announces a peer at most twice, in join_accepted   *)
(* and by a peer_joined that crossed it, and then, once, that it left.     *)
(* When the first connection is gone by the time the second announcement   *)
(* is handled, a second one is made, and callbacks of the first, which     *)
(* know only the peer's ID, may meet it.                                   *)
(***************************************************************************)
EXTENDS Naturals, FiniteSets

CONSTANTS PeerIDs,     \* remote peers
          Reports,     \* a connection's failed callback and disconnect timers
          MaxConns,    \* bound: peer connections created
          MaxToggles,  \* bound: times the microphone is switched
          None

ASSUME MeshAssumption ==
  /\ IsFiniteSet(PeerIDs) /\ MaxConns \in Nat /\ MaxToggles \in Nat
  /\ None \notin PeerIDs /\ None \notin Nat /\ "closed" \notin Reports

\* Peer connections in the order of their creation.
ConnIDs == 1..MaxConns

\* Goroutines that can run handlePeerLeft: the signaling loop, and for each
\* connection the callbacks and timers that give it up and the callback that
\* reports it closed.
Goroutines == {<<"loop", 0>>} \cup ((Reports \cup {"closed"}) \X ConnIDs)

Loop == <<"loop", 0>>

VARIABLES
  \* MeshManager, under its lock
  peers,       \* Peers: the connection of each remote peer
  track,       \* the track a new connection sends: 0 is the silent one
  ctxDone,     \* the manager's context is cancelled
  \* RemotePeer and its connection
  conn,        \* conn[c]: "unused", "open" or "closed"
  owner,       \* owner[c]: the peer it is for
  sender,      \* sender[c]: the track it sends
  negotiated,  \* connections whose offer or answer can be under way
  \* Start and readSignalingLoop
  phase,       \* "initial" in Start, "loop" once the loop runs, "done"
  at,          \* where handlePeerJoined stands
  cur,         \* the peer it handles
  fresh,       \* the connection it has created
  announced,   \* 0; 1 if in join_accepted; 2 after peer_joined; None: left
  \* handlePeerLeft in each goroutine
  leaving, leaver, victim,
  \* Stop
  stop, stopList,
  \* SetMuteAudio
  toggles, audioList,
  missed,      \* history: connections a SetMuteAudio did not reach
  \* CallModel
  ui,          \* peers with a tile
  overlapped   \* history: peers two notices of which were under way at once

vars == <<peers, track, ctxDone, conn, owner, sender, negotiated, phase, at,
          cur, fresh, announced, leaving, leaver, victim, stop, stopList,
          toggles, audioList, missed, ui, overlapped>>

loopVars == <<phase, at, cur, fresh, announced>>
leftVars == <<leaving, leaver, victim>>
stopVars == <<ctxDone, stop, stopList>>
audioVars == <<track, toggles, audioList, missed>>
connVars == <<conn, owner, sender, negotiated>>
uiVars == <<ui, overlapped>>

Init ==
  /\ peers = [i \in PeerIDs |-> None] /\ track = 0 /\ ctxDone = FALSE
  /\ conn = [c \in ConnIDs |-> "unused"] /\ owner = [c \in ConnIDs |-> None]
  /\ sender = [c \in ConnIDs |-> 0] /\ negotiated = {}
  /\ phase = "initial" /\ at = "idle" /\ cur = None /\ fresh = None
  /\ announced = [i \in PeerIDs |-> 0]
  /\ leaving = [g \in Goroutines |-> "no"]
  /\ leaver = [g \in Goroutines |-> None]
  /\ victim = [g \in Goroutines |-> None]
  /\ stop = "no" /\ stopList = {}
  /\ toggles = 0 /\ audioList = {} /\ missed = {}
  /\ ui = {} /\ overlapped = {}

----------------------------------------------------------------------------
\* RemotePeer.Close: once, outside the manager's lock.  Closing the
\* connection makes it report the state "closed" to its callback.
Close(c) == conn' = [conn EXCEPT ![c] = "closed"]

\* The loop is between two messages.
LoopIdle == at = "idle" /\ leaving[Loop] = "no"

----------------------------------------------------------------------------
\* Start and the signaling loop.

\* The initial peers are done; the loop starts.
StartLoop ==
  /\ phase = "initial" /\ LoopIdle
  /\ phase' = "loop"
  /\ UNCHANGED <<peers, audioVars, stopVars, connVars, at, cur, fresh,
                 announced, leftVars, uiVars>>

\* The loop sees the end of its context, or of the signaling connection.
EndLoop ==
  /\ phase = "loop" /\ LoopIdle
  /\ phase' = "done"
  /\ UNCHANGED <<peers, audioVars, stopVars, connVars, at, cur, fresh,
                 announced, leftVars, uiVars>>

\* handlePeerJoined, of join_accepted and then of peer_joined: nothing to do
\* once stopped, nor for a peer that is in the map.
PeerJoined(i) ==
  /\ LoopIdle
  /\ \/ phase = "initial" /\ announced[i] = 0
        /\ announced' = [announced EXCEPT ![i] = 1]
     \/ phase = "loop" /\ announced[i] \in {0, 1}
        /\ announced' = [announced EXCEPT ![i] = 2]
  /\ IF ctxDone \/ peers[i] # None
     THEN UNCHANGED <<at, cur>>
     ELSE at' = "creating" /\ cur' = i
  /\ UNCHANGED <<peers, audioVars, stopVars, connVars, phase, fresh, leftVars,
                 uiVars>>

\* handlePeerJoined returns.
Return == at' = "idle" /\ cur' = None /\ fresh' = None

\* createPeerConnection: the audio track is read under the lock, and the
\* connection made outside it.
CreateConn ==
  /\ at = "creating"
  /\ \E c \in ConnIDs :
       /\ conn[c] = "unused" /\ \A d \in ConnIDs : d < c => conn[d] # "unused"
       /\ conn' = [conn EXCEPT ![c] = "open"]
       /\ owner' = [owner EXCEPT ![c] = cur]
       /\ sender' = [sender EXCEPT ![c] = track]
       /\ fresh' = c
  /\ at' = "inserting"
  /\ UNCHANGED <<peers, audioVars, stopVars, negotiated, phase, cur,
                 announced, leftVars, uiVars>>

CreateFails ==
  /\ at = "creating"
  /\ Return
  /\ UNCHANGED <<peers, audioVars, stopVars, connVars, phase, announced,
                 leftVars, uiVars>>

\* An OnPeerLeave of i is still to come from goroutine g.
Removing(g, i) == leaving[g] \in {"closing", "notifying"} /\ leaver[g] = i

\* Mutant of InsertPeer: the context is not looked at again under the lock.
InsertUnchecked ==
  /\ at = "inserting"
  /\ peers' = [peers EXCEPT ![cur] = fresh]
  /\ overlapped' = IF \E g \in Goroutines : Removing(g, cur)
                   THEN overlapped \cup {cur} ELSE overlapped
  /\ at' = "notifying"
  /\ UNCHANGED <<audioVars, stopVars, connVars, phase, cur, fresh, announced,
                 leftVars, ui>>

\* The peer enters the map under the lock, unless the mesh has stopped.
InsertPeer ==
  /\ at = "inserting"
  /\ IF peers[cur] # None \/ ctxDone
     THEN at' = "discarding" /\ UNCHANGED <<peers, overlapped>>
     ELSE /\ at' = "notifying" /\ peers' = [peers EXCEPT ![cur] = fresh]
          /\ overlapped' = IF \E g \in Goroutines : Removing(g, cur)
                           THEN overlapped \cup {cur} ELSE overlapped
  /\ UNCHANGED <<audioVars, stopVars, connVars, phase, cur, fresh, announced,
                 leftVars, ui>>

\* Mutant of DiscardConn: the connection is forgotten without being closed.
DiscardOpen ==
  /\ at = "discarding"
  /\ Return
  /\ UNCHANGED <<peers, audioVars, stopVars, connVars, phase, announced,
                 leftVars, uiVars>>

DiscardConn ==
  /\ at = "discarding"
  /\ Close(fresh)
  /\ Return
  /\ UNCHANGED <<peers, audioVars, stopVars, owner, sender, negotiated, phase,
                 announced, leftVars, uiVars>>

\* OnPeerJoin.
NotifyJoin ==
  /\ at = "notifying"
  /\ ui' = ui \cup {cur}
  /\ at' = "offering"
  /\ UNCHANGED <<peers, audioVars, stopVars, connVars, phase, cur, fresh,
                 announced, leftVars, overlapped>>

\* The lower peer ID makes the video channel and the offer, the higher one
\* waits for them; without a channel the peer is given up.
Offer ==
  /\ at = "offering"
  /\ Return
  /\ \/ negotiated' = negotiated \cup {fresh} /\ UNCHANGED leftVars
     \/ /\ leaving' = [leaving EXCEPT ![Loop] = "due"]
        /\ leaver' = [leaver EXCEPT ![Loop] = cur]
        /\ UNCHANGED <<negotiated, victim>>
  /\ UNCHANGED <<peers, audioVars, stopVars, conn, owner, sender, phase,
                 announced, uiVars>>

\* peer_left.
PeerLeft(i) ==
  /\ phase = "loop" /\ LoopIdle
  /\ announced[i] \in {1, 2}
  /\ announced' = [announced EXCEPT ![i] = None]
  /\ leaving' = [leaving EXCEPT ![Loop] = "due"]
  /\ leaver' = [leaver EXCEPT ![Loop] = i]
  /\ UNCHANGED <<peers, audioVars, stopVars, connVars, phase, at, cur, fresh,
                 victim, uiVars>>

----------------------------------------------------------------------------
\* OnConnectionStateChange calls handlePeerLeft with the peer's ID.

\* ICE fails, or is still disconnected after the grace period: each time it
\* is disconnected a timer of its own is started.
ConnFails(c) ==
  /\ c \in negotiated /\ conn[c] = "open"
  /\ \E k \in Reports :
       /\ leaver[<<k, c>>] = None
       /\ leaving' = [leaving EXCEPT ![<<k, c>>] = "due"]
       /\ leaver' = [leaver EXCEPT ![<<k, c>>] = owner[c]]
  /\ UNCHANGED <<peers, audioVars, stopVars, connVars, loopVars, victim, uiVars>>

----------------------------------------------------------------------------
\* handlePeerLeft in goroutine g.

\* Peer i is to be removed.  The callback that reports connection c closed
\* can run from the closing on, once.
Due(g, i) ==
  \/ leaving[g] = "due" /\ leaver[g] = i
  \/ \E c \in ConnIDs :
       /\ g = <<"closed", c>> /\ conn[c] = "closed" /\ owner[c] = i
       /\ leaver[g] = None

TakePeer(g) ==
  \E i \in PeerIDs :
    /\ Due(g, i)
    /\ leaver' = [leaver EXCEPT ![g] = i]
    /\ victim' = [victim EXCEPT ![g] = peers[i]]
    /\ peers' = [peers EXCEPT ![i] = None]
    /\ leaving' = [leaving EXCEPT ![g] = IF peers[i] = None THEN "no"
                                         ELSE "closing"]
    /\ overlapped' = IF peers[i] # None /\ at = "notifying" /\ cur = i
                     THEN overlapped \cup {i} ELSE overlapped
    /\ UNCHANGED <<audioVars, stopVars, connVars, loopVars, ui>>

CloseTaken(g) ==
  /\ leaving[g] = "closing"
  /\ Close(victim[g])
  /\ leaving' = [leaving EXCEPT ![g] = "notifying"]
  /\ UNCHANGED <<peers, audioVars, stopVars, owner, sender, negotiated,
                 loopVars, leaver, victim, uiVars>>

\* Mutant of NotifyLeave: OnPeerLeave is not called.
NotifyNobody(g) ==
  /\ leaving[g] = "notifying"
  /\ leaving' = [leaving EXCEPT ![g] = "no"]
  /\ victim' = [victim EXCEPT ![g] = None]
  /\ UNCHANGED <<peers, audioVars, stopVars, connVars, loopVars, leaver,
                 uiVars>>

\* OnPeerLeave.
NotifyLeave(g) ==
  /\ leaving[g] = "notifying"
  /\ ui' = ui \ {leaver[g]}
  /\ leaving' = [leaving EXCEPT ![g] = "no"]
  /\ victim' = [victim EXCEPT ![g] = None]
  /\ UNCHANGED <<peers, audioVars, stopVars, connVars, loopVars, leaver,
                 overlapped>>

----------------------------------------------------------------------------
\* Stop.  main calls it when the UI is over, and with it SetMuteAudio.

StopCancel ==
  /\ stop = "no" /\ audioList = {}
  /\ stop' = "taking" /\ ctxDone' = TRUE
  /\ UNCHANGED <<peers, audioVars, stopList, connVars, loopVars, leftVars, uiVars>>

StopTake ==
  /\ stop = "taking"
  /\ stop' = "closing"
  /\ stopList' = {peers[i] : i \in PeerIDs} \ {None}
  /\ peers' = [i \in PeerIDs |-> None]
  /\ UNCHANGED <<audioVars, ctxDone, connVars, loopVars, leftVars, uiVars>>

StopClose ==
  /\ stop = "closing"
  /\ \E c \in stopList : Close(c) /\ stopList' = stopList \ {c}
  /\ UNCHANGED <<peers, audioVars, ctxDone, stop, owner, sender, negotiated,
                 loopVars, leftVars, uiVars>>

\* The WaitGroup counts the loop, not Start.
StopWait ==
  /\ stop = "closing" /\ stopList = {}
  /\ phase # "loop"
  /\ stop' = "stopped"
  /\ UNCHANGED <<peers, audioVars, ctxDone, stopList, connVars, loopVars,
                 leftVars, uiVars>>

----------------------------------------------------------------------------
\* SetMuteAudio, called by the UI only.  A microphone that starts brings a
\* new track; when it stops the silent track is sent again.

SetMuteAudio ==
  /\ stop = "no" /\ audioList = {} /\ toggles < MaxToggles
  /\ toggles' = toggles + 1
  /\ track' = IF track = 0 THEN toggles + 1 ELSE 0
  /\ audioList' = {peers[i] : i \in PeerIDs} \ {None}
  /\ missed' = IF at = "inserting" THEN missed \cup {fresh} ELSE missed
  /\ UNCHANGED <<peers, stopVars, connVars, loopVars, leftVars, uiVars>>

ReplaceTrack ==
  /\ \E c \in audioList :
       /\ sender' = [sender EXCEPT ![c] = track]
       /\ audioList' = audioList \ {c}
       /\ missed' = missed \ {c}
  /\ UNCHANGED <<peers, track, toggles, stopVars, conn, owner, negotiated,
                 loopVars, leftVars, uiVars>>

\* Mutant of RefuseTrack: the error ends the loop over the list.
RefuseAndReturn ==
  /\ \E c \in audioList : missed' = missed \cup {c} /\ audioList' = {}
  /\ UNCHANGED <<peers, track, toggles, stopVars, connVars, loopVars, leftVars,
                 uiVars>>

\* A sender that refuses the track keeps the old one; the error is reported,
\* and when OnError returns the loop goes on.
RefuseTrack ==
  /\ \E c \in audioList :
       audioList' = audioList \ {c} /\ missed' = missed \cup {c}
  /\ UNCHANGED <<peers, track, toggles, stopVars, connVars, loopVars, leftVars,
                 uiVars>>

----------------------------------------------------------------------------
\* Stop has returned, the goroutines have ended.
Finished ==
  /\ stop = "stopped" /\ phase = "done" /\ audioList = {}
  /\ \A g \in Goroutines : leaving[g] = "no"
  /\ UNCHANGED vars

LoopStep ==
  \/ StartLoop \/ CreateConn \/ CreateFails \/ InsertPeer \/ DiscardConn
  \/ NotifyJoin \/ Offer \/ (ctxDone /\ EndLoop)

LeftStep(g) == TakePeer(g) \/ CloseTaken(g) \/ NotifyLeave(g)

StopStep == StopTake \/ StopClose \/ StopWait

Next ==
  \/ LoopStep \/ EndLoop
  \/ \E i \in PeerIDs : PeerJoined(i) \/ PeerLeft(i)
  \/ \E c \in ConnIDs : ConnFails(c)
  \/ \E g \in Goroutines : LeftStep(g)
  \/ StopCancel \/ StopStep
  \/ SetMuteAudio \/ ReplaceTrack \/ RefuseTrack
  \/ Finished

Spec == Init /\ [][Next]_vars

\* Goroutines run; nothing is assumed of the peers, the network or the user.
Fairness ==
  /\ WF_vars(LoopStep) /\ WF_vars(StopStep)
  /\ \A g \in Goroutines : WF_vars(LeftStep(g))

FairSpec == Spec /\ Fairness

----------------------------------------------------------------------------
\* Properties.

Options(S) == S \cup {None}

\* Every variable keeps the shape of the Go value it stands for.
TypeOK ==
  /\ peers \in [PeerIDs -> Options(ConnIDs)] /\ track \in 0..MaxToggles
  /\ ctxDone \in BOOLEAN
  /\ conn \in [ConnIDs -> {"unused", "open", "closed"}]
  /\ owner \in [ConnIDs -> Options(PeerIDs)]
  /\ sender \in [ConnIDs -> 0..MaxToggles] /\ negotiated \subseteq ConnIDs
  /\ phase \in {"initial", "loop", "done"}
  /\ at \in {"idle", "creating", "inserting", "discarding", "notifying",
             "offering"}
  /\ cur \in Options(PeerIDs) /\ fresh \in Options(ConnIDs)
  /\ announced \in [PeerIDs -> Options(0..2)]
  /\ leaving \in [Goroutines -> {"no", "due", "closing", "notifying"}]
  /\ leaver \in [Goroutines -> Options(PeerIDs)]
  /\ victim \in [Goroutines -> Options(ConnIDs)]
  /\ stop \in {"no", "taking", "closing", "stopped"}
  /\ stopList \subseteq ConnIDs
  /\ toggles \in 0..MaxToggles /\ audioList \subseteq ConnIDs
  /\ missed \subseteq ConnIDs
  /\ ui \subseteq PeerIDs /\ overlapped \subseteq PeerIDs

Held(c) ==
  \/ at \in {"inserting", "discarding"} /\ fresh = c
  \/ \E g \in Goroutines : leaving[g] = "closing" /\ victim[g] = c
  \/ c \in stopList

\* No connection is orphaned: an open one is in the map, or in the hands of
\* exactly the goroutine that will insert or close it, however Stop, the
\* loop and the callbacks interleave.  One in the map is open and is the
\* peer's own: whoever closes one has taken it out of the map first.  And
\* when Stop has returned the map is empty and no connection is open but the
\* one Start may still hold, which Stop does not wait for, and those that
\* are on their way out.
OpenConnsOwned ==
  /\ \A c \in ConnIDs :
       conn[c] = "open" => Held(c) \/ \E i \in PeerIDs : peers[i] = c
  /\ \A i \in PeerIDs :
       peers[i] # None => conn[peers[i]] = "open" /\ owner[peers[i]] = i
  /\ stop = "stopped" =>
       /\ \A i \in PeerIDs : peers[i] = None
       /\ \A c \in ConnIDs :
            conn[c] = "open" =>
              \/ phase = "initial" /\ fresh = c
              \/ \E g \in Goroutines : leaving[g] = "closing" /\ victim[g] = c

\* When nothing is under way the UI has a tile for exactly the peers in the
\* map, although it learns of both from different goroutines, unlocked.  The
\* exception is a peer two notices of which were under way at once: inserted
\* while the OnPeerLeave of an earlier connection was still to come, or
\* removed before its OnPeerJoin.  They may arrive in the wrong order, and
\* the tile is then missing, or stays behind.  That takes two connections of
\* the peer: handlePeerLeft is called with its ID, by callbacks of the first
\* that come when the map already has the second.
UIFollowsMap ==
  /\ stop = "no" /\ LoopIdle /\ (\A g \in Goroutines : leaving[g] = "no")
       => \A i \in PeerIDs \ overlapped : i \in ui <=> peers[i] # None
  /\ \A i \in overlapped :
       \E c, d \in ConnIDs : c # d /\ owner[c] = i /\ owner[d] = i

\* Every peer is sent the track the user chose, once SetMuteAudio is done.
\* The exceptions are a connection made before the change and inserted after
\* it and one whose sender refused the track: they keep the track they had
\* until a later change reaches them.
AudioFollowsMute ==
  audioList = {} =>
    \A i \in PeerIDs :
      peers[i] # None /\ peers[i] \notin missed => sender[peers[i]] = track

\* Stop returns, whatever the loop and the callbacks are doing, and every
\* connection ends up closed.
StopCompletes ==
  stop # "no" ~>
    stop = "stopped" /\ \A c \in ConnIDs : conn[c] # "open"

=============================================================================
