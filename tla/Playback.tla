------------------------------ MODULE Playback ------------------------------
(***************************************************************************)
(* What a remote peer's audio goes through: the OnTrack callback of        *)
(* internal/rtc/mesh.go makes a Player for the track and hands it to the   *)
(* RemotePeer, a goroutine per track decodes its packets into the player's *)
(* queue, and the audio thread of the system empties it                    *)
(* (internal/playback/player_cgo.go).  The peer may be removed and closed  *)
(* at any time, and a later track takes the place of an earlier one.       *)
(*                                                                         *)
(* Tracks and their players have the same numbers.  Samples are numbered   *)
(* through: packet n holds the samples (n - 1) * PacketSize + 1 to         *)
(* n * PacketSize.  The device is external: it calls onAudioRequest from   *)
(* one thread, and Uninit returns when no call is under way.               *)
(*                                                                         *)
(* The names that every specification has carry the component's name, for *)
(* MediaProofs extends several of them.                                    *)
(***************************************************************************)
EXTENDS Naturals, Sequences

CONSTANTS QueueSize,    \* pcmBufferFrames, the capacity of pcmChan
          PacketSize,   \* samples in a packet
          RequestSize,  \* samples the device asks for at a time
          MaxTracks,    \* bound: tracks the remote peer sends
          MaxPackets,   \* bound: valid packets of a track
          NoPlayer

PlaybackConstants ==
  /\ {QueueSize, PacketSize, RequestSize} \subseteq Nat \ {0}
  /\ MaxTracks \in Nat /\ MaxPackets \in Nat /\ NoPlayer \notin Nat

ASSUME PlaybackAssumption == PlaybackConstants

Tracks == 1..MaxTracks

VARIABLES
  \* RemotePeer
  life,       \* "up", "removed", "closing", "hangingUp", "down"
  player,     \* RemotePeer.player
  victim,     \* the player Close has taken
  \* OnTrack and its goroutine
  at, previous,
  packets,    \* packets[t]: valid packets read while the player was open
  \* Player
  shut,       \* shut[t]: "none", "open", "closing", "closed"
  queue,      \* queue[t]: pcmChan
  leftover,
  need,       \* need[t]: samples the running onAudioRequest still wants
  heard       \* history: samples given to the device

playbackVars == <<life, player, victim, at, previous, packets, shut, queue, leftover,
                  need, heard>>
peerVars == <<life, player, victim>>
trackVars == <<at, previous, packets>>
audioVars == <<leftover, need, heard>>

AllSamples == 1..(MaxPackets * PacketSize)
Samples(n) == [i \in 1..PacketSize |-> (n - 1) * PacketSize + i]

PlaybackInit ==
  /\ life = "up" /\ player = NoPlayer /\ victim = NoPlayer
  /\ at = [t \in Tracks |-> "none"] /\ previous = [t \in Tracks |-> NoPlayer]
  /\ packets = [t \in Tracks |-> 0]
  /\ shut = [t \in Tracks |-> "none"] /\ queue = [t \in Tracks |-> <<>>]
  /\ leftover = [t \in Tracks |-> <<>>] /\ need = [t \in Tracks |-> 0]
  /\ heard = [t \in Tracks |-> <<>>]

Goto(t, place) == at' = [at EXCEPT ![t] = place]

----------------------------------------------------------------------------
\* Player.Close.  It holds the player's lock while Uninit waits for the audio
\* thread; a second call waits for the lock and finds nothing to do.  A
\* caller goes on when the player is closed.

Closes(t) ==
  \/ life = "closing" /\ victim = t
  \/ at[t] = "closing"
  \/ \E u \in Tracks : at[u] = "replacing" /\ previous[u] = t

StartClose(t) ==
  /\ shut[t] = "open" /\ Closes(t)
  /\ shut' = [shut EXCEPT ![t] = "closing"]
  /\ UNCHANGED <<peerVars, trackVars, queue, audioVars>>

Uninit(t) ==
  /\ shut[t] = "closing" /\ need[t] = 0
  /\ shut' = [shut EXCEPT ![t] = "closed"]
  /\ UNCHANGED <<peerVars, trackVars, queue, audioVars>>

----------------------------------------------------------------------------
\* OnTrack: a track comes while the connection is up.

NewPlayer(t) ==
  /\ life # "down" /\ at[t] = "none" /\ \A u \in 1..(t - 1) : at[u] # "none"
  /\ \/ /\ Goto(t, "created")
        /\ shut' = [shut EXCEPT ![t] = "open"]
     \/ Goto(t, "done") /\ UNCHANGED shut      \* no decoder or no device
  /\ UNCHANGED <<peerVars, previous, packets, queue, audioVars>>

\* Mutant of FindPeer: the player of a peer that is gone is not closed.
FindPeerLeaking(t) ==
  /\ at[t] = "created"
  /\ Goto(t, IF life = "up" THEN "found" ELSE "done")
  /\ UNCHANGED <<peerVars, previous, packets, shut, queue, audioVars>>

\* manager.peer: a peer that has been removed is not found.
FindPeer(t) ==
  /\ at[t] = "created"
  /\ Goto(t, IF life = "up" THEN "found" ELSE "closing")
  /\ UNCHANGED <<peerVars, previous, packets, shut, queue, audioVars>>

PeerClosed == life \in {"closing", "hangingUp", "down"}

SetPlayer(t) ==
  /\ at[t] = "found"
  /\ IF PeerClosed
     THEN Goto(t, "closing") /\ UNCHANGED <<player, previous>>
     ELSE /\ previous' = [previous EXCEPT ![t] = player] /\ player' = t
          /\ Goto(t, IF player = NoPlayer THEN "reading" ELSE "replacing")
  /\ UNCHANGED <<life, victim, packets, shut, queue, audioVars>>

ReplacePlayer(t) ==
  /\ at[t] = "replacing" /\ shut[previous[t]] = "closed"
  /\ Goto(t, "reading")
  /\ UNCHANGED <<peerVars, previous, packets, shut, queue, audioVars>>

\* The goroutine ends when the track does: ClearPlayer, then Close.
ReadFails(t) ==
  /\ at[t] = "reading"
  /\ Goto(t, "clearing")
  /\ UNCHANGED <<peerVars, previous, packets, shut, queue, audioVars>>

\* Mutant of ClearPlayer: whatever player the peer has is cleared.
ClearAnyPlayer(t) ==
  /\ at[t] = "clearing"
  /\ player' = NoPlayer
  /\ Goto(t, "closing")
  /\ UNCHANGED <<life, victim, previous, packets, shut, queue, audioVars>>

ClearPlayer(t) ==
  /\ at[t] = "clearing"
  /\ player' = IF player = t THEN NoPlayer ELSE player
  /\ Goto(t, "closing")
  /\ UNCHANGED <<life, victim, previous, packets, shut, queue, audioVars>>

TrackDone(t) ==
  /\ at[t] = "closing" /\ shut[t] = "closed"
  /\ Goto(t, "done")
  /\ UNCHANGED <<peerVars, previous, packets, shut, queue, audioVars>>

----------------------------------------------------------------------------
\* WriteOpus.

\* A packet arrives and is decoded.  A closed player ignores it, and so does
\* the decoder one that is invalid, which changes nothing.
ReadPacket(t) ==
  /\ at[t] = "reading" /\ packets[t] < MaxPackets /\ shut[t] = "open"
  /\ packets' = [packets EXCEPT ![t] = @ + 1]
  /\ Goto(t, "sending")
  /\ UNCHANGED <<peerVars, previous, shut, queue, audioVars>>

\* A send on pcmChan that does not wait.
HasRoom(t) == Len(queue[t]) < QueueSize
PutPacket(t) == queue' = [queue EXCEPT ![t] = Append(@, packets[t])]

TrySend(t) ==
  /\ at[t] = "sending"
  /\ IF HasRoom(t)
     THEN PutPacket(t) /\ Goto(t, "reading")
     ELSE Goto(t, "dropping") /\ UNCHANGED queue
  /\ UNCHANGED <<peerVars, previous, packets, shut, audioVars>>

\* Mutant of DropOldest: the newest of the queued frames makes room.
DropNewest(t) ==
  /\ at[t] = "dropping"
  /\ queue' = [queue EXCEPT ![t] = IF @ = <<>> THEN @ ELSE SubSeq(@, 1, Len(@) - 1)]
  /\ Goto(t, "retrying")
  /\ UNCHANGED <<peerVars, previous, packets, shut, audioVars>>

\* The audio thread may have emptied the queue in the meantime.
DropOldest(t) ==
  /\ at[t] = "dropping"
  /\ queue' = [queue EXCEPT ![t] = IF @ = <<>> THEN @ ELSE Tail(@)]
  /\ Goto(t, "retrying")
  /\ UNCHANGED <<peerVars, previous, packets, shut, audioVars>>

Retry(t) ==
  /\ at[t] = "retrying"
  /\ IF HasRoom(t) THEN PutPacket(t) ELSE UNCHANGED queue
  /\ Goto(t, "reading")
  /\ UNCHANGED <<peerVars, previous, packets, shut, audioVars>>

----------------------------------------------------------------------------
\* onAudioRequest, in the audio thread, which takes no lock.

Request(t) ==
  /\ shut[t] = "open" /\ need[t] = 0
  /\ need' = [need EXCEPT ![t] = RequestSize]
  /\ UNCHANGED <<peerVars, trackVars, shut, queue, leftover, heard>>

\* Nothing is left over: the next frame, or silence for the rest.
NextFrame(t) ==
  /\ need[t] > 0 /\ leftover[t] = <<>>
  /\ IF queue[t] = <<>>
     THEN need' = [need EXCEPT ![t] = 0] /\ UNCHANGED <<queue, leftover>>
     ELSE /\ leftover' = [leftover EXCEPT ![t] = Samples(Head(queue[t]))]
          /\ queue' = [queue EXCEPT ![t] = Tail(@)]
          /\ UNCHANGED need
  /\ UNCHANGED <<peerVars, trackVars, shut, heard>>

\* Mutant of TakeSamples: what the request leaves of a frame is thrown away.
TakeAll(t) ==
  /\ need[t] > 0 /\ leftover[t] # <<>>
  /\ LET take == IF need[t] < Len(leftover[t]) THEN need[t] ELSE Len(leftover[t])
     IN /\ heard' = [heard EXCEPT ![t] = @ \o SubSeq(leftover[t], 1, take)]
        /\ leftover' = [leftover EXCEPT ![t] = <<>>]
        /\ need' = [need EXCEPT ![t] = @ - take]
  /\ UNCHANGED <<peerVars, trackVars, shut, queue>>

TakeSamples(t) ==
  /\ need[t] > 0 /\ leftover[t] # <<>>
  /\ LET take == IF need[t] < Len(leftover[t]) THEN need[t] ELSE Len(leftover[t])
     IN /\ heard' = [heard EXCEPT ![t] = @ \o SubSeq(leftover[t], 1, take)]
        /\ leftover' = [leftover EXCEPT ![t] = SubSeq(@, take + 1, Len(@))]
        /\ need' = [need EXCEPT ![t] = @ - take]
  /\ UNCHANGED <<peerVars, trackVars, shut, queue>>

----------------------------------------------------------------------------
\* handlePeerLeft and RemotePeer.Close.

RemovePeer ==
  /\ life = "up"
  /\ life' = "removed"
  /\ UNCHANGED <<player, victim, trackVars, shut, queue, audioVars>>

ClosePeer ==
  /\ life = "removed"
  /\ life' = "closing" /\ victim' = player /\ player' = NoPlayer
  /\ UNCHANGED <<trackVars, shut, queue, audioVars>>

\* The player is closed before the connection.
ClosePlayer ==
  /\ life = "closing" /\ \A t \in Tracks : victim = t => shut[t] = "closed"
  /\ life' = "hangingUp" /\ victim' = NoPlayer
  /\ UNCHANGED <<player, trackVars, shut, queue, audioVars>>

CloseConn ==
  /\ life = "hangingUp"
  /\ life' = "down"
  /\ UNCHANGED <<player, victim, trackVars, shut, queue, audioVars>>

----------------------------------------------------------------------------
\* What the callback and the goroutine of a track do by themselves: a read
\* ends when the connection is closed.
TrackStep(t) ==
  \/ FindPeer(t) \/ SetPlayer(t) \/ ReplacePlayer(t) \/ ClearPlayer(t)
  \/ TrackDone(t) \/ TrySend(t) \/ DropOldest(t) \/ Retry(t)
  \/ life = "down" /\ ReadFails(t)

AudioStep(t) == NextFrame(t) \/ TakeSamples(t)
CloseStep == ClosePeer \/ ClosePlayer \/ CloseConn
ShutStep(t) == StartClose(t) \/ Uninit(t)

\* The peer is gone and every track has ended.
PlaybackDone ==
  /\ life = "down" /\ \A t \in Tracks : at[t] \in {"none", "done"}
  /\ UNCHANGED playbackVars

PlaybackNext ==
  \/ \E t \in Tracks :
       \/ NewPlayer(t) \/ ReadFails(t) \/ ReadPacket(t) \/ Request(t)
       \/ TrackStep(t) \/ AudioStep(t) \/ ShutStep(t)
  \/ RemovePeer \/ CloseStep
  \/ PlaybackDone

PlaybackSpec == PlaybackInit /\ [][PlaybackNext]_playbackVars

\* Goroutines and the audio thread run; calls of the device return.
PlaybackFairness ==
  /\ \A t \in Tracks :
       /\ WF_playbackVars(TrackStep(t)) /\ WF_playbackVars(AudioStep(t))
       /\ WF_playbackVars(ShutStep(t))
  /\ WF_playbackVars(CloseStep)

PlaybackFairSpec == PlaybackSpec /\ PlaybackFairness

----------------------------------------------------------------------------
\* Properties.

\* Where everyone stands; a packet has been read for every one being written.
PlaceTypes ==
  /\ life \in {"up", "removed", "closing", "hangingUp", "down"}
  /\ player \in Tracks \cup {NoPlayer} /\ victim \in Tracks \cup {NoPlayer}
  /\ at \in [Tracks -> {"none", "created", "found", "replacing", "reading", "sending",
                        "dropping", "retrying", "clearing", "closing", "done"}]
  /\ previous \in [Tracks -> Tracks \cup {NoPlayer}]
  /\ shut \in [Tracks -> {"none", "open", "closing", "closed"}]
  /\ packets \in [Tracks -> 0..MaxPackets]
  /\ \A t \in Tracks : at[t] \in {"sending", "dropping", "retrying"} => packets[t] >= 1

\* The samples under way; no more than QueueSize frames are queued.
BufferTypes ==
  /\ need \in [Tracks -> 0..RequestSize]
  /\ queue \in [Tracks -> Seq(1..MaxPackets)]
  /\ leftover \in [Tracks -> Seq(AllSamples)]
  /\ heard \in [Tracks -> Seq(AllSamples)]
  /\ \A t \in Tracks : Len(queue[t]) <= QueueSize /\ Len(leftover[t]) <= PacketSize

\* Every variable keeps the shape of the value it stands for.
PlaybackTypeOK == PlaceTypes /\ BufferTypes

\* Sound is never repeated or out of order, and a packet that has begun is
\* played to its end: only whole packets are dropped, although the writer and
\* the audio thread both take from the queue and requests end in mid-packet.
SoundInOrder ==
  \A t \in Tracks : \A i \in 1..(Len(heard[t]) - 1) :
    \/ heard[t][i + 1] = heard[t][i] + 1
    \/ /\ heard[t][i] % PacketSize = 0
       /\ heard[t][i + 1] > heard[t][i] /\ heard[t][i + 1] % PacketSize = 1 % PacketSize

\* A full queue loses its oldest frames and never the new one: it holds the
\* latest packets without a gap, up to the one being written, and when it is
\* empty the audio thread has had the latest.
NewestKept ==
  \A t \in Tracks :
    LET q     == queue[t]
        taken == heard[t] \o leftover[t]
        last  == IF at[t] \in {"sending", "dropping", "retrying"}
                 THEN packets[t] - 1 ELSE packets[t]
    IN /\ \A i \in 1..Len(q) : q[i] = last - Len(q) + i
       /\ q = <<>> /\ last > 0 /\ at[t] \notin {"dropping", "retrying"} =>
            taken # <<>> /\ taken[Len(taken)] = last * PacketSize

\* An open player always has someone who will close it: the peer it is
\* installed in, a Close that has taken it, or the callback or goroutine of
\* its track on its way in or out.  A goroutine that ends late never takes
\* the player of a later track from the peer.
OpenPlayersOwned ==
  \A t \in Tracks : shut[t] = "open" =>
    \/ player = t /\ ~PeerClosed
    \/ Closes(t)
    \/ at[t] \in {"created", "found", "clearing"}

\* Once its peer has been removed no player stays open, whatever callbacks
\* were under way: the device is given back and nobody is heard after
\* leaving.
SilentAfterLeaving == life # "up" ~> \A t \in Tracks : shut[t] \in {"none", "closed"}

=============================================================================
