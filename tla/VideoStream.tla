---------------------------- MODULE VideoStream ----------------------------
(***************************************************************************)
(* Terminal video from one camera to one viewer: the noise stabiliser and  *)
(* the delta encoder of the sender (internal/ascii), the unordered data    *)
(* channel without retransmission, the sequence filter of the receiver     *)
(* (internal/rtc) and its decoder and tile (internal/ascii, internal/tui). *)
(*                                                                         *)
(* A picture has a value per cell; the size of the grid never changes.  A  *)
(* cell of the half-block mode has character 0, which the decoder refuses  *)
(* in the other modes.                                                     *)
(*                                                                         *)
(* The names that every specification has carry the component's name, for *)
(* MediaProofs extends several of them.                                    *)
(***************************************************************************)
EXTENDS Integers, FiniteSets

CONSTANTS CellIDs,        \* positions of the grid
          Colours,        \* colour indices
          Modes,          \* render modes
          Threshold,      \* Stabiliser.threshold
          KeyframeEvery,  \* DeltaEncoder.keyframeEvery
          MaxSeq,         \* bound: frames sent
          MaxInFlight,    \* bound: frames in the network at a time
          NoPicture

Grids == [CellIDs -> Colours]
Pictures == [grid : Grids, mode : Modes]

VideoConstants ==
  /\ IsFiniteSet(CellIDs) /\ CellIDs # {}
  /\ Colours \subseteq -1..255 /\ Modes \subseteq {"ascii", "half"}
  /\ Threshold \in Nat /\ KeyframeEvery \in Nat \ {0} /\ MaxSeq \in Nat
  /\ MaxInFlight \in Nat /\ NoPicture \notin Grids \cup Pictures

ASSUME VideoAssumption == VideoConstants

VARIABLES
  \* Sender: CallModel, ColorRenderer, Stabiliser, DeltaEncoder, frameSeq
  camera,      \* "off", "on", or "stopped" when the stream ended by itself
  mode,        \* ColorRenderer.mode
  baseline,    \* Stabiliser.prev
  prev,        \* DeltaEncoder.prev
  frameCount,  \* DeltaEncoder.frameCount
  seq,         \* MeshManager.frameSeq
  raw,         \* history: the last picture of the camera
  \* Data channel
  flight,
  \* Receiver: RemotePeer, DeltaDecoder, CallModel
  lastSeq,     \* RemotePeer.lastSeq
  decoder,     \* DeltaDecoder: grid and mode, or NoPicture before a keyframe
  tile,        \* peerCells and peerModes
  latest,      \* history: what the last frame applied to the tile stands for
  intact,      \* history: the sequence number up to which the decoder has
               \* seen every frame since a keyframe, or 0
  streak       \* history: frames of pictures received in a row

senderVars == <<camera, mode, baseline, prev, frameCount, raw>>
receiverVars == <<lastSeq, decoder, tile, latest, intact, streak>>
videoVars == <<camera, mode, baseline, prev, frameCount, seq, raw,
              flight, lastSeq, decoder, tile, latest, intact, streak>>

Picture(g, m) == [grid |-> g, mode |-> m]

VideoInit ==
  /\ camera = "off" /\ mode \in Modes
  /\ baseline = NoPicture /\ prev = NoPicture /\ frameCount = 0
  /\ seq = 0 /\ raw = NoPicture
  /\ flight = {}
  /\ lastSeq = 0 /\ decoder = NoPicture /\ tile = NoPicture
  /\ latest = NoPicture /\ intact = 0 /\ streak = 0

----------------------------------------------------------------------------
\* The sender.

Distance(a, b) == IF a > b THEN a - b ELSE b - a

\* Mutant of Stabilise: one colour step too many counts as noise.
StabiliseMore(cells) ==
  IF baseline = NoPicture
  THEN cells
  ELSE [x \in CellIDs |-> IF Distance(cells[x], baseline[x]) <= Threshold + 1
                          THEN baseline[x] ELSE cells[x]]

\* Stabilise: a cell that moved no further than the threshold keeps its old
\* colour; the result is the new baseline.
Stabilise(cells) ==
  IF baseline = NoPicture
  THEN cells
  ELSE [x \in CellIDs |-> IF Distance(cells[x], baseline[x]) <= Threshold
                          THEN baseline[x] ELSE cells[x]]

Changed(cells) == {x \in CellIDs : cells[x] # prev[x]}

\* Mutant of NeedsKeyframe: the interval is missed by one.
NeedsKeyframeLate(cells) ==
  \/ prev = NoPicture
  \/ frameCount + 1 > KeyframeEvery
  \/ Cardinality(Changed(cells)) > Cardinality(CellIDs) \div 2

\* Encode: no previous frame, the interval is over, or encodeDelta would
\* change more than half the cells.
NeedsKeyframe(cells) ==
  \/ prev = NoPicture
  \/ frameCount + 1 >= KeyframeEvery
  \/ Cardinality(Changed(cells)) > Cardinality(CellIDs) \div 2

\* The frame Encode returns.
Encoded(cells) ==
  IF NeedsKeyframe(cells)
  THEN [kind |-> "K", mode |-> mode, cells |-> cells]
  ELSE [kind |-> "D", mode |-> mode,
        cells |-> [x \in Changed(cells) |-> cells[x]]]

\* StatusFrame("Camera off").
OffFrame == [kind |-> "off", mode |-> "ascii", cells |-> <<>>]

\* BroadcastFrame: the frame is numbered; it goes out unless the channel is
\* not open or has too much buffered.  `picture' is what the frame stands for,
\* a history value the receiver does not look at.
Broadcast(frame, picture) ==
  /\ seq < MaxSeq
  /\ seq' = seq + 1
  /\ \/ /\ Cardinality(flight) < MaxInFlight
        /\ flight' = flight \cup {[seq |-> seq + 1, frame |-> frame,
                                    picture |-> picture]}
     \/ UNCHANGED flight

\* handleLocalFrame with a picture: stabilise, encode, broadcast.
LocalFrame(cells) ==
  LET out == Stabilise(cells)
  IN /\ camera = "on"
     /\ raw' = cells
     /\ baseline' = out
     /\ prev' = out
     /\ frameCount' = IF NeedsKeyframe(out) THEN 0 ELSE frameCount + 1
     /\ Broadcast(Encoded(out), Picture(out, mode))
     /\ UNCHANGED <<camera, mode, receiverVars>>

\* ColorRenderer.Reset: stabiliser and encoder start afresh.
ResetRenderer ==
  /\ baseline' = NoPicture /\ raw' = NoPicture
  /\ prev' = NoPicture /\ frameCount' = 0

\* CameraStartedMsg.
StartCamera ==
  /\ camera # "on"
  /\ camera' = "on"
  /\ ResetRenderer
  /\ UNCHANGED <<mode, seq, flight, receiverVars>>

\* The user switches the camera off: toggleCamera.
StopCamera ==
  /\ camera = "on"
  /\ camera' = "off"
  /\ ResetRenderer
  /\ Broadcast(OffFrame, NoPicture)
  /\ UNCHANGED <<mode, receiverVars>>

\* The camera's stream ends: handleLocalFrame with a closed channel.
StreamEnds ==
  /\ camera = "on"
  /\ camera' = "stopped"
  /\ UNCHANGED <<mode, baseline, prev, frameCount, raw, seq, flight,
                 receiverVars>>

\* The user changes the render mode: SetMode.
ChangeMode(m) ==
  /\ m # mode
  /\ mode' = m
  /\ ResetRenderer
  /\ UNCHANGED <<camera, seq, flight, receiverVars>>

----------------------------------------------------------------------------
\* The channel loses frames and delivers the others in any order; the rate
\* limiter of the receiver drops some more.

Lose(m) ==
  /\ flight' = flight \ {m}
  /\ UNCHANGED <<senderVars, seq, receiverVars>>

\* CompareAndUpdateSeq refuses what is not newer.
Stale(m) == m.seq <= lastSeq

DropStale(m) ==
  /\ Stale(m)
  /\ flight' = flight \ {m}
  /\ UNCHANGED <<senderVars, seq, receiverVars>>

\* decodeDelta accepts what fits the decoder's size and mode.
Decodable(f) ==
  \/ f.kind = "K"
  \/ /\ f.kind = "D" /\ decoder # NoPicture
     /\ f.mode = "half" /\ decoder.mode # "half" => DOMAIN f.cells = {}

Decode(f) ==
  IF f.kind = "K"
  THEN Picture(f.cells, f.mode)
  ELSE Picture([x \in CellIDs |-> IF x \in DOMAIN f.cells
                                  THEN f.cells[x] ELSE decoder.grid[x]],
               decoder.mode)

\* How far the decoder has seen every frame, once it has applied frame s.
IntactAfter(f, s) ==
  IF f.kind = "K" THEN s
  ELSE IF intact # 0 /\ s = intact + 1 THEN s ELSE 0

\* A fresh frame reaches the tile: handlePeerFrame.
Show(m) ==
  /\ ~Stale(m)
  /\ flight' = flight \ {m}
  /\ lastSeq' = m.seq
  /\ streak' = IF m.frame.kind = "off" THEN 0
               ELSE IF m.seq = lastSeq + 1 THEN streak + 1 ELSE 1
  /\ CASE m.frame.kind = "off" ->
            /\ tile' = NoPicture /\ latest' = NoPicture /\ intact' = 0
            /\ UNCHANGED decoder
       [] m.frame.kind # "off" /\ Decodable(m.frame) ->
            /\ decoder' = Decode(m.frame)
            /\ tile' = Decode(m.frame)
            /\ latest' = m.picture
            /\ intact' = IntactAfter(m.frame, m.seq)
       [] OTHER -> intact' = 0 /\ UNCHANGED <<tile, latest, decoder>>
  /\ UNCHANGED <<senderVars, seq>>

VideoNext ==
  \/ \E cells \in Grids : LocalFrame(cells)
  \/ StartCamera \/ StopCamera \/ StreamEnds
  \/ \E m \in Modes : ChangeMode(m)
  \/ \E m \in flight : Lose(m) \/ DropStale(m) \/ Show(m)

VideoSpec == VideoInit /\ [][VideoNext]_videoVars

----------------------------------------------------------------------------
\* Properties.

\* Every variable keeps the shape of the Go value it stands for.
VideoTypeOK ==
  /\ camera \in {"off", "on", "stopped"} /\ mode \in Modes
  /\ baseline \in Grids \cup {NoPicture} /\ prev \in Grids \cup {NoPicture}
  /\ raw \in Grids \cup {NoPicture}
  /\ frameCount \in 0..KeyframeEvery - 1 /\ streak \in 0..MaxSeq
  /\ seq \in 0..MaxSeq /\ lastSeq \in 0..seq /\ intact \in 0..seq
  /\ decoder \in Pictures \cup {NoPicture} /\ tile \in Pictures \cup {NoPicture}
  /\ latest \in Pictures \cup {NoPicture}
  /\ \A m \in flight : m.seq \in 1..seq

\* The codec is exact: a viewer who has seen every frame since a keyframe
\* shows the very picture, in the very mode, that the sender stabilised and
\* encoded, whatever was lost, late or out of order before that keyframe.
\* KeyframeEvery frames received in a row are enough to get there, whatever
\* was missed before them, camera and mode changes included.  And a viewer
\* who is up to date shows no picture of a camera that is switched off.
TileExact ==
  /\ intact # 0 => intact = lastSeq /\ tile = latest
  /\ streak >= KeyframeEvery => intact # 0
  /\ camera = "off" /\ lastSeq = seq => tile = NoPicture

\* The stabiliser hides noise and nothing more: what is sent is within the
\* threshold of what the camera sees, and does not drift away from it in
\* small steps over many frames.
NoiseBounded ==
  baseline # NoPicture =>
    \A x \in CellIDs : Distance(baseline[x], raw[x]) <= Threshold

=============================================================================
