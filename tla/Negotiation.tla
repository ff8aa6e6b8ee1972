---------------------------- MODULE Negotiation ----------------------------
(***************************************************************************)
(* How two clients that have been told of each other set up a WebRTC       *)
(* connection: offer, answer and ICE candidates through the signaling      *)
(* server (handlers of internal/rtc/mesh.go, RemotePeer of                 *)
(* internal/rtc/peer.go).                                                  *)
(*                                                                         *)
(* Each end has one signaling loop, a gatherer that sends candidates from  *)
(* the moment the local description is set (and so may overtake the offer  *)
(* or answer itself), and anyone who may remove the peer at any time: a    *)
(* failed connection, a peer_left, or Stop.  The server keeps the order of *)
(* each direction and puts the introduction first (Signaling!NoMissingPeer *)
(* and SignalsIntroduced).  The peer connection is external: it takes a    *)
(* description or a candidate only in the states WebRTC allows.            *)
(***************************************************************************)
EXTENDS Naturals, Sequences, Functions

CONSTANTS MaxPending,     \* maxPendingICECandidates
          MaxCandidates,  \* bound: candidates an end gathers
          Unusable        \* candidates no peer connection accepts

ASSUME NegotiationAssumption ==
  /\ MaxPending \in Nat /\ MaxCandidates \in Nat
  /\ Unusable \subseteq 1..MaxCandidates

\* The two ends, by the order of their peer IDs.
Ends == {"lo", "hi"}
Other(e) == IF e = "lo" THEN "hi" ELSE "lo"

VARIABLES
  link,      \* link[e]: messages on their way to e
  at,        \* at[e]: where e's signaling loop stands
  msg,       \* msg[e]: the message it handles
  life,      \* life[e]: "none", "up", "removed", "closed", "down"
  sig,       \* sig[e]: the signaling state of the peer connection
  known,     \* known[e]: remoteDescriptionSet
  pending,   \* pending[e]: pendingICE
  batch,     \* batch[e]: what SetRemoteDescription has left to add
  failed,    \* failed[e]: candidateErrors is not empty
  added,     \* added[e]: candidates the peer connection has
  channel,   \* channel[e]: "none", "set", "refused"
  local,     \* local[e]: the local description is set
  gathered,  \* gathered[e]: candidates sent
  taken,     \* history: candidates handled for a peer in the map
  dropped    \* history: candidates beyond MaxPending or unusable

vars == <<link, at, msg, life, sig, known, pending, batch, failed, added,
          channel, local, gathered, taken, dropped>>
pcVars == <<sig, added, channel, local>>
iceVars == <<known, pending, batch, failed>>
history == <<taken, dropped>>

Message(kind, n) == [kind |-> kind, n |-> n]
Messages ==
  [kind : {"joined", "offer", "answer"}, n : {0}] \cup
  [kind : {"candidate"}, n : 1..MaxCandidates]

Init ==
  /\ link = [e \in Ends |-> <<Message("joined", 0)>>]
  /\ at = [e \in Ends |-> "idle"] /\ msg = [e \in Ends |-> Message("joined", 0)]
  /\ life = [e \in Ends |-> "none"] /\ sig = [e \in Ends |-> "stable"]
  /\ known = [e \in Ends |-> FALSE]
  /\ pending = [e \in Ends |-> <<>>] /\ batch = [e \in Ends |-> <<>>]
  /\ failed = [e \in Ends |-> FALSE] /\ added = [e \in Ends |-> {}]
  /\ channel = [e \in Ends |-> "none"] /\ local = [e \in Ends |-> FALSE]
  /\ gathered = [e \in Ends |-> 0]
  /\ taken = [e \in Ends |-> {}] /\ dropped = [e \in Ends |-> {}]

Goto(e, place) == at' = [at EXCEPT ![e] = place]

\* signaler.Send, to the other end.
SendTo(e, m) == link' = [link EXCEPT ![Other(e)] = Append(@, m)]

\* RemotePeer.closed; the peer connection is closed a little later.
IsClosed(e) == life[e] \in {"closed", "down"}

----------------------------------------------------------------------------
\* handlePeerJoined: the connection is created and put in the map.

\* Mutant of Offers: the one that is told of the other last offers as well.
OffersAlways(e) == TRUE

\* LocalPeerID < peerID.
Offers(e) == e = "lo"

HandleJoined(e) ==
  /\ at[e] = "idle" /\ link[e] # <<>> /\ Head(link[e]).kind = "joined"
  /\ link' = [link EXCEPT ![e] = Tail(@)]
  /\ life' = [life EXCEPT ![e] = "up"]
  /\ Goto(e, IF Offers(e) THEN "channel" ELSE "idle")
  /\ UNCHANGED <<msg, pcVars, iceVars, gathered, history>>

\* CreateDataChannel and registerDataChannel: without a channel there is no
\* offer; a channel for a closed peer is closed.
CreateChannel(e) ==
  /\ at[e] = "channel"
  /\ IF life[e] = "down"
     THEN Goto(e, "idle") /\ UNCHANGED channel
     ELSE /\ Goto(e, "offering")
          /\ channel' = [channel EXCEPT ![e] =
                           IF IsClosed(e) THEN "refused" ELSE "set"]
  /\ UNCHANGED <<link, msg, life, sig, added, local, iceVars, gathered,
                 history>>

\* CreateOffer and SetLocalDescription, from which on candidates are gathered.
SetLocalOffer(e) ==
  /\ at[e] = "offering"
  /\ IF life[e] = "down" \/ sig[e] # "stable"
     THEN Goto(e, "idle") /\ UNCHANGED <<sig, local>>
     ELSE /\ Goto(e, "sendOffer")
          /\ sig' = [sig EXCEPT ![e] = "have-local-offer"]
          /\ local' = [local EXCEPT ![e] = TRUE]
  /\ UNCHANGED <<link, msg, life, added, channel, iceVars, gathered, history>>

SendOffer(e) ==
  /\ at[e] = "sendOffer"
  /\ SendTo(e, Message("offer", 0))
  /\ Goto(e, "idle")
  /\ UNCHANGED <<msg, life, pcVars, iceVars, gathered, history>>

\* OnICECandidate.
Gather(e) ==
  /\ local[e] /\ life[e] # "down" /\ gathered[e] < MaxCandidates
  /\ gathered' = [gathered EXCEPT ![e] = @ + 1]
  /\ SendTo(e, Message("candidate", gathered[e] + 1))
  /\ UNCHANGED <<at, msg, life, pcVars, iceVars, history>>

----------------------------------------------------------------------------
\* handleOffer, handleAnswer, handleICECandidate.

\* They look the peer up, and drop the message if it is not in the map.
TakeMessage(e) ==
  /\ at[e] = "idle" /\ link[e] # <<>> /\ Head(link[e]).kind # "joined"
  /\ link' = [link EXCEPT ![e] = Tail(@)]
  /\ IF life[e] = "up"
     THEN /\ Goto(e, "found")
          /\ msg' = [msg EXCEPT ![e] = Head(link[e])]
          /\ taken' = [taken EXCEPT ![e] =
               IF Head(link[e]).kind = "candidate"
               THEN @ \cup {Head(link[e]).n} ELSE @]
     ELSE UNCHANGED <<at, msg, taken>>
  /\ UNCHANGED <<life, pcVars, iceVars, gathered, dropped>>

\* SetRemoteDescription reads closed under the lock and goes on without it.
CheckOpen(e) ==
  /\ at[e] = "found" /\ msg[e].kind \in {"offer", "answer"}
  /\ Goto(e, IF IsClosed(e) THEN "idle" ELSE "open")
  /\ UNCHANGED <<link, msg, life, pcVars, iceVars, gathered, history>>

\* The state in which the peer connection takes a remote description.
StateFor(kind) == IF kind = "offer" THEN "stable" ELSE "have-local-offer"

ApplyRemote(e) ==
  /\ at[e] = "open"
  /\ IF life[e] = "down" \/ sig[e] # StateFor(msg[e].kind)
     THEN Goto(e, "idle") /\ UNCHANGED sig
     ELSE /\ Goto(e, "applied")
          /\ sig' = [sig EXCEPT ![e] = IF msg[e].kind = "offer"
                                       THEN "have-remote-offer" ELSE "stable"]
  /\ UNCHANGED <<link, msg, life, added, channel, local, iceVars, gathered,
                 history>>

\* Mutant of FlagRemote: what arrived early is forgotten.
FlagForgetting(e) ==
  /\ at[e] = "applied"
  /\ known' = [known EXCEPT ![e] = TRUE]
  /\ pending' = [pending EXCEPT ![e] = <<>>]
  /\ failed' = [failed EXCEPT ![e] = FALSE]
  /\ Goto(e, "flushing")
  /\ UNCHANGED <<link, msg, life, pcVars, batch, gathered, history>>

\* From here on candidates go to the connection itself.
FlagRemote(e) ==
  /\ at[e] = "applied"
  /\ known' = [known EXCEPT ![e] = TRUE]
  /\ batch' = [batch EXCEPT ![e] = pending[e]]
  /\ pending' = [pending EXCEPT ![e] = <<>>]
  /\ failed' = [failed EXCEPT ![e] = FALSE]
  /\ Goto(e, "flushing")
  /\ UNCHANGED <<link, msg, life, pcVars, gathered, history>>

\* PeerConnection.AddICECandidate.
HasRemote(e) ==
  sig[e] = "have-remote-offer" \/ (sig[e] = "stable" /\ local[e])

Accepts(e, n) == life[e] # "down" /\ HasRemote(e) /\ n \notin Unusable

GiveCandidate(e, n) ==
  /\ added' = [added EXCEPT ![e] = IF Accepts(e, n) THEN @ \cup {n} ELSE @]
  /\ dropped' = [dropped EXCEPT ![e] = IF n \in Unusable THEN @ \cup {n} ELSE @]

FlushOne(e) ==
  /\ at[e] = "flushing" /\ batch[e] # <<>>
  /\ GiveCandidate(e, Head(batch[e]))
  /\ batch' = [batch EXCEPT ![e] = Tail(@)]
  /\ failed' = [failed EXCEPT ![e] = @ \/ ~Accepts(e, Head(batch[e]))]
  /\ UNCHANGED <<link, at, msg, life, sig, channel, local, known, pending,
                 gathered, taken>>

\* An error of any candidate is returned as one of the description, and
\* handleOffer does not answer.
FlushEnds(e) ==
  /\ at[e] = "flushing" /\ batch[e] = <<>>
  /\ Goto(e, IF msg[e].kind = "offer" /\ ~failed[e] THEN "answering" ELSE "idle")
  /\ UNCHANGED <<link, msg, life, pcVars, iceVars, gathered, history>>

\* CreateAnswer and SetLocalDescription.
SetLocalAnswer(e) ==
  /\ at[e] = "answering"
  /\ IF life[e] = "down" \/ sig[e] # "have-remote-offer"
     THEN Goto(e, "idle") /\ UNCHANGED <<sig, local>>
     ELSE /\ Goto(e, "sendAnswer")
          /\ sig' = [sig EXCEPT ![e] = "stable"]
          /\ local' = [local EXCEPT ![e] = TRUE]
  /\ UNCHANGED <<link, msg, life, added, channel, iceVars, gathered, history>>

SendAnswer(e) ==
  /\ at[e] = "sendAnswer"
  /\ SendTo(e, Message("answer", 0))
  /\ Goto(e, "idle")
  /\ UNCHANGED <<msg, life, pcVars, iceVars, gathered, history>>

\* A candidate for a closed peer is refused; one that comes before the
\* description waits, if there is room; the others go to the connection.
AddICECandidate(e) ==
  /\ at[e] = "found" /\ msg[e].kind = "candidate"
  /\ Goto(e, IF known[e] /\ ~IsClosed(e) THEN "adding" ELSE "idle")
  /\ IF IsClosed(e) \/ known[e]
     THEN UNCHANGED <<pending, dropped>>
     ELSE IF Len(pending[e]) >= MaxPending
     THEN /\ dropped' = [dropped EXCEPT ![e] = @ \cup {msg[e].n}]
          /\ UNCHANGED pending
     ELSE /\ pending' = [pending EXCEPT ![e] = Append(@, msg[e].n)]
          /\ UNCHANGED dropped
  /\ UNCHANGED <<link, msg, life, pcVars, known, batch, failed, gathered,
                 taken>>

\* peer.PC.AddICECandidate, after the unlock.
AddNow(e) ==
  /\ at[e] = "adding"
  /\ GiveCandidate(e, msg[e].n)
  /\ Goto(e, "idle")
  /\ UNCHANGED <<link, msg, life, sig, channel, local, iceVars, gathered,
                 taken>>

----------------------------------------------------------------------------
\* handlePeerLeft and RemotePeer.Close, in any goroutine.

RemovePeer(e) ==
  /\ life[e] = "up"
  /\ life' = [life EXCEPT ![e] = "removed"]
  /\ UNCHANGED <<link, at, msg, pcVars, iceVars, gathered, history>>

ClosePeer(e) ==
  /\ life[e] = "removed"
  /\ life' = [life EXCEPT ![e] = "closed"]
  /\ pending' = [pending EXCEPT ![e] = <<>>]
  /\ UNCHANGED <<link, at, msg, pcVars, known, batch, failed, gathered,
                 history>>

CloseConn(e) ==
  /\ life[e] = "closed"
  /\ life' = [life EXCEPT ![e] = "down"]
  /\ UNCHANGED <<link, at, msg, pcVars, iceVars, gathered, history>>

\* The connection comes up, once both ends are stable and one has an address
\* of the other, and the data channel is announced to the end that waits.
AnnounceChannel ==
  /\ channel["lo"] = "set" /\ channel["hi"] = "none"
  /\ \A e \in Ends : sig[e] = "stable" /\ known[e] /\ life[e] # "down"
  /\ \E e \in Ends : added[e] # {}
  /\ channel' = [channel EXCEPT !["hi"] =
                   IF IsClosed("hi") THEN "refused" ELSE "set"]
  /\ UNCHANGED <<link, at, msg, life, sig, added, local, iceVars, gathered,
                 history>>

----------------------------------------------------------------------------
LoopStep(e) ==
  \/ HandleJoined(e) \/ CreateChannel(e) \/ SetLocalOffer(e) \/ SendOffer(e)
  \/ TakeMessage(e) \/ CheckOpen(e) \/ ApplyRemote(e) \/ FlagRemote(e)
  \/ FlushOne(e) \/ FlushEnds(e) \/ SetLocalAnswer(e) \/ SendAnswer(e)
  \/ AddICECandidate(e) \/ AddNow(e)

CloseStep(e) == ClosePeer(e) \/ CloseConn(e)

\* Nothing is left to happen.
Finished ==
  /\ \A e \in Ends : at[e] = "idle" /\ link[e] = <<>> /\ life[e] = "down"
  /\ UNCHANGED vars

Next ==
  \/ \E e \in Ends : LoopStep(e) \/ Gather(e) \/ RemovePeer(e) \/ CloseStep(e)
  \/ AnnounceChannel
  \/ Finished

Spec == Init /\ [][Next]_vars

\* The loops run, the gatherers find what there is to find, a connection that
\* can come up does.  Nothing makes anyone remove a peer.
Fairness ==
  /\ \A e \in Ends :
       WF_vars(LoopStep(e)) /\ WF_vars(Gather(e)) /\ WF_vars(CloseStep(e))
  /\ WF_vars(AnnounceChannel)

FairSpec == Spec /\ Fairness

----------------------------------------------------------------------------
\* Properties.

\* Every variable keeps the shape of the value it stands for, and no more
\* than MaxPending candidates wait for a description.
TypeOK ==
  /\ link \in [Ends -> Seq(Messages)] /\ msg \in [Ends -> Messages]
  /\ at \in [Ends -> {"idle", "channel", "offering", "sendOffer", "found",
                     "open", "applied", "flushing", "answering", "sendAnswer",
                     "adding"}]
  /\ life \in [Ends -> {"none", "up", "removed", "closed", "down"}]
  /\ sig \in [Ends -> {"stable", "have-local-offer", "have-remote-offer"}]
  /\ channel \in [Ends -> {"none", "set", "refused"}]
  /\ {known, failed, local} \subseteq [Ends -> BOOLEAN]
  /\ gathered \in [Ends -> 0..MaxCandidates]
  /\ {pending, batch} \subseteq [Ends -> Seq(1..MaxCandidates)]
  /\ \A e \in Ends : Len(pending[e]) <= MaxPending /\ Len(batch[e]) <= MaxPending
  /\ {added, taken, dropped} \subseteq [Ends -> SUBSET (1..MaxCandidates)]

\* The peer connection is never given a description its state refuses: the
\* rule that the lower ID offers keeps two offers from crossing, and no
\* message, however late, finds the negotiation in another state.
NoGlare ==
  \A e \in Ends :
    /\ at[e] = "open" => sig[e] = StateFor(msg[e].kind)
    /\ at[e] = "offering" => sig[e] = "stable"
    /\ at[e] = "answering" => sig[e] = "have-remote-offer"

\* A candidate that the loop took while its peer was there is with the
\* connection, or waits for the description, or is in the loop's hands: one
\* that overtook the offer or answer is not lost, and none is given to a
\* connection that must refuse it.  Only candidates beyond the maximum, or
\* that no connection takes, are dropped.  Close empties pendingICE for good:
\* a handler that found the peer before it was removed parks nothing in it.
CandidatesKept ==
  \A e \in Ends :
    /\ life[e] = "up" =>
         taken[e] \subseteq UNION {
           added[e], dropped[e], Range(pending[e]), Range(batch[e]),
           IF at[e] \in {"found", "adding"} /\ msg[e].kind = "candidate"
           THEN {msg[e].n} ELSE {}}
    /\ Len(pending[e]) <= MaxPending
    /\ IsClosed(e) => pending[e] = <<>>

\* The negotiation is complete at both ends.
Connected ==
  /\ \A e \in Ends :
       /\ sig[e] = "stable" /\ known[e] /\ channel[e] = "set"
       /\ added[e] \cup dropped[e] = 1..MaxCandidates

\* Unless a peer is removed, two clients that were told of each other end up
\* connected, with the video channel registered at both ends and every usable
\* candidate added, in whatever order offers, answers and candidates were
\* sent.  The one thing that stops them is an unusable candidate that arrived
\* before the offer: SetRemoteDescription then fails and there is no answer.
Connects ==
  <>[](\/ Connected
       \/ \E e \in Ends : life[e] \notin {"none", "up"}
       \/ failed["hi"])

=============================================================================
