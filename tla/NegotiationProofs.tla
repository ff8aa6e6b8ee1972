-------------------------- MODULE NegotiationProofs --------------------------
(***************************************************************************)
(* Proofs about the offer, answer and ICE exchange, for any number of      *)
(* candidates and any room for those that come early.                      *)
(***************************************************************************)
EXTENDS Negotiation, TLAPS

----------------------------------------------------------------------------
\* The inductive invariant.

\* The types, in groups.
PlaceType ==
  /\ at \in [Ends -> {"idle", "channel", "offering", "sendOffer", "found",
                     "open", "applied", "flushing", "answering", "sendAnswer",
                     "adding"}]
  /\ life \in [Ends -> {"none", "up", "removed", "closed", "down"}]
  /\ sig \in [Ends -> {"stable", "have-local-offer", "have-remote-offer"}]
  /\ channel \in [Ends -> {"none", "set", "refused"}]

LinkType ==
  /\ link \in [Ends -> Seq(Messages)] /\ msg \in [Ends -> Messages]
  /\ gathered \in [Ends -> 0..MaxCandidates]

FlagType ==
  /\ known \in [Ends -> BOOLEAN] /\ failed \in [Ends -> BOOLEAN]
  /\ local \in [Ends -> BOOLEAN]

QueueType ==
  /\ pending \in [Ends -> Seq(1..MaxCandidates)]
  /\ batch \in [Ends -> Seq(1..MaxCandidates)]
  /\ \A e \in Ends : Len(pending[e]) <= MaxPending /\ Len(batch[e]) <= MaxPending

SetType ==
  /\ added \in [Ends -> SUBSET (1..MaxCandidates)]
  /\ taken \in [Ends -> SUBSET (1..MaxCandidates)]
  /\ dropped \in [Ends -> SUBSET (1..MaxCandidates)]

Kinds == {"joined", "offer", "answer", "candidate"}

\* A message of this kind is among those of s; at most once; and the
\* introduction only as the first.
Holds(kind, s) == \E i \in 1..Len(s) : s[i].kind = kind

Single(kind, s) ==
  \A i, j \in 1..Len(s) : s[i].kind = kind /\ s[j].kind = kind => i = j

First(s) == \A i \in 1..Len(s) : s[i].kind = "joined" => i = 1

\* An end does nothing before the introduction, and is introduced once.
Introduced ==
  \A e \in Ends :
    /\ First(link[e]) /\ (Holds("joined", link[e]) => life[e] = "none")
    /\ life[e] = "none" => at[e] = "idle" /\ ~local[e]

\* The lower ID offers, the higher one answers.
Roles ==
  /\ ~Holds("offer", link["lo"]) /\ msg["lo"].kind # "offer"
  /\ ~Holds("answer", link["hi"]) /\ msg["hi"].kind # "answer"
  /\ at["lo"] \notin {"answering", "sendAnswer"}
  /\ at["hi"] \notin {"channel", "offering", "sendOffer"}
  /\ \A e \in Ends :
       /\ at[e] = "adding" => msg[e].kind = "candidate"
       /\ at[e] \in {"open", "applied", "flushing", "answering", "sendAnswer"} =>
            msg[e].kind = IF e = "lo" THEN "answer" ELSE "offer"

\* The end that offers: no more than one offer, which is the first thing hi
\* applies.
Unsent ==
  life["lo"] = "none" \/ at["lo"] \in {"channel", "offering", "sendOffer"}

OfferOnce ==
  /\ Single("offer", link["hi"])
  /\ at["lo"] \in {"channel", "offering"} => ~local["lo"]
  /\ at["lo"] = "sendOffer" => local["lo"]
  /\ ~local["lo"] => sig["lo"] = "stable"
  /\ Unsent => ~Holds("offer", link["hi"])
  /\ Unsent \/ Holds("offer", link["hi"]) =>
       ~local["hi"] /\ ~known["hi"] /\ sig["hi"] = "stable"
       /\ at["hi"] \in {"idle", "found"} /\ msg["hi"].kind # "offer"
  /\ at["hi"] \in {"found", "open"} /\ msg["hi"].kind = "offer" =>
       ~local["hi"] /\ ~known["hi"] /\ sig["hi"] = "stable"
  /\ at["hi"] \in {"applied", "flushing", "answering"} =>
       ~local["hi"] /\ sig["hi"] = "have-remote-offer"
  /\ at["hi"] = "sendAnswer" => local["hi"]

\* No more than one answer, for which lo waits with its offer.
AnswerOnce ==
  /\ Single("answer", link["lo"])
  /\ Holds("offer", link["hi"]) \/ msg["hi"].kind = "offer" \/ local["hi"] =>
       local["lo"]
  /\ Holds("answer", link["lo"]) \/ msg["lo"].kind = "answer" =>
       local["lo"] /\ local["hi"] /\ at["hi"] # "sendAnswer"
  /\ local["lo"] /\ msg["lo"].kind # "answer"
     /\ \/ ~local["hi"] \/ at["hi"] = "sendAnswer"
        \/ Holds("answer", link["lo"])
     =>
       sig["lo"] = "have-local-offer"
  /\ Holds("answer", link["lo"]) => msg["lo"].kind # "answer"
  /\ at["lo"] \in {"found", "open"} /\ msg["lo"].kind = "answer" =>
       sig["lo"] = "have-local-offer"
  /\ at["lo"] \in {"applied", "flushing"} => sig["lo"] = "stable"

\* A connection of which the peer says that its remote description is set
\* takes candidates; only while they are handed over is there a batch.
Ready ==
  \A e \in Ends :
    /\ known[e] => HasRemote(e)
    /\ at[e] \in {"flushing", "answering", "sendAnswer", "adding"} => known[e]
    /\ at[e] # "flushing" => batch[e] = << >>

\* The candidate the loop holds.
Hand(e) ==
  IF at[e] \in {"found", "adding"} /\ msg[e].kind = "candidate"
  THEN {msg[e].n} ELSE {}

Kept ==
  \A e \in Ends :
    /\ life[e] \in {"none", "up"} =>
         taken[e] \subseteq added[e] \cup dropped[e] \cup Range(pending[e])
                            \cup Range(batch[e]) \cup Hand(e)
    /\ IsClosed(e) => pending[e] = << >>

NegotiationInv ==
  TypeOK /\ Introduced /\ Roles /\ OfferOnce /\ AnswerOnce /\ Ready /\ Kept

----------------------------------------------------------------------------
\* What steps do to the messages under way.

\* The loop of e takes its next message.
Takes(e) ==
  /\ link' \in [Ends -> Seq(Messages)] /\ Head(link[e]) \in Messages
  /\ Head(link[e]).kind \in Kinds /\ Holds(Head(link[e]).kind, link[e])
  /\ Single(Head(link[e]).kind, link[e]) => ~Holds(Head(link[e]).kind, link'[e])
  /\ First(link[e]) => ~Holds("joined", link'[e])
  /\ \A d \in Ends :
       /\ Holds("offer", link'[d]) => Holds("offer", link[d])
       /\ Holds("answer", link'[d]) => Holds("answer", link[d])
       /\ Holds("joined", link'[d]) => Holds("joined", link[d])
       /\ Single("offer", link[d]) => Single("offer", link'[d])
       /\ Single("answer", link[d]) => Single("answer", link'[d])
       /\ First(link[d]) => First(link'[d])
  /\ \A d \in Ends \ {e} : link'[d] = link[d]

\* A message of this kind is sent to d, and nothing to e.
Sends(kind, e, d) ==
  /\ link' \in [Ends -> Seq(Messages)] /\ link'[e] = link[e]
  /\ Holds("joined", link'[d]) <=> Holds("joined", link[d])
  /\ Holds("offer", link'[d]) <=> Holds("offer", link[d]) \/ kind = "offer"
  /\ Holds("answer", link'[d]) <=> Holds("answer", link[d]) \/ kind = "answer"
  /\ Single("offer", link[d]) /\ (~Holds("offer", link[d]) \/ kind # "offer") =>
       Single("offer", link'[d])
  /\ Single("answer", link[d]) /\ (~Holds("answer", link[d]) \/ kind # "answer")
       => Single("answer", link'[d])
  /\ First(link[d]) => First(link'[d])

----------------------------------------------------------------------------
\* Sequences.

\* The parts of one that is not empty.
LEMMA NonEmpty ==
  ASSUME NEW S, NEW s \in Seq(S), s # << >>
  PROVE  /\ Head(s) \in S /\ Tail(s) \in Seq(S)
         /\ Len(s) \in Nat /\ Len(Tail(s)) = Len(s) - 1
         /\ Range(s) \subseteq {Head(s)} \cup Range(Tail(s))
<1>1. /\ Head(s) \in S /\ Tail(s) \in Seq(S) /\ Head(s) = s[1]
      /\ Len(s) \in Nat /\ Len(Tail(s)) = Len(s) - 1
  OBVIOUS
<1>2. ASSUME NEW x \in Range(s) PROVE x \in {Head(s)} \cup Range(Tail(s))
  <2>1. PICK i \in 1..Len(s) : x = s[i]
    BY <1>2 DEF Range
  <2>2. CASE i = 1
    BY <1>1, <2>1, <2>2
  <2>3. CASE i # 1
    <3>1. i - 1 \in 1..Len(Tail(s)) /\ Tail(s)[i - 1] = s[i]
      BY <1>1, <2>3
    <3>2. DOMAIN Tail(s) = 1..Len(Tail(s))
      BY <1>1
    <3> QED
      BY <2>1, <3>1, <3>2 DEF Range
  <2> QED
    BY <2>2, <2>3
<1> QED
  BY <1>1, <1>2

\* Appending one, and none at all.
LEMMA RangeAppended ==
  ASSUME NEW S, NEW s \in Seq(S), NEW x
  PROVE  Range(s) \cup {x} \subseteq Range(Append(s, x))
<1>1. /\ DOMAIN Append(s, x) = 1..(Len(s) + 1) /\ Len(s) \in Nat
      /\ DOMAIN s = 1..Len(s) /\ Append(s, x)[Len(s) + 1] = x
      /\ \A i \in 1..Len(s) : Append(s, x)[i] = s[i]
  OBVIOUS
<1>2. x \in Range(Append(s, x))
  BY <1>1 DEF Range
<1>3. \A i \in 1..Len(s) : s[i] \in Range(Append(s, x))
  BY <1>1 DEF Range
<1> QED
  BY <1>1, <1>2, <1>3 DEF Range

\* Nothing is in the empty sequence.
LEMMA RangeEmpty == Range(<< >>) = {}
  BY DEF Range

----------------------------------------------------------------------------
\* What is under way to an end.

\* Taking the first message.
LEMMA TailFacts ==
  ASSUME NEW s \in Seq(Messages), s # << >>, NEW kind
  PROVE  /\ Head(s) \in Messages /\ Tail(s) \in Seq(Messages)
         /\ Holds(Head(s).kind, s)
         /\ Holds(kind, Tail(s)) => Holds(kind, s)
         /\ Single(kind, s) => Single(kind, Tail(s))
         /\ Single(Head(s).kind, s) => ~Holds(Head(s).kind, Tail(s))
         /\ First(s) => ~Holds("joined", Tail(s))
<1> DEFINE t == Tail(s)
<1>1. Head(s) \in Messages /\ t \in Seq(Messages) /\ Len(t) = Len(s) - 1
  OBVIOUS
<1>2. Head(s) = s[1] /\ Len(s) \in Nat /\ Len(s) >= 1
  OBVIOUS
<1>3. \A i \in 1..Len(t) : t[i] = s[i + 1] /\ i + 1 \in 1..Len(s) /\ i + 1 # 1
  BY <1>1, <1>2
<1> HIDE DEF t
<1>4. Holds(Head(s).kind, s)
  BY <1>2 DEF Holds
<1>5. Holds(kind, t) => Holds(kind, s)
  BY <1>3 DEF Holds
<1>6. Single(kind, s) => Single(kind, t)
  <2> SUFFICES ASSUME Single(kind, s), NEW i \in 1..Len(t), NEW j \in 1..Len(t),
                      t[i].kind = kind, t[j].kind = kind
               PROVE  i = j
    BY DEF Single
  <2>1. i + 1 = j + 1
    BY <1>3 DEF Single
  <2> QED
    BY <1>1, <1>2, <2>1
<1>7. Single(Head(s).kind, s) => ~Holds(Head(s).kind, t)
  BY <1>2, <1>3 DEF Single, Holds
<1>8. First(s) => ~Holds("joined", t)
  BY <1>3 DEF First, Holds
<1> QED
  BY <1>1, <1>4, <1>5, <1>6, <1>7, <1>8 DEF t

\* Adding a message at the end.
LEMMA AppendFacts ==
  ASSUME NEW s \in Seq(Messages), NEW m \in Messages, NEW kind
  PROVE  /\ Append(s, m) \in Seq(Messages)
         /\ Holds(kind, Append(s, m)) <=> Holds(kind, s) \/ m.kind = kind
         /\ Single(kind, s) /\ (~Holds(kind, s) \/ m.kind # kind) =>
              Single(kind, Append(s, m))
         /\ First(s) /\ m.kind # "joined" => First(Append(s, m))
<1> DEFINE t == Append(s, m)
<1>1. /\ t \in Seq(Messages) /\ Len(s) \in Nat /\ Len(t) = Len(s) + 1
      /\ t[Len(s) + 1] = m /\ \A i \in 1..Len(s) : t[i] = s[i]
  OBVIOUS
<1>2. \A i \in 1..Len(t) : i \in 1..Len(s) \/ i = Len(t)
  BY <1>1
<1>3. Len(t) \in 1..Len(t) /\ t[Len(t)] = m /\ \A i \in 1..Len(s) : i \in 1..Len(t)
  BY <1>1
<1> HIDE DEF t
<1>4. Holds(kind, t) <=> Holds(kind, s) \/ m.kind = kind
  BY <1>1, <1>2, <1>3 DEF Holds
<1>5. Single(kind, s) /\ (~Holds(kind, s) \/ m.kind # kind) => Single(kind, t)
  BY <1>1, <1>2, <1>3 DEF Holds, Single
<1>6. First(s) /\ m.kind # "joined" => First(t)
  BY <1>1, <1>2, <1>3 DEF First
<1> QED
  BY <1>1, <1>4, <1>5, <1>6 DEF t

\* What the loops and the gatherers send is a message.
LEMMA MessageFacts ==
  /\ Message("offer", 0) \in Messages /\ Message("answer", 0) \in Messages
  /\ \A n \in 1..MaxCandidates : Message("candidate", n) \in Messages
  /\ \A kind, n : Message(kind, n).kind = kind /\ Message(kind, n).n = n
  /\ \A m \in Messages :
       m.kind \in Kinds /\ (m.kind = "candidate" => m.n \in 1..MaxCandidates)
  BY DEF Message, Messages, Kinds

\* The loop of e takes its next message.
LEMMA TakenFacts ==
  ASSUME TypeOK, NEW e \in Ends, link[e] # << >>,
         link' = [link EXCEPT ![e] = Tail(@)]
  PROVE  Takes(e)
<1>1. link \in [Ends -> Seq(Messages)]
  BY DEF TypeOK
<1>2. /\ link'[e] = Tail(link[e]) /\ link[e] \in Seq(Messages)
      /\ \A d \in Ends \ {e} : link'[d] = link[d]
  BY <1>1
<1>3. \A kind \in Kinds :
        /\ Holds(kind, link'[e]) => Holds(kind, link[e])
        /\ Single(kind, link[e]) => Single(kind, link'[e])
  BY <1>2, TailFacts
<1>4. /\ Head(link[e]) \in Messages /\ Head(link[e]).kind \in Kinds
      /\ Tail(link[e]) \in Seq(Messages)
      /\ Holds(Head(link[e]).kind, link[e])
      /\ Single(Head(link[e]).kind, link[e]) =>
           ~Holds(Head(link[e]).kind, link'[e])
      /\ First(link[e]) => ~Holds("joined", link'[e])
  BY <1>2, TailFacts, MessageFacts
<1>5. link' \in [Ends -> Seq(Messages)]
  BY <1>1, <1>4
<1>6. First(link[e]) => First(link'[e])
  BY <1>4 DEF First, Holds
<1> QED
  BY <1>2, <1>3, <1>4, <1>5, <1>6 DEF Takes, Kinds

\* A message is sent to the other end.
LEMMA SentFacts ==
  ASSUME TypeOK, NEW e \in Ends, NEW m \in Messages, SendTo(e, m),
         m.kind # "joined"
  PROVE  Sends(m.kind, e, Other(e))
<1> DEFINE d == Other(e)
<1>1. link \in [Ends -> Seq(Messages)] /\ d \in Ends /\ d # e
  BY DEF TypeOK, Ends, Other
<1> HIDE DEF d
<1>2. link' = [link EXCEPT ![d] = Append(@, m)]
  BY DEF SendTo, d
<1>3. link'[d] = Append(link[d], m) /\ link[d] \in Seq(Messages)
      /\ link'[e] = link[e]
  BY <1>1, <1>2
<1>4. \A kind \in Kinds :
        /\ Holds(kind, link'[d]) <=> Holds(kind, link[d]) \/ m.kind = kind
        /\ Single(kind, link[d]) /\ (~Holds(kind, link[d]) \/ m.kind # kind) =>
             Single(kind, link'[d])
  BY <1>3, AppendFacts
<1>5. Append(link[d], m) \in Seq(Messages)
  BY <1>3, AppendFacts
<1>6. First(link[d]) /\ m.kind # "joined" => First(link'[d])
  BY <1>3, AppendFacts
<1>7. link' \in [Ends -> Seq(Messages)]
  BY <1>1, <1>2, <1>5
<1> QED
  BY <1>3, <1>4, <1>6, <1>7 DEF d, Sends, Kinds

\* Which actions take and send.
LEMMA ActionLinks ==
  ASSUME TypeOK, NEW e \in Ends
  PROVE  /\ HandleJoined(e) \/ TakeMessage(e) => Takes(e)
         /\ SendOffer(e) => Sends("offer", e, Other(e))
         /\ SendAnswer(e) => Sends("answer", e, Other(e))
         /\ Gather(e) => Sends("candidate", e, Other(e))
<1>1. ASSUME HandleJoined(e) \/ TakeMessage(e) PROVE Takes(e)
  <2>1. link[e] # << >> /\ link' = [link EXCEPT ![e] = Tail(@)]
    BY <1>1 DEF HandleJoined, TakeMessage
  <2> QED
    BY <2>1, TakenFacts
<1>2. ASSUME NEW kind \in {"offer", "answer", "candidate"}, NEW n,
             Message(kind, n) \in Messages, SendTo(e, Message(kind, n))
      PROVE  Sends(kind, e, Other(e))
  <2>1. Message(kind, n).kind = kind
    BY MessageFacts
  <2> DEFINE m == Message(kind, n)
  <2>2. m \in Messages /\ SendTo(e, m) /\ m.kind # "joined"
    BY <1>2, <2>1
  <2> HIDE DEF m
  <2>3. Sends(m.kind, e, Other(e))
    BY <2>2, SentFacts
  <2> QED
    BY <2>1, <2>3 DEF m
<1>3. /\ SendOffer(e) => Sends("offer", e, Other(e))
      /\ SendAnswer(e) => Sends("answer", e, Other(e))
  BY <1>2, MessageFacts DEF SendOffer, SendAnswer
<1>4. ASSUME Gather(e) PROVE Sends("candidate", e, Other(e))
  <2>1. gathered[e] + 1 \in 1..MaxCandidates
    BY <1>4, NegotiationAssumption DEF Gather, TypeOK
  <2>2. Message("candidate", gathered[e] + 1) \in Messages
    BY <2>1, MessageFacts
  <2> QED
    BY <1>2, <1>4, <2>2 DEF Gather
<1> QED
  BY <1>1, <1>2, <1>3, <1>4

----------------------------------------------------------------------------
\* Types.

\* The groups make up the type invariant.
LEMMA TypeParts ==
  TypeOK <=> PlaceType /\ LinkType /\ FlagType /\ QueueType /\ SetType
  BY DEF TypeOK, PlaceType, LinkType, FlagType, QueueType, SetType

\* Places and states.
LEMMA PlaceStep ==
  ASSUME PlaceType, [Next]_vars
  PROVE  PlaceType'
<1> USE DEF PlaceType, Goto, pcVars, iceVars, history
<1>1. ASSUME NEW e \in Ends, HandleJoined(e) PROVE PlaceType'
  BY <1>1 DEF HandleJoined, Goto
<1>2. ASSUME NEW e \in Ends, CreateChannel(e) PROVE PlaceType'
  BY <1>2 DEF CreateChannel, Goto
<1>3. ASSUME NEW e \in Ends, SetLocalOffer(e) PROVE PlaceType'
  BY <1>3 DEF SetLocalOffer, Goto
<1>4. ASSUME NEW e \in Ends, SendOffer(e) PROVE PlaceType'
  BY <1>4 DEF SendOffer, Goto, SendTo
<1>5. ASSUME NEW e \in Ends, TakeMessage(e) PROVE PlaceType'
  BY <1>5 DEF TakeMessage, Goto
<1>6. ASSUME NEW e \in Ends, CheckOpen(e) PROVE PlaceType'
  BY <1>6 DEF CheckOpen, Goto
<1>7. ASSUME NEW e \in Ends, ApplyRemote(e) PROVE PlaceType'
  BY <1>7 DEF ApplyRemote, Goto
<1>8. ASSUME NEW e \in Ends, FlagRemote(e) PROVE PlaceType'
  BY <1>8 DEF FlagRemote, Goto
<1>9. ASSUME NEW e \in Ends, FlushOne(e) PROVE PlaceType'
  BY <1>9 DEF FlushOne, GiveCandidate
<1>10. ASSUME NEW e \in Ends, FlushEnds(e) PROVE PlaceType'
  BY <1>10 DEF FlushEnds, Goto
<1>11. ASSUME NEW e \in Ends, SetLocalAnswer(e) PROVE PlaceType'
  BY <1>11 DEF SetLocalAnswer, Goto
<1>12. ASSUME NEW e \in Ends, SendAnswer(e) PROVE PlaceType'
  BY <1>12 DEF SendAnswer, Goto, SendTo
<1>13. ASSUME NEW e \in Ends, AddICECandidate(e) PROVE PlaceType'
  BY <1>13 DEF AddICECandidate, Goto
<1>14. ASSUME NEW e \in Ends, AddNow(e) PROVE PlaceType'
  BY <1>14 DEF AddNow, Goto, GiveCandidate
<1>15. ASSUME NEW e \in Ends, Gather(e) PROVE PlaceType'
  BY <1>15 DEF Gather, SendTo
<1>16. ASSUME NEW e \in Ends, RemovePeer(e) PROVE PlaceType'
  BY <1>16 DEF RemovePeer
<1>17. ASSUME NEW e \in Ends, ClosePeer(e) PROVE PlaceType'
  BY <1>17 DEF ClosePeer
<1>18. ASSUME NEW e \in Ends, CloseConn(e) PROVE PlaceType'
  BY <1>18 DEF CloseConn
<1>19. CASE AnnounceChannel
  BY <1>19 DEF AnnounceChannel
<1>20. CASE UNCHANGED vars
  BY <1>20 DEF vars
<1> QED
  BY <1>1, <1>2, <1>3, <1>4, <1>5, <1>6, <1>7, <1>8, <1>9, <1>10, <1>11, <1>12,
     <1>13, <1>14, <1>15, <1>16, <1>17, <1>18, <1>19, <1>20
  DEF Next, LoopStep, CloseStep, Finished

\* Messages.
LEMMA LinkStep ==
  ASSUME TypeOK, [Next]_vars
  PROVE  LinkType'
<1>0. LinkType
  BY TypeParts
<1> USE DEF LinkType, pcVars, iceVars, history
<1>1. ASSUME NEW e \in Ends, HandleJoined(e) PROVE LinkType'
  <2>1. Takes(e) /\ UNCHANGED <<msg, gathered>>
    BY <1>1, ActionLinks DEF HandleJoined
  <2> QED
    BY <1>0, <2>1 DEF Takes
<1>2. ASSUME NEW e \in Ends, CreateChannel(e) PROVE LinkType'
  BY <1>2, <1>0 DEF CreateChannel, Goto
<1>3. ASSUME NEW e \in Ends, SetLocalOffer(e) PROVE LinkType'
  BY <1>3, <1>0 DEF SetLocalOffer, Goto
<1>4. ASSUME NEW e \in Ends, SendOffer(e) PROVE LinkType'
  <2>1. Sends("offer", e, Other(e)) /\ UNCHANGED <<msg, gathered>>
    BY <1>4, ActionLinks DEF SendOffer
  <2> QED
    BY <1>0, <2>1 DEF Sends
<1>5. ASSUME NEW e \in Ends, TakeMessage(e) PROVE LinkType'
  <2>1. Takes(e)
    BY <1>5, ActionLinks
  <2>2. /\ msg' = msg \/ msg' = [msg EXCEPT ![e] = Head(link[e])]
        /\ gathered' = gathered
    BY <1>5 DEF TakeMessage
  <2> QED
    BY <1>0, <2>1, <2>2 DEF Takes
<1>6. ASSUME NEW e \in Ends, CheckOpen(e) PROVE LinkType'
  BY <1>6, <1>0 DEF CheckOpen, Goto
<1>7. ASSUME NEW e \in Ends, ApplyRemote(e) PROVE LinkType'
  BY <1>7, <1>0 DEF ApplyRemote, Goto
<1>8. ASSUME NEW e \in Ends, FlagRemote(e) PROVE LinkType'
  BY <1>8, <1>0 DEF FlagRemote, Goto
<1>9. ASSUME NEW e \in Ends, FlushOne(e) PROVE LinkType'
  BY <1>9, <1>0 DEF FlushOne, GiveCandidate
<1>10. ASSUME NEW e \in Ends, FlushEnds(e) PROVE LinkType'
  BY <1>10, <1>0 DEF FlushEnds, Goto
<1>11. ASSUME NEW e \in Ends, SetLocalAnswer(e) PROVE LinkType'
  BY <1>11, <1>0 DEF SetLocalAnswer, Goto
<1>12. ASSUME NEW e \in Ends, SendAnswer(e) PROVE LinkType'
  <2>1. Sends("answer", e, Other(e)) /\ UNCHANGED <<msg, gathered>>
    BY <1>12, ActionLinks DEF SendAnswer
  <2> QED
    BY <1>0, <2>1 DEF Sends
<1>13. ASSUME NEW e \in Ends, AddICECandidate(e) PROVE LinkType'
  BY <1>13, <1>0 DEF AddICECandidate, Goto
<1>14. ASSUME NEW e \in Ends, AddNow(e) PROVE LinkType'
  BY <1>14, <1>0 DEF AddNow, Goto, GiveCandidate
<1>15. ASSUME NEW e \in Ends, Gather(e) PROVE LinkType'
  <2>1. Sends("candidate", e, Other(e))
    BY <1>15, ActionLinks
  <2>2. /\ gathered[e] + 1 \in 1..MaxCandidates /\ msg' = msg
        /\ gathered' = [gathered EXCEPT ![e] = @ + 1]
    BY <1>15, <1>0, NegotiationAssumption DEF Gather
  <2>3. gathered' \in [Ends -> 0..MaxCandidates]
    BY <1>0, <2>2
  <2> QED
    BY <1>0, <2>1, <2>2, <2>3 DEF Sends
<1>16. ASSUME NEW e \in Ends, RemovePeer(e) PROVE LinkType'
  BY <1>16, <1>0 DEF RemovePeer
<1>17. ASSUME NEW e \in Ends, ClosePeer(e) PROVE LinkType'
  BY <1>17, <1>0 DEF ClosePeer
<1>18. ASSUME NEW e \in Ends, CloseConn(e) PROVE LinkType'
  BY <1>18, <1>0 DEF CloseConn
<1>19. CASE AnnounceChannel
  BY <1>19, <1>0 DEF AnnounceChannel
<1>20. CASE UNCHANGED vars
  BY <1>20, <1>0 DEF vars
<1> QED
  BY <1>1, <1>2, <1>3, <1>4, <1>5, <1>6, <1>7, <1>8, <1>9, <1>10, <1>11, <1>12,
     <1>13, <1>14, <1>15, <1>16, <1>17, <1>18, <1>19, <1>20
  DEF Next, LoopStep, CloseStep, Finished

\* Flags.
LEMMA FlagStep ==
  ASSUME FlagType, [Next]_vars
  PROVE  FlagType'
<1> USE DEF FlagType, pcVars, iceVars, history
<1>1. ASSUME NEW e \in Ends, HandleJoined(e) PROVE FlagType'
  BY <1>1 DEF HandleJoined, Goto
<1>2. ASSUME NEW e \in Ends, CreateChannel(e) PROVE FlagType'
  BY <1>2 DEF CreateChannel, Goto
<1>3. ASSUME NEW e \in Ends, SetLocalOffer(e) PROVE FlagType'
  BY <1>3 DEF SetLocalOffer, Goto
<1>4. ASSUME NEW e \in Ends, SendOffer(e) PROVE FlagType'
  BY <1>4 DEF SendOffer, Goto, SendTo
<1>5. ASSUME NEW e \in Ends, TakeMessage(e) PROVE FlagType'
  BY <1>5 DEF TakeMessage, Goto
<1>6. ASSUME NEW e \in Ends, CheckOpen(e) PROVE FlagType'
  BY <1>6 DEF CheckOpen, Goto
<1>7. ASSUME NEW e \in Ends, ApplyRemote(e) PROVE FlagType'
  BY <1>7 DEF ApplyRemote, Goto
<1>8. ASSUME NEW e \in Ends, FlagRemote(e) PROVE FlagType'
  BY <1>8 DEF FlagRemote, Goto
<1>9. ASSUME NEW e \in Ends, FlushOne(e) PROVE FlagType'
  BY <1>9 DEF FlushOne, GiveCandidate
<1>10. ASSUME NEW e \in Ends, FlushEnds(e) PROVE FlagType'
  BY <1>10 DEF FlushEnds, Goto
<1>11. ASSUME NEW e \in Ends, SetLocalAnswer(e) PROVE FlagType'
  BY <1>11 DEF SetLocalAnswer, Goto
<1>12. ASSUME NEW e \in Ends, SendAnswer(e) PROVE FlagType'
  BY <1>12 DEF SendAnswer, Goto, SendTo
<1>13. ASSUME NEW e \in Ends, AddICECandidate(e) PROVE FlagType'
  BY <1>13 DEF AddICECandidate, Goto
<1>14. ASSUME NEW e \in Ends, AddNow(e) PROVE FlagType'
  BY <1>14 DEF AddNow, Goto, GiveCandidate
<1>15. ASSUME NEW e \in Ends, Gather(e) PROVE FlagType'
  BY <1>15 DEF Gather, SendTo
<1>16. ASSUME NEW e \in Ends, RemovePeer(e) PROVE FlagType'
  BY <1>16 DEF RemovePeer
<1>17. ASSUME NEW e \in Ends, ClosePeer(e) PROVE FlagType'
  BY <1>17 DEF ClosePeer
<1>18. ASSUME NEW e \in Ends, CloseConn(e) PROVE FlagType'
  BY <1>18 DEF CloseConn
<1>19. CASE AnnounceChannel
  BY <1>19 DEF AnnounceChannel
<1>20. CASE UNCHANGED vars
  BY <1>20 DEF vars
<1> QED
  BY <1>1, <1>2, <1>3, <1>4, <1>5, <1>6, <1>7, <1>8, <1>9, <1>10, <1>11, <1>12,
     <1>13, <1>14, <1>15, <1>16, <1>17, <1>18, <1>19, <1>20
  DEF Next, LoopStep, CloseStep, Finished

\* Waiting candidates.
LEMMA QueueStep ==
  ASSUME TypeOK, [Next]_vars
  PROVE  QueueType'
<1>0. QueueType /\ LinkType
  BY TypeParts
<1> USE DEF QueueType, pcVars, iceVars, history
<1>1. ASSUME NEW e \in Ends, HandleJoined(e) PROVE QueueType'
  BY <1>1, <1>0 DEF HandleJoined, Goto
<1>2. ASSUME NEW e \in Ends, CreateChannel(e) PROVE QueueType'
  BY <1>2, <1>0 DEF CreateChannel, Goto
<1>3. ASSUME NEW e \in Ends, SetLocalOffer(e) PROVE QueueType'
  BY <1>3, <1>0 DEF SetLocalOffer, Goto
<1>4. ASSUME NEW e \in Ends, SendOffer(e) PROVE QueueType'
  BY <1>4, <1>0 DEF SendOffer, Goto, SendTo
<1>5. ASSUME NEW e \in Ends, TakeMessage(e) PROVE QueueType'
  BY <1>5, <1>0 DEF TakeMessage, Goto
<1>6. ASSUME NEW e \in Ends, CheckOpen(e) PROVE QueueType'
  BY <1>6, <1>0 DEF CheckOpen, Goto
<1>7. ASSUME NEW e \in Ends, ApplyRemote(e) PROVE QueueType'
  BY <1>7, <1>0 DEF ApplyRemote, Goto
<1>8. ASSUME NEW e \in Ends, FlagRemote(e) PROVE QueueType'
  <2>1. /\ pending' = [pending EXCEPT ![e] = << >>]
        /\ batch' = [batch EXCEPT ![e] = pending[e]]
        /\ << >> \in Seq(1..MaxCandidates) /\ Len(<< >>) <= MaxPending
    BY <1>8, NegotiationAssumption DEF FlagRemote
  <2> QED
    BY <1>0, <2>1
<1>9. ASSUME NEW e \in Ends, FlushOne(e) PROVE QueueType'
  <2>1. /\ batch' = [batch EXCEPT ![e] = Tail(@)] /\ pending' = pending
        /\ batch[e] # << >> /\ batch[e] \in Seq(1..MaxCandidates)
    BY <1>9, <1>0 DEF FlushOne
  <2>2. /\ Tail(batch[e]) \in Seq(1..MaxCandidates)
        /\ Len(Tail(batch[e])) = Len(batch[e]) - 1 /\ Len(batch[e]) \in Nat
    BY <2>1, NonEmpty
  <2>3. Len(Tail(batch[e])) <= MaxPending
    BY <1>0, <2>2, NegotiationAssumption
  <2> QED
    BY <1>0, <2>1, <2>2, <2>3
<1>10. ASSUME NEW e \in Ends, FlushEnds(e) PROVE QueueType'
  BY <1>10, <1>0 DEF FlushEnds, Goto
<1>11. ASSUME NEW e \in Ends, SetLocalAnswer(e) PROVE QueueType'
  BY <1>11, <1>0 DEF SetLocalAnswer, Goto
<1>12. ASSUME NEW e \in Ends, SendAnswer(e) PROVE QueueType'
  BY <1>12, <1>0 DEF SendAnswer, Goto, SendTo
<1>13. ASSUME NEW e \in Ends, AddICECandidate(e) PROVE QueueType'
  <2>1. msg[e].n \in 1..MaxCandidates
    BY <1>13, <1>0, MessageFacts DEF AddICECandidate, LinkType
  <2>2. CASE pending' = pending
    BY <1>13, <1>0, <2>2 DEF AddICECandidate
  <2>3. CASE /\ Len(pending[e]) < MaxPending
             /\ pending' = [pending EXCEPT ![e] = Append(@, msg[e].n)]
    <3>1. /\ pending[e] \in Seq(1..MaxCandidates)
          /\ Append(pending[e], msg[e].n) \in Seq(1..MaxCandidates)
          /\ Len(Append(pending[e], msg[e].n)) = Len(pending[e]) + 1
          /\ Len(pending[e]) \in Nat
      BY <1>0, <2>1
    <3>2. Len(pending[e]) + 1 <= MaxPending
      BY <2>3, <3>1, NegotiationAssumption
    <3>3. batch' = batch
      BY <1>13 DEF AddICECandidate
    <3> QED
      BY <1>0, <2>3, <3>1, <3>2, <3>3
  <2>4. Len(pending[e]) \in Nat
    BY <1>0
  <2> QED
    BY <1>13, <2>2, <2>3, <2>4, NegotiationAssumption DEF AddICECandidate
<1>14. ASSUME NEW e \in Ends, AddNow(e) PROVE QueueType'
  BY <1>14, <1>0 DEF AddNow, Goto, GiveCandidate
<1>15. ASSUME NEW e \in Ends, Gather(e) PROVE QueueType'
  BY <1>15, <1>0 DEF Gather, SendTo
<1>16. ASSUME NEW e \in Ends, RemovePeer(e) PROVE QueueType'
  BY <1>16, <1>0 DEF RemovePeer
<1>17. ASSUME NEW e \in Ends, ClosePeer(e) PROVE QueueType'
  <2>1. /\ pending' = [pending EXCEPT ![e] = << >>] /\ batch' = batch
        /\ << >> \in Seq(1..MaxCandidates) /\ Len(<< >>) <= MaxPending
    BY <1>17, NegotiationAssumption DEF ClosePeer
  <2> QED
    BY <1>0, <2>1
<1>18. ASSUME NEW e \in Ends, CloseConn(e) PROVE QueueType'
  BY <1>18, <1>0 DEF CloseConn
<1>19. CASE AnnounceChannel
  BY <1>19, <1>0 DEF AnnounceChannel
<1>20. CASE UNCHANGED vars
  BY <1>20, <1>0 DEF vars
<1> QED
  BY <1>1, <1>2, <1>3, <1>4, <1>5, <1>6, <1>7, <1>8, <1>9, <1>10, <1>11, <1>12,
     <1>13, <1>14, <1>15, <1>16, <1>17, <1>18, <1>19, <1>20
  DEF Next, LoopStep, CloseStep, Finished

\* Sets of candidates.
LEMMA SetStep ==
  ASSUME TypeOK, Roles, [Next]_vars
  PROVE  SetType'
<1>0. SetType /\ LinkType /\ QueueType
  BY TypeParts
<1> USE DEF SetType, pcVars, iceVars, history
<1>1. ASSUME NEW e \in Ends, HandleJoined(e) PROVE SetType'
  BY <1>1, <1>0 DEF HandleJoined, Goto
<1>2. ASSUME NEW e \in Ends, CreateChannel(e) PROVE SetType'
  BY <1>2, <1>0 DEF CreateChannel, Goto
<1>3. ASSUME NEW e \in Ends, SetLocalOffer(e) PROVE SetType'
  BY <1>3, <1>0 DEF SetLocalOffer, Goto
<1>4. ASSUME NEW e \in Ends, SendOffer(e) PROVE SetType'
  BY <1>4, <1>0 DEF SendOffer, Goto, SendTo
<1>5. ASSUME NEW e \in Ends, TakeMessage(e) PROVE SetType'
  <2>1. Head(link[e]) \in Messages
    BY <1>5, ActionLinks DEF Takes
  <2>2. Head(link[e]).kind = "candidate" => Head(link[e]).n \in 1..MaxCandidates
    BY <2>1, MessageFacts
  <2>3. /\ added' = added /\ dropped' = dropped
        /\ \/ taken' = taken
           \/ taken' = [taken EXCEPT ![e] = IF Head(link[e]).kind = "candidate"
                                            THEN @ \cup {Head(link[e]).n} ELSE @]
    BY <1>5 DEF TakeMessage
  <2> QED
    BY <1>0, <2>2, <2>3
<1>6. ASSUME NEW e \in Ends, CheckOpen(e) PROVE SetType'
  BY <1>6, <1>0 DEF CheckOpen, Goto
<1>7. ASSUME NEW e \in Ends, ApplyRemote(e) PROVE SetType'
  BY <1>7, <1>0 DEF ApplyRemote, Goto
<1>8. ASSUME NEW e \in Ends, FlagRemote(e) PROVE SetType'
  BY <1>8, <1>0 DEF FlagRemote, Goto
<1>9. ASSUME NEW e \in Ends, FlushOne(e) PROVE SetType'
  <2>1. batch[e] # << >> /\ batch[e] \in Seq(1..MaxCandidates)
    BY <1>9, <1>0 DEF FlushOne, QueueType
  <2>2. GiveCandidate(e, Head(batch[e])) /\ taken' = taken
    BY <1>9 DEF FlushOne
  <2>3. Head(batch[e]) \in 1..MaxCandidates
    BY <2>1, NonEmpty
  <2> QED
    BY <1>0, <2>2, <2>3 DEF GiveCandidate
<1>10. ASSUME NEW e \in Ends, FlushEnds(e) PROVE SetType'
  BY <1>10, <1>0 DEF FlushEnds, Goto
<1>11. ASSUME NEW e \in Ends, SetLocalAnswer(e) PROVE SetType'
  BY <1>11, <1>0 DEF SetLocalAnswer, Goto
<1>12. ASSUME NEW e \in Ends, SendAnswer(e) PROVE SetType'
  BY <1>12, <1>0 DEF SendAnswer, Goto, SendTo
<1>13. ASSUME NEW e \in Ends, AddICECandidate(e) PROVE SetType'
  <2>1. msg[e].n \in 1..MaxCandidates
    BY <1>13, <1>0, MessageFacts DEF AddICECandidate, LinkType
  <2>2. /\ added' = added /\ taken' = taken
        /\ \/ dropped' = dropped
           \/ dropped' = [dropped EXCEPT ![e] = @ \cup {msg[e].n}]
    BY <1>13 DEF AddICECandidate
  <2> QED
    BY <1>0, <2>1, <2>2
<1>14. ASSUME NEW e \in Ends, AddNow(e) PROVE SetType'
  <2>1. msg[e].n \in 1..MaxCandidates
    BY <1>14, <1>0, MessageFacts DEF AddNow, LinkType, Roles
  <2>2. GiveCandidate(e, msg[e].n) /\ taken' = taken
    BY <1>14 DEF AddNow
  <2> QED
    BY <1>0, <2>1, <2>2 DEF GiveCandidate
<1>15. ASSUME NEW e \in Ends, Gather(e) PROVE SetType'
  BY <1>15, <1>0 DEF Gather, SendTo
<1>16. ASSUME NEW e \in Ends, RemovePeer(e) PROVE SetType'
  BY <1>16, <1>0 DEF RemovePeer
<1>17. ASSUME NEW e \in Ends, ClosePeer(e) PROVE SetType'
  BY <1>17, <1>0 DEF ClosePeer
<1>18. ASSUME NEW e \in Ends, CloseConn(e) PROVE SetType'
  BY <1>18, <1>0 DEF CloseConn
<1>19. CASE AnnounceChannel
  BY <1>19, <1>0 DEF AnnounceChannel
<1>20. CASE UNCHANGED vars
  BY <1>20, <1>0 DEF vars
<1> QED
  BY <1>1, <1>2, <1>3, <1>4, <1>5, <1>6, <1>7, <1>8, <1>9, <1>10, <1>11, <1>12,
     <1>13, <1>14, <1>15, <1>16, <1>17, <1>18, <1>19, <1>20
  DEF Next, LoopStep, CloseStep, Finished

----------------------------------------------------------------------------
\* The other conjuncts of the invariant over a step.

\* Each end is introduced once, before all else.
LEMMA IntroducedStep ==
  ASSUME TypeOK, Introduced, [Next]_vars
  PROVE  Introduced'
<1> USE DEF TypeOK, Introduced, Ends, Other, pcVars, iceVars, history
<1>1. ASSUME NEW e \in Ends, HandleJoined(e) PROVE Introduced'
  <2>1. Takes(e)
    BY <1>1, ActionLinks
  <2> QED
    BY <1>1, <2>1 DEF HandleJoined, Goto, Takes, Kinds
<1>2. ASSUME NEW e \in Ends, CreateChannel(e) PROVE Introduced'
  BY <1>2 DEF CreateChannel, Goto
<1>3. ASSUME NEW e \in Ends, SetLocalOffer(e) PROVE Introduced'
  <2>1. life[e] # "none" /\ UNCHANGED <<link, life>>
    BY <1>3 DEF SetLocalOffer
  <2>2. \A d \in Ends \ {e} : at'[d] = at[d] /\ (local'[d] <=> local[d])
    BY <1>3 DEF SetLocalOffer, Goto
  <2> HIDE DEF TypeOK, Ends
  <2> QED
    BY <2>1, <2>2
<1>4. ASSUME NEW e \in Ends, SendOffer(e) PROVE Introduced'
  <2>1. Sends("offer", e, Other(e))
    BY <1>4, ActionLinks
  <2> QED
    BY <1>4, <2>1 DEF SendOffer, Sends, Goto
<1>5. ASSUME NEW e \in Ends, TakeMessage(e) PROVE Introduced'
  <2>1. Takes(e)
    BY <1>5, ActionLinks
  <2> QED
    BY <1>5, <2>1 DEF TakeMessage, Goto, Takes, Kinds
<1>6. ASSUME NEW e \in Ends, CheckOpen(e) PROVE Introduced'
  BY <1>6 DEF CheckOpen, Goto
<1>7. ASSUME NEW e \in Ends, ApplyRemote(e) PROVE Introduced'
  BY <1>7 DEF ApplyRemote, Goto
<1>8. ASSUME NEW e \in Ends, FlagRemote(e) PROVE Introduced'
  BY <1>8 DEF FlagRemote, Goto
<1>9. ASSUME NEW e \in Ends, FlushOne(e) PROVE Introduced'
  BY <1>9 DEF FlushOne, GiveCandidate
<1>10. ASSUME NEW e \in Ends, FlushEnds(e) PROVE Introduced'
  BY <1>10 DEF FlushEnds, Goto
<1>11. ASSUME NEW e \in Ends, SetLocalAnswer(e) PROVE Introduced'
  <2>1. life[e] # "none" /\ UNCHANGED <<link, life>>
    BY <1>11 DEF SetLocalAnswer
  <2>2. \A d \in Ends \ {e} : at'[d] = at[d] /\ (local'[d] <=> local[d])
    BY <1>11 DEF SetLocalAnswer, Goto
  <2> HIDE DEF TypeOK, Ends
  <2> QED
    BY <2>1, <2>2
<1>12. ASSUME NEW e \in Ends, SendAnswer(e) PROVE Introduced'
  <2>1. Sends("answer", e, Other(e))
    BY <1>12, ActionLinks
  <2> QED
    BY <1>12, <2>1 DEF SendAnswer, Sends, Goto
<1>13. ASSUME NEW e \in Ends, AddICECandidate(e) PROVE Introduced'
  BY <1>13 DEF AddICECandidate, Goto
<1>14. ASSUME NEW e \in Ends, AddNow(e) PROVE Introduced'
  BY <1>14 DEF AddNow, Goto, GiveCandidate
<1>15. ASSUME NEW e \in Ends, Gather(e) PROVE Introduced'
  <2>1. Sends("candidate", e, Other(e))
    BY <1>15, ActionLinks
  <2> QED
    BY <1>15, <2>1 DEF Gather, Sends
<1>16. ASSUME NEW e \in Ends, RemovePeer(e) PROVE Introduced'
  BY <1>16 DEF RemovePeer
<1>17. ASSUME NEW e \in Ends, ClosePeer(e) PROVE Introduced'
  BY <1>17 DEF ClosePeer
<1>18. ASSUME NEW e \in Ends, CloseConn(e) PROVE Introduced'
  BY <1>18 DEF CloseConn
<1>19. CASE AnnounceChannel
  BY <1>19 DEF AnnounceChannel
<1>20. CASE UNCHANGED vars
  BY <1>20 DEF vars
<1> QED
  BY <1>1, <1>2, <1>3, <1>4, <1>5, <1>6, <1>7, <1>8, <1>9, <1>10, <1>11, <1>12,
     <1>13, <1>14, <1>15, <1>16, <1>17, <1>18, <1>19, <1>20
  DEF Next, LoopStep, CloseStep, Finished

\* The roles do not change.
LEMMA RolesStep ==
  ASSUME TypeOK, Roles, [Next]_vars
  PROVE  Roles'
<1> USE DEF TypeOK, Roles, Offers, Ends, Other, pcVars, iceVars, history
<1>1. ASSUME NEW e \in Ends, HandleJoined(e) PROVE Roles'
  <2>1. Takes(e)
    BY <1>1, ActionLinks
  <2> QED
    BY <1>1, <2>1 DEF HandleJoined, Goto, Takes, Kinds
<1>2. ASSUME NEW e \in Ends, CreateChannel(e) PROVE Roles'
  BY <1>2 DEF CreateChannel, Goto
<1>3. ASSUME NEW e \in Ends, SetLocalOffer(e) PROVE Roles'
  BY <1>3 DEF SetLocalOffer, Goto
<1>4. ASSUME NEW e \in Ends, SendOffer(e) PROVE Roles'
  <2>1. Sends("offer", e, Other(e))
    BY <1>4, ActionLinks
  <2> QED
    BY <1>4, <2>1 DEF SendOffer, Sends, Goto
<1>5. ASSUME NEW e \in Ends, TakeMessage(e) PROVE Roles'
  <2>1. Takes(e)
    BY <1>5, ActionLinks
  <2> QED
    BY <1>5, <2>1 DEF TakeMessage, Goto, Takes, Kinds
<1>6. ASSUME NEW e \in Ends, CheckOpen(e) PROVE Roles'
  BY <1>6 DEF CheckOpen, Goto
<1>7. ASSUME NEW e \in Ends, ApplyRemote(e) PROVE Roles'
  BY <1>7 DEF ApplyRemote, Goto
<1>8. ASSUME NEW e \in Ends, FlagRemote(e) PROVE Roles'
  BY <1>8 DEF FlagRemote, Goto
<1>9. ASSUME NEW e \in Ends, FlushOne(e) PROVE Roles'
  BY <1>9 DEF FlushOne, GiveCandidate
<1>10. ASSUME NEW e \in Ends, FlushEnds(e) PROVE Roles'
  BY <1>10 DEF FlushEnds, Goto
<1>11. ASSUME NEW e \in Ends, SetLocalAnswer(e) PROVE Roles'
  BY <1>11 DEF SetLocalAnswer, Goto
<1>12. ASSUME NEW e \in Ends, SendAnswer(e) PROVE Roles'
  <2>1. Sends("answer", e, Other(e))
    BY <1>12, ActionLinks
  <2> QED
    BY <1>12, <2>1 DEF SendAnswer, Sends, Goto
<1>13. ASSUME NEW e \in Ends, AddICECandidate(e) PROVE Roles'
  BY <1>13 DEF AddICECandidate, Goto
<1>14. ASSUME NEW e \in Ends, AddNow(e) PROVE Roles'
  BY <1>14 DEF AddNow, Goto, GiveCandidate
<1>15. ASSUME NEW e \in Ends, Gather(e) PROVE Roles'
  <2>1. Sends("candidate", e, Other(e))
    BY <1>15, ActionLinks
  <2> QED
    BY <1>15, <2>1 DEF Gather, Sends
<1>16. ASSUME NEW e \in Ends, RemovePeer(e) PROVE Roles'
  BY <1>16 DEF RemovePeer
<1>17. ASSUME NEW e \in Ends, ClosePeer(e) PROVE Roles'
  BY <1>17 DEF ClosePeer
<1>18. ASSUME NEW e \in Ends, CloseConn(e) PROVE Roles'
  BY <1>18 DEF CloseConn
<1>19. CASE AnnounceChannel
  BY <1>19 DEF AnnounceChannel
<1>20. CASE UNCHANGED vars
  BY <1>20 DEF vars
<1> QED
  BY <1>1, <1>2, <1>3, <1>4, <1>5, <1>6, <1>7, <1>8, <1>9, <1>10, <1>11, <1>12,
     <1>13, <1>14, <1>15, <1>16, <1>17, <1>18, <1>19, <1>20
  DEF Next, LoopStep, CloseStep, Finished

\* There is one offer, and hi is in its first state until it has applied it.
LEMMA OfferOnceStep ==
  ASSUME TypeOK, Introduced, Roles, OfferOnce, [Next]_vars
  PROVE  OfferOnce'
<1> USE DEF TypeOK, Introduced, Roles, OfferOnce, Unsent, Offers, StateFor,
        Ends, Other, pcVars, iceVars, history
<1>1. ASSUME NEW e \in Ends, HandleJoined(e) PROVE OfferOnce'
  <2>1. Takes(e)
    BY <1>1, ActionLinks
  <2> QED
    BY <1>1, <2>1 DEF HandleJoined, Goto, Takes, Kinds
<1>2. ASSUME NEW e \in Ends, CreateChannel(e) PROVE OfferOnce'
  BY <1>2 DEF CreateChannel, Goto
<1>3. ASSUME NEW e \in Ends, SetLocalOffer(e) PROVE OfferOnce'
  <2>0. e = "lo" /\ at["lo"] = "offering" /\ UNCHANGED <<link, msg, life, known>>
    BY <1>3 DEF SetLocalOffer
  <2>1. /\ at'["hi"] = at["hi"] /\ sig'["hi"] = sig["hi"]
        /\ local'["hi"] <=> local["hi"]
    BY <1>3, <2>0 DEF SetLocalOffer, Goto
  <2>2. \/ at'["lo"] = "idle" /\ UNCHANGED <<sig, local>>
        \/ at'["lo"] = "sendOffer" /\ local'["lo"]
    BY <1>3, <2>0 DEF SetLocalOffer, Goto
  <2> HIDE DEF TypeOK
  <2> QED
    BY <2>0, <2>1, <2>2
<1>4. ASSUME NEW e \in Ends, SendOffer(e) PROVE OfferOnce'
  <2>1. Sends("offer", e, Other(e))
    BY <1>4, ActionLinks
  <2> QED
    BY <1>4, <2>1 DEF SendOffer, Sends, Goto
<1>5. ASSUME NEW e \in Ends, TakeMessage(e) PROVE OfferOnce'
  <2>1. Takes(e)
    BY <1>5, ActionLinks
  <2> QED
    BY <1>5, <2>1 DEF TakeMessage, Goto, Takes, Kinds
<1>6. ASSUME NEW e \in Ends, CheckOpen(e) PROVE OfferOnce'
  BY <1>6 DEF CheckOpen, Goto
<1>7. ASSUME NEW e \in Ends, ApplyRemote(e) PROVE OfferOnce'
  BY <1>7 DEF ApplyRemote, Goto
<1>8. ASSUME NEW e \in Ends, FlagRemote(e) PROVE OfferOnce'
  BY <1>8 DEF FlagRemote, Goto
<1>9. ASSUME NEW e \in Ends, FlushOne(e) PROVE OfferOnce'
  BY <1>9 DEF FlushOne, GiveCandidate
<1>10. ASSUME NEW e \in Ends, FlushEnds(e) PROVE OfferOnce'
  BY <1>10 DEF FlushEnds, Goto
<1>11. ASSUME NEW e \in Ends, SetLocalAnswer(e) PROVE OfferOnce'
  BY <1>11, SMTT(30) DEF SetLocalAnswer, Goto
<1>12. ASSUME NEW e \in Ends, SendAnswer(e) PROVE OfferOnce'
  <2>1. Sends("answer", e, Other(e))
    BY <1>12, ActionLinks
  <2> QED
    BY <1>12, <2>1 DEF SendAnswer, Sends, Goto
<1>13. ASSUME NEW e \in Ends, AddICECandidate(e) PROVE OfferOnce'
  BY <1>13 DEF AddICECandidate, Goto
<1>14. ASSUME NEW e \in Ends, AddNow(e) PROVE OfferOnce'
  BY <1>14 DEF AddNow, Goto, GiveCandidate
<1>15. ASSUME NEW e \in Ends, Gather(e) PROVE OfferOnce'
  <2>1. Sends("candidate", e, Other(e))
    BY <1>15, ActionLinks
  <2> QED
    BY <1>15, <2>1 DEF Gather, Sends
<1>16. ASSUME NEW e \in Ends, RemovePeer(e) PROVE OfferOnce'
  BY <1>16 DEF RemovePeer
<1>17. ASSUME NEW e \in Ends, ClosePeer(e) PROVE OfferOnce'
  BY <1>17 DEF ClosePeer
<1>18. ASSUME NEW e \in Ends, CloseConn(e) PROVE OfferOnce'
  BY <1>18 DEF CloseConn
<1>19. CASE AnnounceChannel
  BY <1>19 DEF AnnounceChannel
<1>20. CASE UNCHANGED vars
  BY <1>20 DEF vars
<1> QED
  BY <1>1, <1>2, <1>3, <1>4, <1>5, <1>6, <1>7, <1>8, <1>9, <1>10, <1>11, <1>12,
     <1>13, <1>14, <1>15, <1>16, <1>17, <1>18, <1>19, <1>20
  DEF Next, LoopStep, CloseStep, Finished

\* There is one answer, and lo waits for it with its offer.
LEMMA AnswerOnceStep ==
  ASSUME TypeOK, Introduced, Roles, OfferOnce, AnswerOnce, [Next]_vars
  PROVE  AnswerOnce'
<1> USE DEF TypeOK, Introduced, Roles, OfferOnce, AnswerOnce, Unsent, Offers,
        StateFor, Ends, Other, pcVars, iceVars, history
<1>1. ASSUME NEW e \in Ends, HandleJoined(e) PROVE AnswerOnce'
  <2>1. Takes(e)
    BY <1>1, ActionLinks
  <2> QED
    BY <1>1, <2>1 DEF HandleJoined, Goto, Takes, Kinds
<1>2. ASSUME NEW e \in Ends, CreateChannel(e) PROVE AnswerOnce'
  BY <1>2 DEF CreateChannel, Goto
<1>3. ASSUME NEW e \in Ends, SetLocalOffer(e) PROVE AnswerOnce'
  BY <1>3 DEF SetLocalOffer, Goto
<1>4. ASSUME NEW e \in Ends, SendOffer(e) PROVE AnswerOnce'
  <2>1. Sends("offer", e, Other(e))
    BY <1>4, ActionLinks
  <2> QED
    BY <1>4, <2>1 DEF SendOffer, Sends, Goto
<1>5. ASSUME NEW e \in Ends, TakeMessage(e) PROVE AnswerOnce'
  <2>1. Takes(e)
    BY <1>5, ActionLinks
  <2> QED
    BY <1>5, <2>1 DEF TakeMessage, Goto, Takes, Kinds
<1>6. ASSUME NEW e \in Ends, CheckOpen(e) PROVE AnswerOnce'
  BY <1>6 DEF CheckOpen, Goto
<1>7. ASSUME NEW e \in Ends, ApplyRemote(e) PROVE AnswerOnce'
  BY <1>7 DEF ApplyRemote, Goto
<1>8. ASSUME NEW e \in Ends, FlagRemote(e) PROVE AnswerOnce'
  BY <1>8 DEF FlagRemote, Goto
<1>9. ASSUME NEW e \in Ends, FlushOne(e) PROVE AnswerOnce'
  BY <1>9 DEF FlushOne, GiveCandidate
<1>10. ASSUME NEW e \in Ends, FlushEnds(e) PROVE AnswerOnce'
  BY <1>10 DEF FlushEnds, Goto
<1>11. ASSUME NEW e \in Ends, SetLocalAnswer(e) PROVE AnswerOnce'
  BY <1>11 DEF SetLocalAnswer, Goto
<1>12. ASSUME NEW e \in Ends, SendAnswer(e) PROVE AnswerOnce'
  <2>1. Sends("answer", e, Other(e))
    BY <1>12, ActionLinks
  <2> QED
    BY <1>12, <2>1 DEF SendAnswer, Sends, Goto
<1>13. ASSUME NEW e \in Ends, AddICECandidate(e) PROVE AnswerOnce'
  BY <1>13 DEF AddICECandidate, Goto
<1>14. ASSUME NEW e \in Ends, AddNow(e) PROVE AnswerOnce'
  BY <1>14 DEF AddNow, Goto, GiveCandidate
<1>15. ASSUME NEW e \in Ends, Gather(e) PROVE AnswerOnce'
  <2>1. Sends("candidate", e, Other(e))
    BY <1>15, ActionLinks
  <2> QED
    BY <1>15, <2>1 DEF Gather, Sends
<1>16. ASSUME NEW e \in Ends, RemovePeer(e) PROVE AnswerOnce'
  BY <1>16 DEF RemovePeer
<1>17. ASSUME NEW e \in Ends, ClosePeer(e) PROVE AnswerOnce'
  BY <1>17 DEF ClosePeer
<1>18. ASSUME NEW e \in Ends, CloseConn(e) PROVE AnswerOnce'
  BY <1>18 DEF CloseConn
<1>19. CASE AnnounceChannel
  BY <1>19 DEF AnnounceChannel
<1>20. CASE UNCHANGED vars
  BY <1>20 DEF vars
<1> QED
  BY <1>1, <1>2, <1>3, <1>4, <1>5, <1>6, <1>7, <1>8, <1>9, <1>10, <1>11, <1>12,
     <1>13, <1>14, <1>15, <1>16, <1>17, <1>18, <1>19, <1>20
  DEF Next, LoopStep, CloseStep, Finished

\* What is said to be set is set.
LEMMA ReadyStep ==
  ASSUME TypeOK, Introduced, Roles, OfferOnce, AnswerOnce, Ready, [Next]_vars
  PROVE  Ready'
<1> USE DEF TypeOK, Introduced, Roles, OfferOnce, AnswerOnce, Ready, HasRemote,
        Offers, StateFor, Ends, Other, pcVars, iceVars, history
<1>1. ASSUME NEW e \in Ends, HandleJoined(e) PROVE Ready'
  <2>1. Takes(e)
    BY <1>1, ActionLinks
  <2> QED
    BY <1>1, <2>1, SMTT(30) DEF HandleJoined, Goto, Takes, Kinds
<1>2. ASSUME NEW e \in Ends, CreateChannel(e) PROVE Ready'
  BY <1>2 DEF CreateChannel, Goto
<1>3. ASSUME NEW e \in Ends, SetLocalOffer(e) PROVE Ready'
  BY <1>3 DEF SetLocalOffer, Goto
<1>4. ASSUME NEW e \in Ends, SendOffer(e) PROVE Ready'
  <2>1. Sends("offer", e, Other(e))
    BY <1>4, ActionLinks
  <2> QED
    BY <1>4, <2>1 DEF SendOffer, Sends, Goto
<1>5. ASSUME NEW e \in Ends, TakeMessage(e) PROVE Ready'
  <2>1. Takes(e)
    BY <1>5, ActionLinks
  <2> QED
    BY <1>5, <2>1, SMTT(30) DEF TakeMessage, Goto, Takes, Kinds
<1>6. ASSUME NEW e \in Ends, CheckOpen(e) PROVE Ready'
  BY <1>6 DEF CheckOpen, Goto
<1>7. ASSUME NEW e \in Ends, ApplyRemote(e) PROVE Ready'
  BY <1>7 DEF ApplyRemote, Goto
<1>8. ASSUME NEW e \in Ends, FlagRemote(e) PROVE Ready'
  BY <1>8 DEF FlagRemote, Goto
<1>9. ASSUME NEW e \in Ends, FlushOne(e) PROVE Ready'
  BY <1>9 DEF FlushOne, GiveCandidate
<1>10. ASSUME NEW e \in Ends, FlushEnds(e) PROVE Ready'
  BY <1>10 DEF FlushEnds, Goto
<1>11. ASSUME NEW e \in Ends, SetLocalAnswer(e) PROVE Ready'
  BY <1>11 DEF SetLocalAnswer, Goto
<1>12. ASSUME NEW e \in Ends, SendAnswer(e) PROVE Ready'
  <2>1. Sends("answer", e, Other(e))
    BY <1>12, ActionLinks
  <2> QED
    BY <1>12, <2>1 DEF SendAnswer, Sends, Goto
<1>13. ASSUME NEW e \in Ends, AddICECandidate(e) PROVE Ready'
  BY <1>13 DEF AddICECandidate, Goto
<1>14. ASSUME NEW e \in Ends, AddNow(e) PROVE Ready'
  BY <1>14 DEF AddNow, Goto, GiveCandidate
<1>15. ASSUME NEW e \in Ends, Gather(e) PROVE Ready'
  <2>1. Sends("candidate", e, Other(e))
    BY <1>15, ActionLinks
  <2> QED
    BY <1>15, <2>1 DEF Gather, Sends
<1>16. ASSUME NEW e \in Ends, RemovePeer(e) PROVE Ready'
  BY <1>16 DEF RemovePeer
<1>17. ASSUME NEW e \in Ends, ClosePeer(e) PROVE Ready'
  BY <1>17 DEF ClosePeer
<1>18. ASSUME NEW e \in Ends, CloseConn(e) PROVE Ready'
  BY <1>18 DEF CloseConn
<1>19. CASE AnnounceChannel
  BY <1>19 DEF AnnounceChannel
<1>20. CASE UNCHANGED vars
  BY <1>20 DEF vars
<1> QED
  BY <1>1, <1>2, <1>3, <1>4, <1>5, <1>6, <1>7, <1>8, <1>9, <1>10, <1>11, <1>12,
     <1>13, <1>14, <1>15, <1>16, <1>17, <1>18, <1>19, <1>20
  DEF Next, LoopStep, CloseStep, Finished

\* No candidate is lost on its way to the connection.
LEMMA KeptStep ==
  ASSUME TypeOK, Introduced, Roles, Ready, Kept, [Next]_vars
  PROVE  Kept'
<1> USE DEF TypeOK, Kept, Hand, IsClosed, Ends, pcVars, iceVars, history
<1>1. ASSUME NEW e \in Ends, HandleJoined(e) PROVE Kept'
  <2>1. Takes(e)
    BY <1>1, ActionLinks
  <2>2. life[e] = "none"
    BY <1>1, <2>1 DEF HandleJoined, Takes, Introduced
  <2> QED
    BY <1>1, <2>2 DEF HandleJoined, Goto
<1>2. ASSUME NEW e \in Ends, CreateChannel(e) PROVE Kept'
  BY <1>2 DEF CreateChannel, Goto
<1>3. ASSUME NEW e \in Ends, SetLocalOffer(e) PROVE Kept'
  BY <1>3 DEF SetLocalOffer, Goto
<1>4. ASSUME NEW e \in Ends, SendOffer(e) PROVE Kept'
  BY <1>4 DEF SendOffer, Goto
<1>5. ASSUME NEW e \in Ends, TakeMessage(e) PROVE Kept'
  <2>1. CASE life[e] # "up"
    BY <1>5, <2>1 DEF TakeMessage
  <2>2. CASE life[e] = "up"
    <3> DEFINE m == Head(link[e])
    <3>1. /\ at'[e] = "found" /\ msg'[e] = m /\ Hand(e) = {}
          /\ taken'[e] = taken[e] \cup IF m.kind = "candidate" THEN {m.n} ELSE {}
      BY <1>5, <2>2 DEF TakeMessage, Goto
    <3>2. m.kind = "candidate" => Hand(e)' = {m.n}
      BY <3>1
    <3>3. /\ \A d \in Ends \ {e} : Hand(d)' = Hand(d) /\ taken'[d] = taken[d]
          /\ UNCHANGED <<life, added, dropped, pending, batch>>
      BY <1>5, <2>2, ZenonT(30) DEF TakeMessage, Goto
    <3> HIDE DEF m, Hand, TypeOK
    <3> QED
      BY <3>1, <3>2, <3>3
  <2> QED
    BY <2>1, <2>2
<1>6. ASSUME NEW e \in Ends, CheckOpen(e) PROVE Kept'
  BY <1>6 DEF CheckOpen, Goto
<1>7. ASSUME NEW e \in Ends, ApplyRemote(e) PROVE Kept'
  BY <1>7 DEF ApplyRemote, Goto, Roles
<1>8. ASSUME NEW e \in Ends, FlagRemote(e) PROVE Kept'
  <2>1. /\ batch[e] = << >> /\ batch'[e] = pending[e] /\ pending'[e] = << >>
        /\ \A d \in Ends \ {e} : batch'[d] = batch[d] /\ pending'[d] = pending[d]
    BY <1>8 DEF FlagRemote, Ready
  <2>2. Hand(e) = {} /\ \A d \in Ends : Hand(d)' = Hand(d)
    BY <1>8 DEF FlagRemote, Goto
  <2>3. UNCHANGED <<life, taken, added, dropped>>
    BY <1>8 DEF FlagRemote
  <2> HIDE DEF Hand, TypeOK
  <2> QED
    BY <2>1, <2>2, <2>3, RangeEmpty
<1>9. ASSUME NEW e \in Ends, FlushOne(e) PROVE Kept'
  <2> DEFINE n == Head(batch[e])
  <2>1. batch[e] # << >> /\ batch[e] \in Seq(1..MaxCandidates)
    BY <1>9 DEF FlushOne
  <2>2. Range(batch[e]) \subseteq {n} \cup Range(Tail(batch[e]))
    BY <2>1, NonEmpty
  <2>3. /\ batch'[e] = Tail(batch[e]) /\ GiveCandidate(e, n)
        /\ \A d \in Ends \ {e} : batch'[d] = batch[d]
        /\ UNCHANGED <<pending, life, taken>> /\ \A d \in Ends : Hand(d)' = Hand(d)
    BY <1>9 DEF FlushOne
  <2>4. life[e] \in {"none", "up"} => Accepts(e, n) \/ n \in Unusable
    BY <1>9 DEF FlushOne, Ready, Accepts
  <2> HIDE DEF n, Hand
  <2>5. /\ n \in Unusable => n \in dropped'[e]
        /\ Accepts(e, n) => n \in added'[e]
        /\ \A d \in Ends :
             added[d] \subseteq added'[d] /\ dropped[d] \subseteq dropped'[d]
    BY <2>3 DEF GiveCandidate
  <2> HIDE DEF TypeOK
  <2> QED
    BY <2>2, <2>3, <2>4, <2>5
<1>10. ASSUME NEW e \in Ends, FlushEnds(e) PROVE Kept'
  BY <1>10 DEF FlushEnds, Goto, Roles
<1>11. ASSUME NEW e \in Ends, SetLocalAnswer(e) PROVE Kept'
  BY <1>11 DEF SetLocalAnswer, Goto
<1>12. ASSUME NEW e \in Ends, SendAnswer(e) PROVE Kept'
  BY <1>12 DEF SendAnswer, Goto, Roles
<1>13. ASSUME NEW e \in Ends, AddICECandidate(e) PROVE Kept'
  <2> DEFINE n == msg[e].n
  <2>1. UNCHANGED <<batch, life, taken, added>>
    BY <1>13 DEF AddICECandidate
  <2>2. Hand(e) = {n} /\ \A d \in Ends \ {e} : Hand(d)' = Hand(d)
    BY <1>13 DEF AddICECandidate, Goto
  <2>3. CASE IsClosed(e) \/ known[e]
    <3>1. /\ UNCHANGED <<pending, dropped>>
          /\ known[e] /\ ~IsClosed(e) => n \in Hand(e)'
      BY <1>13, <2>3 DEF AddICECandidate, Goto
    <3>2. IsClosed(e) => life[e] \notin {"none", "up"}
      OBVIOUS
    <3> HIDE DEF n, Hand, TypeOK, IsClosed
    <3> QED
      BY <2>1, <2>2, <2>3, <3>1, <3>2 DEF IsClosed
  <2>4. CASE /\ ~IsClosed(e) /\ dropped' = [dropped EXCEPT ![e] = @ \cup {n}]
             /\ pending' = pending
    <3> HIDE DEF n, Hand
    <3> QED
      BY <2>1, <2>2, <2>4
  <2>5. CASE /\ ~IsClosed(e) /\ pending' = [pending EXCEPT ![e] = Append(@, n)]
             /\ dropped' = dropped
    <3>1. /\ pending'[e] = Append(pending[e], n)
          /\ pending[e] \in Seq(1..MaxCandidates)
          /\ \A d \in Ends \ {e} : pending'[d] = pending[d]
      BY <2>5
    <3>2. Range(pending[e]) \cup {n} \subseteq Range(pending'[e])
      BY <3>1, RangeAppended
    <3> HIDE DEF n, Hand, TypeOK
    <3> QED
      BY <2>1, <2>2, <2>5, <3>1, <3>2
  <2> QED
    BY <1>13, <2>3, <2>4, <2>5 DEF AddICECandidate
<1>14. ASSUME NEW e \in Ends, AddNow(e) PROVE Kept'
  <2> DEFINE n == msg[e].n
  <2>1. GiveCandidate(e, n) /\ UNCHANGED <<pending, batch, life, taken>>
    BY <1>14 DEF AddNow
  <2>2. Hand(e) = {n} /\ Hand(e)' = {} /\ \A d \in Ends \ {e} : Hand(d)' = Hand(d)
    BY <1>14 DEF AddNow, Goto, Roles
  <2>3. life[e] \in {"none", "up"} => Accepts(e, n) \/ n \in Unusable
    BY <1>14 DEF AddNow, Ready, Accepts
  <2> HIDE DEF n, Hand
  <2>4. /\ n \in Unusable => n \in dropped'[e]
        /\ Accepts(e, n) => n \in added'[e]
        /\ \A d \in Ends :
             added[d] \subseteq added'[d] /\ dropped[d] \subseteq dropped'[d]
    BY <2>1 DEF GiveCandidate
  <2> HIDE DEF TypeOK
  <2> QED
    BY <2>1, <2>2, <2>3, <2>4
<1>15. ASSUME NEW e \in Ends, Gather(e) PROVE Kept'
  BY <1>15 DEF Gather
<1>16. ASSUME NEW e \in Ends, RemovePeer(e) PROVE Kept'
  BY <1>16 DEF RemovePeer
<1>17. ASSUME NEW e \in Ends, ClosePeer(e) PROVE Kept'
  BY <1>17 DEF ClosePeer
<1>18. ASSUME NEW e \in Ends, CloseConn(e) PROVE Kept'
  BY <1>18 DEF CloseConn
<1>19. CASE AnnounceChannel
  BY <1>19 DEF AnnounceChannel
<1>20. CASE UNCHANGED vars
  BY <1>20 DEF vars
<1> QED
  BY <1>1, <1>2, <1>3, <1>4, <1>5, <1>6, <1>7, <1>8, <1>9, <1>10, <1>11, <1>12,
     <1>13, <1>14, <1>15, <1>16, <1>17, <1>18, <1>19, <1>20
  DEF Next, LoopStep, CloseStep, Finished

----------------------------------------------------------------------------
\* The invariant.

\* It holds when both ends have just been told of each other.
LEMMA InitNegotiation == Init => NegotiationInv
<1> SUFFICES ASSUME Init PROVE NegotiationInv
  OBVIOUS
<1> DEFINE m == Message("joined", 0)
<1>1. m \in Messages /\ m.kind = "joined"
  BY DEF Message, Messages
<1> HIDE DEF m
<1>2. /\ First(<<m>>) /\ ~Holds("offer", <<m>>) /\ ~Holds("answer", <<m>>)
      /\ Single("offer", <<m>>) /\ Single("answer", <<m>>)
  BY <1>1 DEF First, Holds, Single
<1>3. /\ \A e \in Ends : link[e] = <<m>> /\ msg[e] = m
      /\ link \in [Ends -> Seq(Messages)] /\ msg \in [Ends -> Messages]
  BY <1>1 DEF Init, m
<1>4. PlaceType /\ FlagType /\ QueueType /\ SetType
  BY NegotiationAssumption DEF Init, PlaceType, FlagType, QueueType, SetType
<1>5. LinkType
  BY <1>3, NegotiationAssumption DEF Init, LinkType
<1>6. Introduced
  BY <1>2, <1>3 DEF Init, Introduced
<1>7. Roles /\ OfferOnce /\ AnswerOnce
  BY <1>1, <1>2, <1>3 DEF Init, Roles, OfferOnce, AnswerOnce, Unsent, Ends
<1>8. Ready /\ Kept
  BY DEF Init, Ready, Kept, IsClosed
<1> QED
  BY <1>4, <1>5, <1>6, <1>7, <1>8, TypeParts DEF NegotiationInv

\* Every step of the loops, the gatherers and those who remove a peer
\* preserves it.
LEMMA NegotiationStep == NegotiationInv /\ [Next]_vars => NegotiationInv'
<1> SUFFICES ASSUME NegotiationInv, [Next]_vars PROVE NegotiationInv'
  OBVIOUS
<1>1. /\ TypeOK /\ Introduced /\ Roles /\ OfferOnce /\ AnswerOnce
      /\ Ready /\ Kept
  BY DEF NegotiationInv
<1>2. TypeOK'
  <2>1. PlaceType /\ FlagType
    BY <1>1, TypeParts
  <2>2. PlaceType' /\ LinkType' /\ FlagType' /\ QueueType' /\ SetType'
    BY <1>1, <2>1, PlaceStep, LinkStep, FlagStep, QueueStep, SetStep
  <2> QED
    BY <2>2 DEF TypeOK, PlaceType, LinkType, FlagType, QueueType, SetType
<1>3. Introduced' /\ Roles'
  BY <1>1, IntroducedStep, RolesStep
<1>4. OfferOnce'
  BY <1>1, OfferOnceStep
<1>5. AnswerOnce'
  BY <1>1, AnswerOnceStep
<1>6. Ready'
  BY <1>1, ReadyStep
<1>7. Kept'
  BY <1>1, KeptStep
<1> QED
  BY <1>2, <1>3, <1>4, <1>5, <1>6, <1>7 DEF NegotiationInv

\* So it holds throughout.
LEMMA NegotiationInvariant == Spec => []NegotiationInv
  BY InitNegotiation, NegotiationStep, PTL DEF Spec

----------------------------------------------------------------------------
\* What follows from it.

\* The invariant contains the types.
LEMMA NegotiationTypes == NegotiationInv => TypeOK
  BY DEF NegotiationInv

\* The descriptions meet the states they need.
LEMMA DescriptionsFit == NegotiationInv => NoGlare
<1> SUFFICES ASSUME NegotiationInv, NEW e \in Ends
             PROVE  /\ at[e] = "open" => sig[e] = StateFor(msg[e].kind)
                    /\ at[e] = "offering" => sig[e] = "stable"
                    /\ at[e] = "answering" => sig[e] = "have-remote-offer"
  BY DEF NoGlare
<1>1. CASE e = "lo"
  BY <1>1 DEF NegotiationInv, Roles, OfferOnce, AnswerOnce, StateFor, Ends
<1>2. CASE e = "hi"
  BY <1>2 DEF NegotiationInv, Roles, OfferOnce, AnswerOnce, StateFor, Ends
<1> QED
  BY <1>1, <1>2 DEF Ends

\* Candidates are where they belong.
LEMMA KeptCandidates == NegotiationInv => CandidatesKept
  BY DEF NegotiationInv, Kept, Hand, TypeOK, CandidatesKept

\* Every variable of the two ends keeps its type, and no more than MaxPending
\* candidates ever wait, for any number of candidates.
THEOREM NegotiationTypeCorrect == Spec => []TypeOK
  BY NegotiationInvariant, NegotiationTypes, PTL

\* No description meets a connection in a state that refuses it, in whatever
\* order offers, answers, candidates and removals of the peer interleave:
\* there is one offer and one answer, and each end waits for its own.
THEOREM NeverGlare == Spec => []NoGlare
  BY NegotiationInvariant, DescriptionsFit, PTL

\* A candidate that was taken for a listed peer reaches its connection, however
\* early it came, unless it is beyond the maximum or unusable; and nothing is
\* parked in a closed peer.
THEOREM CandidatesAlwaysKept == Spec => []CandidatesKept
  BY NegotiationInvariant, KeptCandidates, PTL

==============================================================================
