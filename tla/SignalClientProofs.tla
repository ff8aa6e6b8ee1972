------------------------- MODULE SignalClientProofs -------------------------
(***************************************************************************)
(* Proofs about the client's end of the signaling connection, for every    *)
(* size of the queue and any number of events and calls of Send.           *)
(***************************************************************************)
EXTENDS SignalClient, TLAPS

----------------------------------------------------------------------------
\* The inductive invariant.

\* What is on the wire.
OnWire == [kind : {"accepted", "error", "event", "bad"}, n : 0..MaxEvents]

\* The part of the type invariant that the order of events rests on.
Shapes ==
  /\ MaxEvents \in Nat /\ produced \in 0..MaxEvents
  /\ wire \in Seq(OnWire)
  /\ recv \in Seq(1..MaxEvents) /\ handled \in Seq(1..MaxEvents)

\* Dial has one outcome: the pump runs once the client is admitted, and only
\* an admitted client is sent events or closed.
Admission ==
  /\ pump = "none" <=> dial # "open"
  /\ dial # "open" => produced = 0 /\ closing = "no" /\ Len(wire) <= 1
  /\ dial = "dialing" => conn = "none"
  /\ dial \in {"joining", "awaiting", "open"} => conn # "none"
  /\ dial = "failed" => conn # "open" /\ ctxDone

\* Whoever writes holds the lock, and Close keeps it until the connection is
\* closed; then nothing is written any more.
LastWord ==
  /\ mu = "close" <=> closing \in {"leaving", "left"}
  /\ closing \in {"closed", "done"} => conn = "closed"
  /\ closing \in {"no", "waiting", "leaving"} =>
       \A i \in 1..Len(outbox) : outbox[i] # "leave"
  /\ LeaveIsLast

\* The events the pump has queued.
Passed == Len(handled) + Len(recv)

\* The loop has handled the first events, in order, and the rest follows: in
\* the queue, in the hands of the pump, on the wire.
InOrder ==
  /\ \A i \in 1..Len(handled) : handled[i] = i
  /\ \A i \in 1..Len(recv) : recv[i] = Len(handled) + i
  /\ pump = "none" => Passed = 0
  /\ pump = "reading" =>
       /\ Passed + Len(wire) = produced
       /\ \A i \in 1..Len(wire) : wire[i].n = Passed + i
  /\ pump = "holding" =>
       /\ held = Passed + 1 /\ Passed + 1 + Len(wire) = produced
       /\ \A i \in 1..Len(wire) : wire[i].n = Passed + 1 + i
  /\ Passed <= produced

ClientInv == TypeOK /\ Admission /\ LastWord /\ InOrder

----------------------------------------------------------------------------
\* Lemmas about sequences.

\* What Append does.
LEMMA Appended ==
  ASSUME NEW S, NEW seq \in Seq(S), NEW e \in S
  PROVE  /\ Append(seq, e) \in Seq(S) /\ Len(Append(seq, e)) = Len(seq) + 1
         /\ \A i \in 1..Len(seq) + 1 :
              Append(seq, e)[i] = IF i <= Len(seq) THEN seq[i] ELSE e
  OBVIOUS

\* The only error in its channel.
LEMMA OneError == Tail(<<"error">>) = <<>> /\ Head(<<"error">>) = "error"
  OBVIOUS

----------------------------------------------------------------------------
\* The conjuncts of the invariant over a step.

\* Every action keeps the types.  What the pump reads and queues is the number
\* of an event.
LEMMA TypeStep ==
  ASSUME TypeOK, Admission, InOrder, [Next]_vars
  PROVE  TypeOK'
<1> USE ClientAssumption DEF TypeOK, connVars, serverVars, pumpVars, loopVars,
        lockVars
<1>1. CASE Connect
  BY <1>1 DEF Connect
<1>2. CASE ConnectFails
  BY <1>2 DEF ConnectFails
<1>3. CASE WriteJoin
  BY <1>3 DEF WriteJoin
<1>4. CASE JoinFails
  BY <1>4 DEF JoinFails, Abort
<1>5. CASE JoinRejected
  BY <1>5 DEF JoinRejected, Abort
<1>6. CASE JoinAccepted
  BY <1>6 DEF JoinAccepted
<1>7. CASE CancelAll
  BY <1>7 DEF CancelAll
<1>8. ASSUME NEW kind \in {"accepted", "error"}, Answer(kind) PROVE TypeOK'
  <2>1. wire' \in Seq(OnWire)
    <3>1. Reply(kind) \in OnWire
      BY DEF Reply, OnWire
    <3> QED
      BY <1>8, <3>1 DEF Answer
  <2> QED
    BY <1>8, <2>1 DEF Answer, OnWire
<1>9. CASE ServerSends
  <2>1. produced' \in 0..MaxEvents
    BY <1>9 DEF ServerSends
  <2>2. wire' \in Seq(OnWire)
    <3>1. Event(produced + 1) \in OnWire /\ Garbage(produced + 1) \in OnWire
      BY <1>9 DEF ServerSends, Event, Garbage, OnWire
    <3>2. wire \in Seq(OnWire)
      BY DEF OnWire
    <3> QED
      BY <1>9, <3>1, <3>2 DEF ServerSends
  <2> QED
    BY <1>9, <2>1, <2>2 DEF ServerSends, OnWire
<1>10. CASE PumpRead
  <2>1. wire' \in Seq(OnWire)
    BY <1>10 DEF PumpRead, OnWire
  <2>2. held' \in {None} \cup 1..MaxEvents
    <3>1. pump = "reading" /\ wire # <<>> /\ Head(wire).n = wire[1].n
      BY <1>10 DEF PumpRead
    <3>2. Passed \in Nat /\ Len(wire) \in Nat \ {0}
      BY <3>1 DEF Passed
    <3>3. Head(wire).n = Passed + 1 /\ Passed + 1 <= produced
      BY <3>1, <3>2 DEF InOrder
    <3>4. Head(wire).n \in 1..MaxEvents
      BY <3>2, <3>3
    <3> QED
      BY <1>10, <3>4 DEF PumpRead, PumpFails
  <2>3. /\ pump' \in {"none", "reading", "holding", "closing", "ended"}
        /\ errs' \in {<<>>, <<"error">>} /\ reported' \in BOOLEAN
    BY <1>10 DEF PumpRead, PumpFails
  <2> QED
    BY <1>10, <2>1, <2>2, <2>3 DEF PumpRead, OnWire
<1>11. CASE PumpReadFails
  <2>1. errs' \in {<<>>, <<"error">>} /\ reported' \in BOOLEAN
    BY <1>11 DEF PumpReadFails, PumpFails
  <2>2. /\ pump' \in {"none", "reading", "holding", "closing", "ended"}
        /\ held' \in {None} \cup 1..MaxEvents
    BY <1>11 DEF PumpReadFails, PumpFails
  <2> QED
    BY <1>11, <2>1, <2>2 DEF PumpReadFails
<1>12. CASE PumpQueues
  <2>1. errs' \in {<<>>, <<"error">>} /\ reported' \in BOOLEAN
    BY <1>12 DEF PumpQueues, PumpFails
  <2>2. /\ pump' \in {"none", "reading", "holding", "closing", "ended"}
        /\ held' \in {None} \cup 1..MaxEvents /\ ctxDone' \in BOOLEAN
    BY <1>12 DEF PumpQueues, PumpFails
  <2>3. recv' \in Seq(1..MaxEvents) /\ Len(recv') <= QueueSize
    <3>1. held \in 1..MaxEvents
      <4>1. held = Passed + 1 /\ Passed + 1 + Len(wire) = produced
        BY <1>12 DEF PumpQueues, InOrder
      <4>2. Passed \in Nat /\ Len(wire) \in Nat
        BY DEF Passed
      <4> QED
        BY <4>1, <4>2
    <3>2. CASE recv' = Append(recv, held) /\ Len(recv) < QueueSize
      BY <3>1, <3>2, Appended
    <3>3. CASE recv' = recv
      BY <3>3
    <3> QED
      BY <1>12, <3>2, <3>3 DEF PumpQueues
  <2> QED
    BY <1>12, <2>1, <2>2, <2>3 DEF PumpQueues
<1>13. CASE PumpEnds
  BY <1>13 DEF PumpEnds
<1>14. CASE LoopStarts
  BY <1>14 DEF LoopStarts
<1>15. CASE LoopHandles
  BY <1>15, SMTT(30) DEF LoopHandles
<1>16. CASE LoopError
  <2>1. errs = <<"error">> /\ errs' = <<>> /\ Head(errs) = "error"
    BY <1>16, OneError DEF LoopError
  <2>2. noticed' \subseteq {"error", "closed"}
    BY <1>16, <2>1 DEF LoopError
  <2> QED
    BY <1>16, <2>1, <2>2 DEF LoopError
<1>17. ASSUME NEW channel \in {"messages", "errors"}, LoopDrained(channel)
       PROVE  TypeOK'
  <2>1. noticed' \subseteq {"error", "closed"} /\ open' \subseteq open
    BY <1>17 DEF LoopDrained
  <2>2. loop' \in {"off", "running", "done"}
    BY <1>17 DEF LoopDrained
  <2> QED
    BY <1>17, <2>1, <2>2 DEF LoopDrained
<1>18. CASE LoopStopped
  BY <1>18 DEF LoopStopped
<1>19. CASE SendLocks
  BY <1>19 DEF SendLocks
<1>20. CASE SendWrites
  <2>1. outbox' = outbox \/ outbox' = Append(outbox, "signal")
    BY <1>20 DEF SendWrites
  <2>2. Append(outbox, "signal") \in Seq({"join", "signal", "leave"})
    BY Appended
  <2>3. outbox' \in Seq({"join", "signal", "leave"})
    BY <2>1, <2>2
  <2> QED
    BY <1>20, <2>3 DEF SendWrites
<1>21. CASE Close
  BY <1>21 DEF Close
<1>22. CASE CloseLocks
  BY <1>22 DEF CloseLocks
<1>23. CASE CloseLeaves
  <2>1. outbox' = outbox \/ outbox' = Append(outbox, "leave")
    BY <1>23 DEF CloseLeaves
  <2>2. Append(outbox, "leave") \in Seq({"join", "signal", "leave"})
    BY Appended
  <2>3. outbox' \in Seq({"join", "signal", "leave"})
    BY <2>1, <2>2
  <2> QED
    BY <1>23, <2>3 DEF CloseLeaves
<1>24. CASE CloseCloses
  BY <1>24 DEF CloseCloses
<1>25. CASE CloseCancels
  BY <1>25 DEF CloseCancels
<1>26. CASE UNCHANGED vars
  BY <1>26 DEF vars
<1> QED
  BY <1>1, <1>2, <1>3, <1>4, <1>5, <1>6, <1>7, <1>8, <1>9, <1>10, <1>11, <1>12,
     <1>13, <1>14, <1>15, <1>16, <1>17, <1>18, <1>19, <1>20, <1>21, <1>22,
     <1>23, <1>24, <1>25, <1>26
  DEF Next, DialStep, PumpStep, LoopStep, CloseStep, Finished

\* Dial opens the connection, gets the answer and then starts the pump.
LEMMA AdmissionStep ==
  ASSUME TypeOK, Admission, [Next]_vars
  PROVE  Admission'
<1> USE DEF TypeOK, Admission, connVars, serverVars, pumpVars, loopVars,
        lockVars
<1>1. CASE Connect
  BY <1>1 DEF Connect
<1>2. CASE ConnectFails
  BY <1>2 DEF ConnectFails
<1>3. CASE WriteJoin
  BY <1>3 DEF WriteJoin
<1>4. CASE JoinFails
  BY <1>4 DEF JoinFails, Abort
<1>5. CASE JoinRejected
  BY <1>5 DEF JoinRejected, Abort
<1>6. CASE JoinAccepted
  BY <1>6 DEF JoinAccepted
<1>7. CASE CancelAll
  BY <1>7 DEF CancelAll
<1>8. ASSUME NEW kind \in {"accepted", "error"}, Answer(kind) PROVE Admission'
  BY <1>8 DEF Answer
<1>9. CASE ServerSends
  BY <1>9 DEF ServerSends
<1>10. CASE PumpRead
  BY <1>10 DEF PumpRead, PumpFails
<1>11. CASE PumpReadFails
  BY <1>11 DEF PumpReadFails, PumpFails
<1>12. CASE PumpQueues
  BY <1>12 DEF PumpQueues, PumpFails
<1>13. CASE PumpEnds
  BY <1>13 DEF PumpEnds
<1>14. CASE LoopStarts
  BY <1>14 DEF LoopStarts
<1>15. CASE LoopHandles
  BY <1>15 DEF LoopHandles
<1>16. CASE LoopError
  BY <1>16 DEF LoopError
<1>17. ASSUME NEW channel \in {"messages", "errors"}, LoopDrained(channel)
       PROVE  Admission'
  BY <1>17 DEF LoopDrained
<1>18. CASE LoopStopped
  BY <1>18 DEF LoopStopped
<1>19. CASE SendLocks
  BY <1>19 DEF SendLocks
<1>20. CASE SendWrites
  BY <1>20 DEF SendWrites
<1>21. CASE Close
  BY <1>21 DEF Close
<1>22. CASE CloseLocks
  BY <1>22 DEF CloseLocks
<1>23. CASE CloseLeaves
  BY <1>23 DEF CloseLeaves
<1>24. CASE CloseCloses
  BY <1>24 DEF CloseCloses
<1>25. CASE CloseCancels
  BY <1>25 DEF CloseCancels
<1>26. CASE UNCHANGED vars
  BY <1>26 DEF vars
<1> QED
  BY <1>1, <1>2, <1>3, <1>4, <1>5, <1>6, <1>7, <1>8, <1>9, <1>10, <1>11, <1>12,
     <1>13, <1>14, <1>15, <1>16, <1>17, <1>18, <1>19, <1>20, <1>21, <1>22,
     <1>23, <1>24, <1>25, <1>26
  DEF Next, DialStep, PumpStep, LoopStep, CloseStep, Finished

\* Send writes under the lock and while the connection is open; between the
\* leave of Close and the end of the connection the lock is taken.
LEMMA LastWordStep ==
  ASSUME TypeOK, Admission, LastWord, [Next]_vars
  PROVE  LastWord'
<1> USE ClientAssumption DEF TypeOK, Admission, LastWord, LeaveIsLast,
        connVars, serverVars, pumpVars, loopVars, lockVars
<1>1. CASE Connect
  BY <1>1 DEF Connect
<1>2. CASE ConnectFails
  BY <1>2 DEF ConnectFails
<1>3. CASE WriteJoin
  BY <1>3 DEF WriteJoin
<1>4. CASE JoinFails
  BY <1>4 DEF JoinFails, Abort
<1>5. CASE JoinRejected
  BY <1>5 DEF JoinRejected, Abort
<1>6. CASE JoinAccepted
  BY <1>6 DEF JoinAccepted
<1>7. CASE CancelAll
  BY <1>7 DEF CancelAll
<1>8. ASSUME NEW kind \in {"accepted", "error"}, Answer(kind) PROVE LastWord'
  BY <1>8 DEF Answer
<1>9. CASE ServerSends
  BY <1>9 DEF ServerSends
<1>10. CASE PumpRead
  BY <1>10 DEF PumpRead, PumpFails
<1>11. CASE PumpReadFails
  BY <1>11 DEF PumpReadFails, PumpFails
<1>12. CASE PumpQueues
  BY <1>12 DEF PumpQueues, PumpFails
<1>13. CASE PumpEnds
  BY <1>13 DEF PumpEnds
<1>14. CASE LoopStarts
  BY <1>14 DEF LoopStarts
<1>15. CASE LoopHandles
  BY <1>15 DEF LoopHandles
<1>16. CASE LoopError
  BY <1>16 DEF LoopError
<1>17. ASSUME NEW channel \in {"messages", "errors"}, LoopDrained(channel)
       PROVE  LastWord'
  BY <1>17 DEF LoopDrained
<1>18. CASE LoopStopped
  BY <1>18 DEF LoopStopped
<1>19. CASE SendLocks
  BY <1>19 DEF SendLocks
<1>20. CASE SendWrites
  <2>1. CASE outbox' = outbox
    BY <1>20, <2>1 DEF SendWrites
  <2>2. CASE conn = "open" /\ outbox' = Append(outbox, "signal")
    <3>1. mu = "send" /\ mu' = None /\ UNCHANGED <<conn, closing>>
      BY <1>20 DEF SendWrites
    <3>2. closing \in {"no", "waiting"}
      BY <2>2, <3>1
    <3>3. \A i \in 1..Len(outbox') : outbox'[i] # "leave"
      BY <2>2, <3>2
    <3> QED
      BY <3>1, <3>2, <3>3
  <2> QED
    BY <1>20, <2>1, <2>2 DEF SendWrites
<1>21. CASE Close
  BY <1>21 DEF Close
<1>22. CASE CloseLocks
  BY <1>22 DEF CloseLocks
<1>23. CASE CloseLeaves
  <2>1. closing = "leaving" /\ closing' = "left" /\ UNCHANGED <<mu, conn>>
    BY <1>23 DEF CloseLeaves
  <2>2. \A i \in 1..Len(outbox) : outbox[i] # "leave"
    BY <2>1
  <2>3. CASE outbox' = outbox
    BY <2>1, <2>2, <2>3
  <2>4. CASE outbox' = Append(outbox, "leave")
    <3>1. LeaveIsLast'
      BY <2>2, <2>4
    <3> QED
      BY <2>1, <3>1
  <2> QED
    BY <1>23, <2>3, <2>4 DEF CloseLeaves
<1>24. CASE CloseCloses
  BY <1>24 DEF CloseCloses
<1>25. CASE CloseCancels
  BY <1>25 DEF CloseCancels
<1>26. CASE UNCHANGED vars
  BY <1>26 DEF vars
<1> QED
  BY <1>1, <1>2, <1>3, <1>4, <1>5, <1>6, <1>7, <1>8, <1>9, <1>10, <1>11, <1>12,
     <1>13, <1>14, <1>15, <1>16, <1>17, <1>18, <1>19, <1>20, <1>21, <1>22,
     <1>23, <1>24, <1>25, <1>26
  DEF Next, DialStep, PumpStep, LoopStep, CloseStep, Finished

\* Events keep their order from the wire through the pump and the queue.  The
\* pump that finds the queue full ends, and queues nothing after that.
LEMMA InOrderStep ==
  ASSUME Shapes, Admission, InOrder, [Next]_vars
  PROVE  InOrder'
<1> USE DEF Shapes, Admission, InOrder, Passed, connVars, serverVars, pumpVars,
        loopVars, lockVars
<1>1. CASE Connect
  BY <1>1 DEF Connect
<1>2. CASE ConnectFails
  BY <1>2 DEF ConnectFails
<1>3. CASE WriteJoin
  BY <1>3 DEF WriteJoin
<1>4. CASE JoinFails
  BY <1>4 DEF JoinFails, Abort
<1>5. CASE JoinRejected
  BY <1>5 DEF JoinRejected, Abort
<1>6. CASE JoinAccepted
  BY <1>6 DEF JoinAccepted
<1>7. CASE CancelAll
  BY <1>7 DEF CancelAll
<1>8. ASSUME NEW kind \in {"accepted", "error"}, Answer(kind) PROVE InOrder'
  BY <1>8 DEF Answer
<1>9. CASE ServerSends
  <2>1. PICK m \in OnWire : wire' = Append(wire, m) /\ m.n = produced + 1
    BY <1>9 DEF ServerSends, Event, Garbage, OnWire
  <2>2. /\ produced' = produced + 1 /\ UNCHANGED <<handled, recv, pump, held>>
        /\ Passed' = Passed /\ Len(wire') = Len(wire) + 1
    BY <1>9, <2>1, Appended DEF ServerSends
  <2>3. \A i \in 1..Len(wire) + 1 :
          wire'[i] = IF i <= Len(wire) THEN wire[i] ELSE m
    <3>1. wire \in Seq(OnWire)
      OBVIOUS
    <3> HIDE DEF InOrder, Shapes, Admission, OnWire
    <3> QED
      BY <2>1, <3>1, Appended
  <2>4. Len(wire) \in Nat /\ Passed \in Nat /\ produced \in Nat
    OBVIOUS
  <2> HIDE DEF Shapes, Passed
  <2>5. CASE pump = "reading"
    <3>1. Passed + Len(wire) = produced
      BY <2>5
    <3>2. ASSUME NEW i \in 1..Len(wire')
          PROVE  wire'[i].n = Passed + i
      <4>1. CASE i \in 1..Len(wire)
        <5>1. wire'[i] = wire[i]
          BY <2>3, <2>4, <4>1
        <5> QED
          BY <2>5, <2>4, <4>1, <5>1
      <4>2. CASE i = Len(wire) + 1
        <5>1. wire'[i] = m
          BY <2>3, <2>4, <4>2
        <5> QED
          BY <2>1, <2>4, <3>1, <4>2, <5>1
      <4> QED
        BY <2>2, <2>4, <4>1, <4>2
    <3>3. Passed' + Len(wire') = produced'
      BY <2>2, <2>4, <3>1
    <3> QED
      BY <2>2, <2>5, <2>4, <3>2, <3>3
  <2>6. CASE pump = "holding"
    <3>1. Passed + 1 + Len(wire) = produced
      BY <2>6
    <3>2. ASSUME NEW i \in 1..Len(wire')
          PROVE  wire'[i].n = Passed + 1 + i
      <4>1. CASE i \in 1..Len(wire)
        <5>1. wire'[i] = wire[i]
          BY <2>3, <2>4, <4>1
        <5> QED
          BY <2>6, <2>4, <4>1, <5>1
      <4>2. CASE i = Len(wire) + 1
        <5>1. wire'[i] = m
          BY <2>3, <2>4, <4>2
        <5> QED
          BY <2>1, <2>4, <3>1, <4>2, <5>1
      <4> QED
        BY <2>2, <2>4, <4>1, <4>2
    <3>3. held' = Passed' + 1 /\ Passed' + 1 + Len(wire') = produced'
      BY <2>2, <2>6, <2>4
    <3> QED
      BY <2>2, <2>6, <2>4, <3>2, <3>3
  <2> QED
    BY <2>2, <2>5, <2>6, <2>4
<1>10. CASE PumpRead
  <2>1. /\ pump = "reading" /\ wire # <<>> /\ wire' = Tail(wire)
        /\ UNCHANGED <<handled, recv, produced>> /\ Passed' = Passed
    BY <1>10 DEF PumpRead
  <2>2. CASE pump' = "closing"
    BY <2>1, <2>2
  <2>3. CASE pump' = "holding" /\ held' = Head(wire).n
    <3>1. Len(wire') = Len(wire) - 1 /\ Len(wire) > 0 /\ Head(wire) = wire[1]
      BY <2>1
    <3>2. \A i \in 1..Len(wire') : wire'[i].n = Passed + 1 + i
      BY <2>1, <3>1
    <3>3. wire[1].n = Passed + 1
      <4>1. 1 \in 1..Len(wire)
        BY <3>1
      <4> QED
        BY <2>1, <4>1
    <3>4. held' = Passed + 1 /\ Passed + 1 + Len(wire') = produced
      <4>1. /\ Passed \in Nat /\ Len(wire) \in Nat
            /\ Passed + Len(wire) = produced
        BY <2>1
      <4> HIDE DEF Shapes, InOrder, Passed
      <4> QED
        BY <2>3, <3>1, <3>3, <4>1
    <3> QED
      BY <2>1, <2>3, <3>2, <3>4
  <2> QED
    BY <1>10, <2>2, <2>3 DEF PumpRead, PumpFails
<1>11. CASE PumpReadFails
  BY <1>11 DEF PumpReadFails, PumpFails
<1>12. CASE PumpQueues
  <2>1. CASE /\ recv' = Append(recv, held)
             /\ pump' = "reading" /\ held' = None
    <3>1. pump = "holding" /\ UNCHANGED <<handled, wire, produced>>
      BY <1>12 DEF PumpQueues
    <3>2. held = Passed + 1 /\ held \in 1..MaxEvents /\ Passed \in Nat
      BY <3>1
    <3>3. /\ Len(recv') = Len(recv) + 1 /\ Passed' = Passed + 1
          /\ \A i \in 1..Len(recv) + 1 :
               recv'[i] = IF i <= Len(recv) THEN recv[i] ELSE held
      BY <2>1, <3>1, <3>2, Appended
    <3>4. ASSUME NEW i \in 1..Len(recv')
          PROVE  recv'[i] = Len(handled') + i
      <4>1. CASE i \in 1..Len(recv)
        <5>1. recv'[i] = recv[i]
          BY <3>3, <4>1
        <5> QED
          BY <3>1, <4>1, <5>1
      <4>2. CASE i = Len(recv) + 1
        <5>1. recv'[i] = held
          <6>1. /\ Len(recv) \in Nat /\ i \in 1..Len(recv) + 1
                /\ ~(i <= Len(recv))
            BY <4>2
          <6> HIDE DEF Shapes, InOrder, Passed
          <6> QED
            BY <3>3, <6>1
        <5> QED
          BY <3>1, <3>2, <4>2, <5>1
      <4> QED
        BY <3>3, <4>1, <4>2
    <3>5. Passed' + Len(wire') = produced' /\ Passed' <= produced'
      BY <3>1, <3>3
    <3>6. \A i \in 1..Len(wire') : wire'[i].n = Passed' + i
      BY <3>1, <3>3
    <3> QED
      BY <2>1, <3>1, <3>4, <3>5, <3>6
  <2>2. CASE pump' = "closing" /\ recv' = recv
    BY <1>12, <2>2 DEF PumpQueues
  <2> QED
    BY <1>12, <2>1, <2>2 DEF PumpQueues, PumpFails
<1>13. CASE PumpEnds
  BY <1>13 DEF PumpEnds
<1>14. CASE LoopStarts
  BY <1>14 DEF LoopStarts
<1>15. CASE LoopHandles
  <2>1. /\ recv # <<>> /\ handled' = Append(handled, Head(recv))
        /\ recv' = Tail(recv) /\ UNCHANGED <<pump, held, wire, produced>>
    BY <1>15 DEF LoopHandles
  <2>2. /\ Len(handled') = Len(handled) + 1 /\ Len(recv') = Len(recv) - 1
        /\ Passed' = Passed
    BY <2>1
  <2>3. \A i \in 1..Len(handled') : handled'[i] = i
    BY <2>1, <2>2
  <2>4. \A i \in 1..Len(recv') : recv'[i] = Len(handled') + i
    BY <2>1, <2>2
  <2> QED
    BY <2>1, <2>2, <2>3, <2>4
<1>16. CASE LoopError
  BY <1>16 DEF LoopError
<1>17. ASSUME NEW channel \in {"messages", "errors"}, LoopDrained(channel)
       PROVE  InOrder'
  BY <1>17 DEF LoopDrained
<1>18. CASE LoopStopped
  BY <1>18 DEF LoopStopped
<1>19. CASE SendLocks
  BY <1>19 DEF SendLocks
<1>20. CASE SendWrites
  BY <1>20 DEF SendWrites
<1>21. CASE Close
  BY <1>21 DEF Close
<1>22. CASE CloseLocks
  BY <1>22 DEF CloseLocks
<1>23. CASE CloseLeaves
  BY <1>23 DEF CloseLeaves
<1>24. CASE CloseCloses
  BY <1>24 DEF CloseCloses
<1>25. CASE CloseCancels
  BY <1>25 DEF CloseCancels
<1>26. CASE UNCHANGED vars
  BY <1>26 DEF vars
<1> QED
  BY <1>1, <1>2, <1>3, <1>4, <1>5, <1>6, <1>7, <1>8, <1>9, <1>10, <1>11, <1>12,
     <1>13, <1>14, <1>15, <1>16, <1>17, <1>18, <1>19, <1>20, <1>21, <1>22,
     <1>23, <1>24, <1>25, <1>26
  DEF Next, DialStep, PumpStep, LoopStep, CloseStep, Finished

----------------------------------------------------------------------------
\* The theorems.

\* Before Dial nothing is written, sent or queued.
LEMMA ClientInit == Init => ClientInv
<1> SUFFICES ASSUME Init PROVE ClientInv
  OBVIOUS
<1> USE ClientAssumption DEF Init
<1>1. TypeOK
  <2>1. 0 \in 0..MaxEvents /\ 0 \in 0..MaxSends /\ Len(<<>>) = 0
    OBVIOUS
  <2>2. /\ wire \in Seq(OnWire) /\ recv \in Seq(1..MaxEvents)
        /\ handled \in Seq(1..MaxEvents) /\ Len(recv) <= QueueSize
        /\ outbox \in Seq({"join", "signal", "leave"})
    BY <2>1
  <2>3. /\ produced \in 0..MaxEvents /\ sends \in 0..MaxSends
        /\ errs \in {<<>>, <<"error">>}
    BY <2>1
  <2> QED
    BY <2>2, <2>3 DEF TypeOK, OnWire
<1>2. Admission /\ LastWord /\ InOrder
  BY DEF Admission, LastWord, LeaveIsLast, InOrder, Passed
<1> QED
  BY <1>1, <1>2 DEF ClientInv

\* Every step keeps the invariant.
LEMMA ClientStep == ClientInv /\ [Next]_vars => ClientInv'
<1> SUFFICES ASSUME ClientInv, [Next]_vars PROVE ClientInv'
  OBVIOUS
<1>1. TypeOK /\ Admission /\ LastWord /\ InOrder
  BY DEF ClientInv
<1>2. Shapes
  BY <1>1, ClientAssumption DEF TypeOK, Shapes, OnWire
<1> QED
  BY <1>1, <1>2, TypeStep, AdmissionStep, LastWordStep, InOrderStep
  DEF ClientInv

\* So it holds throughout.
LEMMA ClientInvariant == Spec => []ClientInv
  BY ClientInit, ClientStep, PTL DEF Spec

\* Every variable of the client keeps its type: the queue never exceeds its
\* capacity, nor the error channel its single place.
THEOREM ClientTypeCorrect == Spec => []TypeOK
<1>1. ClientInv => TypeOK
  BY DEF ClientInv
<1> QED
  BY <1>1, ClientInvariant, PTL

\* Nothing follows leave_room on the connection, whatever the callbacks that
\* call Send, the pump and the network do while Close runs.
THEOREM LeaveAlwaysLast == Spec => []LeaveIsLast
<1>1. ClientInv => LeaveIsLast
  BY DEF ClientInv, LastWord
<1> QED
  BY <1>1, ClientInvariant, PTL

\* For every size of the queue the mesh acts on an unbroken prefix of the
\* events the server sent.
THEOREM EventsNeverSkipped == Spec => []NoGaps
<1>1. ASSUME ClientInv PROVE NoGaps
  <2>1. Shapes
    BY <1>1, ClientAssumption DEF ClientInv, TypeOK, Shapes, OnWire
  <2>2. /\ \A i \in 1..Len(handled) : handled[i] = i
        /\ \A i \in 1..Len(recv) : recv[i] = Len(handled) + i
    BY <1>1 DEF ClientInv, InOrder
  <2> DEFINE seen == handled \o recv
  <2>3. ASSUME NEW i \in 1..Len(seen) PROVE seen[i] = i
    <3>1. /\ Len(handled) \in Nat /\ Len(recv) \in Nat
          /\ Len(seen) = Len(handled) + Len(recv)
          /\ seen[i] = IF i <= Len(handled) THEN handled[i]
                       ELSE recv[i - Len(handled)]
      BY <2>1, <2>3 DEF Shapes
    <3>2. CASE i <= Len(handled)
      BY <2>2, <3>1, <3>2
    <3>3. CASE ~(i <= Len(handled))
      <4>1. i - Len(handled) \in 1..Len(recv)
        BY <3>1, <3>3
      <4>2. recv[i - Len(handled)] = Len(handled) + (i - Len(handled))
        BY <2>2, <4>1
      <4> QED
        BY <3>1, <3>3, <4>2
    <3> QED
      BY <3>2, <3>3
  <2> QED
    BY <2>3 DEF NoGaps
<1> QED
  BY <1>1, ClientInvariant, PTL

\* A Dial that failed, on any of its paths, has no connection open, its context
\* cancelled and no pump running: the first half of EndsCleanly.
THEOREM FailedDialLeavesNothing ==
  Spec => [](dial = "failed" => conn # "open" /\ ctxDone /\ pump = "none")
<1>1. ClientInv =>
        (dial = "failed" => conn # "open" /\ ctxDone /\ pump = "none")
  BY DEF ClientInv, Admission
<1> QED
  BY <1>1, ClientInvariant, PTL

=============================================================================
