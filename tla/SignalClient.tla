---------------------------- MODULE SignalClient ----------------------------
(***************************************************************************)
(* The client's end of the signaling connection: Dial, Send, Close and the *)
(* read pump of internal/signaling/client.go, and the loop of              *)
(* internal/rtc/mesh.go that consumes what the pump queues.                *)
(*                                                                         *)
(* The server and the socket are external.  After it has admitted the      *)
(* client, the server sends numbered events; the socket keeps their order, *)
(* and may fail at any time.  A Read whose context ends fails.             *)
(***************************************************************************)
EXTENDS Naturals, Sequences

CONSTANTS QueueSize,   \* peerQueueSize, the capacity of Client.recv
          MaxEvents,   \* bound: events the server sends
          MaxSends,    \* bound: calls of Send
          None

ASSUME ClientAssumption ==
  /\ QueueSize \in Nat \ {0} /\ MaxEvents \in Nat /\ MaxSends \in Nat
  /\ None \notin {"send", "close"}

VARIABLES
  dial,        \* "dialing", "joining", "awaiting", "open", "failed"
  conn,        \* "none", "open", "closed"
  ctxDone,     \* Client.ctx is done
  meshDone,    \* MeshManager.ctx is done
  wire,        \* what the server has sent and the client not read
  produced,    \* events the server has sent
  \* readPump
  pump,        \* "none", "reading", "holding", "closing", "ended"
  held,        \* the event read and not yet queued
  recv, recvClosed,
  errs,        \* Client.errors, buffered
  errsClosed,
  reported,    \* history: the pump ended with an error to report
  \* readSignalingLoop
  loop,        \* "off", "running", "done"
  open,        \* channels the loop still listens to
  handled,     \* events handled, in order
  noticed,     \* notices given to OnError
  \* Send and Close
  mu,          \* who holds Client.mu
  closing,     \* "no", "waiting", "leaving", "left", "closed", "done"
  sends,
  outbox       \* what the client has written to the server

connVars == <<dial, conn, ctxDone, meshDone>>
serverVars == <<wire, produced>>
pumpVars == <<pump, held, recv, recvClosed, errs, errsClosed, reported>>
loopVars == <<loop, open, handled, noticed>>
lockVars == <<mu, closing, sends, outbox>>
vars == <<dial, conn, ctxDone, meshDone, wire, produced, pump, held, recv,
          recvClosed, errs, errsClosed, reported, loop, open, handled,
          noticed, mu, closing, sends, outbox>>

\* Messages of the server: the answer to the join, or the n-th one after it.
Reply(kind) == [kind |-> kind, n |-> 0]
Event(n)    == [kind |-> "event", n |-> n]
Garbage(n)  == [kind |-> "bad", n |-> n]

Init ==
  /\ dial = "dialing" /\ conn = "none" /\ ctxDone = FALSE /\ meshDone = FALSE
  /\ wire = <<>> /\ produced = 0
  /\ pump = "none" /\ held = None /\ recv = <<>> /\ recvClosed = FALSE
  /\ errs = <<>> /\ errsClosed = FALSE /\ reported = FALSE
  /\ loop = "off" /\ open = {"messages", "errors"} /\ handled = <<>>
  /\ noticed = {}
  /\ mu = None /\ closing = "no" /\ sends = 0 /\ outbox = <<>>

----------------------------------------------------------------------------
\* Dial.

Connect ==
  /\ dial = "dialing"
  /\ dial' = "joining" /\ conn' = "open"
  /\ UNCHANGED <<ctxDone, meshDone, serverVars, pumpVars, loopVars, lockVars>>

\* No connection: there is only the context to cancel.
ConnectFails ==
  /\ dial = "dialing"
  /\ dial' = "failed" /\ ctxDone' = TRUE
  /\ UNCHANGED <<conn, meshDone, serverVars, pumpVars, loopVars, lockVars>>

\* abort.
Abort == dial' = "failed" /\ ctxDone' = TRUE /\ conn' = "closed"

WriteJoin ==
  /\ dial = "joining"
  /\ ~ctxDone
  /\ dial' = "awaiting"
  /\ outbox' = Append(outbox, "join")
  /\ UNCHANGED <<conn, ctxDone, meshDone, serverVars, pumpVars, loopVars, mu,
                 closing, sends>>

\* The join cannot be written, or no answer comes before the timeout.
JoinFails ==
  /\ dial \in {"joining", "awaiting"}
  /\ Abort
  /\ UNCHANGED <<meshDone, serverVars, pumpVars, loopVars, lockVars>>

\* Mutant of JoinRejected: the way out does not close the connection.
JoinRejectedOpen ==
  /\ dial = "awaiting" /\ wire # <<>> /\ Head(wire).kind # "accepted"
  /\ wire' = Tail(wire)
  /\ dial' = "failed" /\ ctxDone' = TRUE
  /\ UNCHANGED <<conn, meshDone, produced, pumpVars, loopVars, lockVars>>

\* An error, or an answer that is no text, no protocol message, of another
\* version or type, or whose admission is not valid.
JoinRejected ==
  /\ dial = "awaiting" /\ wire # <<>> /\ Head(wire).kind # "accepted"
  /\ wire' = Tail(wire)
  /\ Abort
  /\ UNCHANGED <<meshDone, produced, pumpVars, loopVars, lockVars>>

\* join_accepted: the pump starts.
JoinAccepted ==
  /\ dial = "awaiting" /\ wire # <<>> /\ Head(wire).kind = "accepted"
  /\ wire' = Tail(wire)
  /\ dial' = "open" /\ pump' = "reading"
  /\ UNCHANGED <<conn, ctxDone, meshDone, produced, held, recv, recvClosed,
                 errs, errsClosed, reported, loopVars, lockVars>>

----------------------------------------------------------------------------
\* The server, and the program around the client.

Answer(kind) ==
  /\ dial = "awaiting" /\ wire = <<>>
  /\ wire' = <<Reply(kind)>>
  /\ UNCHANGED <<connVars, produced, pumpVars, loopVars, lockVars>>

\* An event, or a message no client can read.
ServerSends ==
  /\ dial = "open" /\ conn = "open" /\ produced < MaxEvents
  /\ \E m \in {Event(produced + 1), Garbage(produced + 1)} :
       wire' = Append(wire, m)
  /\ produced' = produced + 1
  /\ UNCHANGED <<connVars, pumpVars, loopVars, lockVars>>

\* main cancels the context that the client and the mesh derive theirs from.
CancelAll ==
  /\ ~meshDone
  /\ meshDone' = TRUE /\ ctxDone' = TRUE
  /\ UNCHANGED <<dial, conn, serverVars, pumpVars, loopVars, lockVars>>

----------------------------------------------------------------------------
\* readPump.  Deferred calls run last one first: close(errors), close(recv),
\* CloseNow, cancel.  No one waits for one of them without the others, so
\* they are one step.

\* Mutant of PumpFails: the channel of errors has no place of its own, and
\* the report is lost when the loop is busy.
PumpFailsUnheard ==
  /\ errs' = errs
  /\ pump' = "closing" /\ held' = None /\ reported' = TRUE

\* reportError, which never blocks, and the return.
PumpFails ==
  /\ errs' = IF errs = <<>> THEN <<"error">> ELSE errs
  /\ pump' = "closing" /\ held' = None /\ reported' = TRUE

PumpRead ==
  /\ pump = "reading" /\ conn = "open" /\ wire # <<>>
  /\ wire' = Tail(wire)
  /\ IF Head(wire).kind = "bad"
     THEN PumpFails
     ELSE pump' = "holding" /\ held' = Head(wire).n /\ UNCHANGED <<errs, reported>>
  /\ UNCHANGED <<connVars, produced, recv, recvClosed, errsClosed, loopVars,
                 lockVars>>

\* Read fails: silently when this side has closed the connection or ended the
\* context, or the server has closed it; with a report otherwise.
PumpReadFails ==
  /\ pump = "reading"
  /\ \/ pump' = "closing" /\ UNCHANGED <<errs, held, reported>>
     \/ ~ctxDone /\ conn = "open" /\ PumpFails
  /\ UNCHANGED <<connVars, serverVars, recv, recvClosed, errsClosed, loopVars,
                 lockVars>>

\* Mutant of PumpQueues: what finds no place is skipped.
PumpSkips ==
  /\ pump = "holding"
  /\ recv' = IF Len(recv) < QueueSize THEN Append(recv, held) ELSE recv
  /\ pump' = "reading" /\ held' = None
  /\ UNCHANGED <<connVars, serverVars, recvClosed, errs, errsClosed, reported,
                 loopVars, lockVars>>

\* The select after Read: queue the event, see the context done, or give up
\* on a consumer that is too slow.
PumpQueues ==
  /\ pump = "holding"
  /\ \/ /\ Len(recv) < QueueSize
        /\ recv' = Append(recv, held)
        /\ pump' = "reading" /\ held' = None
        /\ UNCHANGED <<ctxDone, errs, reported>>
     \/ /\ ctxDone
        /\ pump' = "closing" /\ held' = None
        /\ UNCHANGED <<ctxDone, recv, errs, reported>>
     \/ /\ Len(recv) = QueueSize /\ ~ctxDone
        /\ PumpFails
        /\ ctxDone' = TRUE
        /\ UNCHANGED recv
  /\ UNCHANGED <<dial, conn, meshDone, serverVars, recvClosed, errsClosed,
                 loopVars, lockVars>>

PumpEnds ==
  /\ pump = "closing"
  /\ pump' = "ended"
  /\ errsClosed' = TRUE /\ recvClosed' = TRUE
  /\ conn' = "closed" /\ ctxDone' = TRUE
  /\ UNCHANGED <<dial, meshDone, serverVars, held, recv, errs, reported,
                 loopVars, lockVars>>

----------------------------------------------------------------------------
\* readSignalingLoop.  When several cases of its select are ready it takes
\* any of them.

LoopStarts ==
  /\ dial = "open" /\ loop = "off"
  /\ loop' = "running"
  /\ UNCHANGED <<connVars, serverVars, pumpVars, open, handled, noticed,
                 lockVars>>

LoopHandles ==
  /\ loop = "running" /\ recv # <<>>
  /\ handled' = Append(handled, Head(recv))
  /\ recv' = Tail(recv)
  /\ UNCHANGED <<connVars, serverVars, pump, held, recvClosed, errs,
                 errsClosed, reported, loop, open, noticed, lockVars>>

LoopError ==
  /\ loop = "running" /\ errs # <<>>
  /\ errs' = Tail(errs)
  /\ noticed' = noticed \cup {Head(errs)}
  /\ UNCHANGED <<connVars, serverVars, pump, held, recv, recvClosed,
                 errsClosed, reported, loop, open, handled, lockVars>>

\* A channel is closed and drained; after both the loop ends.
LoopDrained(channel) ==
  /\ loop = "running" /\ channel \in open
  /\ \/ channel = "messages" /\ recvClosed /\ recv = <<>>
        /\ noticed' = IF meshDone THEN noticed ELSE noticed \cup {"closed"}
     \/ channel = "errors" /\ errsClosed /\ errs = <<>> /\ UNCHANGED noticed
  /\ open' = open \ {channel}
  /\ loop' = IF open' = {} THEN "done" ELSE "running"
  /\ UNCHANGED <<connVars, serverVars, pumpVars, handled, lockVars>>

LoopStopped ==
  /\ loop = "running" /\ meshDone
  /\ loop' = "done"
  /\ UNCHANGED <<connVars, serverVars, pumpVars, open, handled, noticed,
                 lockVars>>

----------------------------------------------------------------------------
\* Send, from the loop and from WebRTC callbacks, and Close, from
\* MeshManager.Stop.

SendLocks ==
  /\ dial = "open" /\ mu = None /\ sends < MaxSends
  /\ mu' = "send" /\ sends' = sends + 1
  /\ UNCHANGED <<connVars, serverVars, pumpVars, loopVars, closing, outbox>>

\* The write succeeds, or fails because the connection or the context is
\* gone, or the network stalls for writeTimeout.
SendWrites ==
  /\ mu = "send"
  /\ mu' = None
  /\ \/ conn = "open" /\ ~ctxDone /\ outbox' = Append(outbox, "signal")
     \/ UNCHANGED outbox
  /\ UNCHANGED <<connVars, serverVars, pumpVars, loopVars, closing, sends>>

\* Stop cancels the context of the mesh and calls Close, which runs once.
Close ==
  /\ dial = "open" /\ closing = "no"
  /\ closing' = "waiting" /\ meshDone' = TRUE
  /\ UNCHANGED <<dial, conn, ctxDone, serverVars, pumpVars, loopVars, mu,
                 sends, outbox>>

CloseLocks ==
  /\ closing = "waiting" /\ mu = None
  /\ closing' = "leaving" /\ mu' = "close"
  /\ UNCHANGED <<connVars, serverVars, pumpVars, loopVars, sends, outbox>>

\* Mutant of CloseLeaves: the lock is given up before the connection closes.
CloseLeavesUnlocked ==
  /\ closing = "leaving"
  /\ closing' = "left" /\ mu' = None
  /\ outbox' = IF conn = "open" THEN Append(outbox, "leave") ELSE outbox
  /\ UNCHANGED <<connVars, serverVars, pumpVars, loopVars, sends>>

\* leave_room, which has a second to get out.
CloseLeaves ==
  /\ closing = "leaving"
  /\ closing' = "left"
  /\ \/ conn = "open" /\ outbox' = Append(outbox, "leave")
     \/ UNCHANGED outbox
  /\ UNCHANGED <<connVars, serverVars, pumpVars, loopVars, mu, sends>>

CloseCloses ==
  /\ closing = "left"
  /\ closing' = "closed" /\ conn' = "closed" /\ mu' = None
  /\ UNCHANGED <<dial, ctxDone, meshDone, serverVars, pumpVars, loopVars,
                 sends, outbox>>

CloseCancels ==
  /\ closing = "closed"
  /\ closing' = "done" /\ ctxDone' = TRUE
  /\ UNCHANGED <<dial, conn, meshDone, serverVars, pumpVars, loopVars, mu,
                 sends, outbox>>

----------------------------------------------------------------------------
\* The program is over.
Finished ==
  /\ dial = "failed" \/ (closing = "done" /\ pump = "ended" /\ loop = "done")
  /\ UNCHANGED vars

DialStep ==
  \/ Connect \/ ConnectFails \/ WriteJoin \/ JoinFails \/ JoinRejected
  \/ JoinAccepted

\* What the pump does for sure: a Read ends when the connection or the
\* context does.
PumpStep ==
  \/ PumpRead \/ PumpQueues \/ PumpEnds
  \/ (ctxDone \/ conn = "closed") /\ PumpReadFails

LoopStep ==
  \/ LoopStarts \/ LoopHandles \/ LoopError \/ LoopStopped
  \/ \E channel \in {"messages", "errors"} : LoopDrained(channel)

CloseStep == CloseLocks \/ CloseLeaves \/ CloseCloses \/ CloseCancels

Next ==
  \/ DialStep \/ CancelAll
  \/ \E kind \in {"accepted", "error"} : Answer(kind)
  \/ ServerSends
  \/ PumpStep \/ PumpReadFails \/ LoopStep
  \/ SendLocks \/ SendWrites \/ Close \/ CloseStep
  \/ Finished

Spec == Init /\ [][Next]_vars

\* Goroutines run, writes end within their timeouts, and a goroutine that
\* waits for Client.mu gets it although others come and go.
Fairness ==
  /\ WF_vars(DialStep) /\ WF_vars(PumpStep) /\ WF_vars(LoopStep)
  /\ WF_vars(SendWrites) /\ SF_vars(CloseStep)

FairSpec == Spec /\ Fairness

----------------------------------------------------------------------------
\* Properties.

\* Every variable keeps the shape of the Go value it stands for; the queue
\* never exceeds its capacity and the error channel its single place.
TypeOK ==
  /\ dial \in {"dialing", "joining", "awaiting", "open", "failed"}
  /\ conn \in {"none", "open", "closed"}
  /\ ctxDone \in BOOLEAN /\ meshDone \in BOOLEAN
  /\ wire \in Seq([kind : {"accepted", "error", "event", "bad"},
                   n : 0..MaxEvents])
  /\ produced \in 0..MaxEvents
  /\ pump \in {"none", "reading", "holding", "closing", "ended"}
  /\ held \in {None} \cup 1..MaxEvents
  /\ recv \in Seq(1..MaxEvents) /\ Len(recv) <= QueueSize
  /\ recvClosed \in BOOLEAN /\ errsClosed \in BOOLEAN
  /\ errs \in {<<>>, <<"error">>} /\ reported \in BOOLEAN
  /\ loop \in {"off", "running", "done"} /\ open \subseteq {"messages", "errors"}
  /\ handled \in Seq(1..MaxEvents) /\ noticed \subseteq {"error", "closed"}
  /\ mu \in {None, "send", "close"}
  /\ closing \in {"no", "waiting", "leaving", "left", "closed", "done"}
  /\ sends \in 0..MaxSends
  /\ outbox \in Seq({"join", "signal", "leave"})

\* The mesh acts on an unbroken prefix of what the server sent: a consumer
\* that cannot keep up ends the session and never skips an event, which would
\* leave it with a wrong picture of the room.
NoGaps ==
  LET seen == handled \o recv
  IN \A i \in 1..Len(seen) : seen[i] = i

\* leave_room is the last thing a client says: an offer, answer or candidate
\* of a callback that still runs comes before it or not at all.  The server
\* model relies on this (Rejoin = FALSE).
LeaveIsLast ==
  \A i \in 1..Len(outbox) : outbox[i] = "leave" => i = Len(outbox)

\* The end of the session does not go unnoticed: the loop tells the user that
\* the connection is closed, unless the user ended it, and so what the pump
\* reported before it returned, although both channels are closed under it.
EndNoticed ==
  /\ pump = "ended" ~> "closed" \in noticed \/ meshDone
  /\ reported ~> "error" \in noticed \/ meshDone

\* Whichever way it ends, nothing is left: a Dial that failed on any of its
\* paths has no connection open and no pump running, and Close returns and
\* takes the pump and the loop with it, whatever Send and the pump are doing
\* with the connection and the lock.
EndsCleanly ==
  /\ [](dial = "failed" => conn # "open" /\ ctxDone /\ pump = "none")
  /\ closing # "no" ~> closing = "done" /\ pump = "ended" /\ loop = "done"

=============================================================================
