------------------------------ MODULE AgentClient ------------------------------
(***************************************************************************)
(* The agent's side of the link (internal/grpc/client/client.go): the      *)
(* connection loop with its backoff, the three loops of a stream and Stop. *)
(*                                                                         *)
(* The client has one `stream' field and one send channel for all the      *)
(* streams it opens one after the other; the loops of a stream read the    *)
(* field again for every message.  A session is one call of handleStream   *)
(* with its loops; it is named like the stream that was opened for it.     *)
(* Message contents do not matter: the channel is the number of messages   *)
(* in it.                                                                  *)
(***************************************************************************)
EXTENDS Naturals

CONSTANTS
    Sessions,            \* the sessions, and the streams opened for them
    NoSession,           \* "no stream"
    sendChannelBuffer,   \* capacity of sendCh (100 in the source)
    initialDelay,        \* first delay of the backoff, in seconds (1 in the source)
    maxDelay             \* its last (30 in the source)

ASSUME ClientAssumption ==
    /\ NoSession \notin Sessions
    /\ sendChannelBuffer \in Nat \ {0}
    /\ initialDelay \in Nat \ {0} /\ maxDelay \in Nat /\ initialDelay <= maxDelay

backoffFactor == 2

\* Capacity of the errChan of a session.
errChanBuffer == 3

VARIABLES
    loop,        \* where connectionLoop stands, "returned" when doneCh is closed
    delay,       \* reconnectDelay
    stream,      \* the stream field
    up,          \* the streams that work
    session,     \* per session: its done channel, its errChan and its loops
    queued,      \* the number of messages in sendCh
    stop         \* the call of Stop: "none", "closed" (stopCh), "cancelled", "returned"

vars == <<loop, delay, stream, up, session, queued, stop>>

\* A loop is at `pc', "none" when it has ended; `on' is the stream it loaded.
Ended == [pc |-> "none", on |-> NoSession]

NoSessionYet == [done |-> FALSE, errs |-> 0, receiver |-> Ended, sender |-> Ended,
                 pinger |-> "none"]

\* stopCh is closed.
Stopped == stop # "none"

Init ==
    /\ loop = "top" /\ delay = initialDelay /\ stream = NoSession /\ up = {}
    /\ session = [s \in Sessions |-> NoSessionYet]
    /\ queued = 0 /\ stop = "none"

-----------------------------------------------------------------------------
\* disconnect: the stream is closed for sending and its connection closed.
Disconnect ==
    /\ stream' = NoSession
    /\ up' = up \ {stream}

\* The top of connectionLoop: look at stopCh.
LoopTop ==
    /\ loop = "top"
    /\ \/ Stopped /\ loop' = "returned" /\ Disconnect
       \/ ~Stopped /\ loop' = "connect" /\ UNCHANGED <<stream, up>>
    /\ UNCHANGED <<delay, session, queued, stop>>

ConnectFails ==
    /\ loop = "connect"
    /\ loop' = "backoff"
    /\ UNCHANGED <<delay, stream, up, session, queued, stop>>

\* connect succeeds, the delay is reset, and handleStream spawns its loops.  A
\* stream cannot be opened once the client's context is cancelled.
Connect(s) ==
    /\ loop = "connect" /\ stop # "cancelled"
    /\ session[s] = NoSessionYet
    /\ stream' = s /\ up' = up \cup {s} /\ loop' = "stream" /\ delay' = initialDelay
    /\ session' = [session EXCEPT ![s].receiver.pc = "top", ![s].sender.pc = "select",
                                  ![s].pinger = "select"]
    /\ UNCHANGED <<queued, stop>>

\* increaseReconnectDelay
IncreasedDelay ==
    IF delay * backoffFactor > maxDelay THEN maxDelay ELSE delay * backoffFactor

\* The wait after a failed connect ends with the timer or with stopCh.
Backoff ==
    /\ loop = "backoff"
    /\ \/ loop' = "top" /\ delay' = IncreasedDelay
       \/ Stopped /\ loop' = "returned" /\ UNCHANGED delay
    /\ UNCHANGED <<stream, up, session, queued, stop>>

\* handleStream receives the first error, closes done and returns.
StreamEnds(s) ==
    /\ loop = "stream" /\ stream = s
    /\ session[s].errs > 0
    /\ loop' = "disconnect"
    /\ session' = [session EXCEPT ![s].errs = @ - 1, ![s].done = TRUE]
    /\ UNCHANGED <<delay, stream, up, queued, stop>>

\* Mutant of LoopDisconnects: stopCh is looked at before disconnect.
LoopDisconnectsLate ==
    /\ loop = "disconnect"
    /\ \/ Stopped /\ loop' = "returned" /\ UNCHANGED <<stream, up>>
       \/ ~Stopped /\ loop' = "sleep" /\ Disconnect
    /\ UNCHANGED <<delay, session, queued, stop>>

\* disconnect, and stopCh is looked at once before the sleep...
LoopDisconnects ==
    /\ loop = "disconnect"
    /\ Disconnect
    /\ loop' = IF Stopped THEN "returned" ELSE "sleep"
    /\ UNCHANGED <<delay, session, queued, stop>>

\* ... which nothing interrupts.
SleepEnds ==
    /\ loop = "sleep"
    /\ loop' = "top" /\ delay' = IncreasedDelay
    /\ UNCHANGED <<stream, up, session, queued, stop>>

-----------------------------------------------------------------------------
\* Mutant of Reports: errChan has room for one error only.
ReportsOne(s, ended) ==
    /\ session[s].errs < 1
    /\ session' = [session EXCEPT ![s] = [ended EXCEPT !.errs = @ + 1]]

\* A loop of session s sends its error to errChan and returns; `ended' is the
\* session without the loop.
Reports(s, ended) ==
    /\ session[s].errs < errChanBuffer
    /\ session' = [session EXCEPT ![s] = [ended EXCEPT !.errs = @ + 1]]

\* receiveLoop: done is looked at before every message...
ReceiverTop(s) ==
    /\ session[s].receiver.pc = "top"
    /\ session' = [session EXCEPT ![s].receiver =
                      IF session[s].done THEN Ended ELSE [pc |-> "load", on |-> NoSession]]
    /\ UNCHANGED <<loop, delay, stream, up, queued, stop>>

\* ... then the stream field is read under c.mu...
ReceiverLoads(s) ==
    /\ session[s].receiver.pc = "load"
    /\ IF stream = NoSession
       THEN Reports(s, [session[s] EXCEPT !.receiver = Ended])
       ELSE session' = [session EXCEPT ![s].receiver = [pc |-> "recv", on |-> stream]]
    /\ UNCHANGED <<loop, delay, stream, up, queued, stop>>

\* ... and Recv returns a message: a REQUEST is handled by a goroutine of its own,
\* a PONG or anything else is logged, and the loop goes on...
ReceiverGets(s) ==
    /\ session[s].receiver.pc = "recv" /\ session[s].receiver.on \in up
    /\ session' = [session EXCEPT ![s].receiver = [pc |-> "top", on |-> NoSession]]
    /\ UNCHANGED <<loop, delay, stream, up, queued, stop>>

\* Mutant of ReceiverFails: the error is not reported.
ReceiverFailsSilently(s) ==
    /\ session[s].receiver.pc = "recv" /\ session[s].receiver.on \notin up
    /\ session' = [session EXCEPT ![s].receiver = Ended]
    /\ UNCHANGED <<loop, delay, stream, up, queued, stop>>

\* ... or an error.
ReceiverFails(s) ==
    /\ session[s].receiver.pc = "recv" /\ session[s].receiver.on \notin up
    /\ Reports(s, [session[s] EXCEPT !.receiver = Ended])
    /\ UNCHANGED <<loop, delay, stream, up, queued, stop>>

\* sendLoop: done or a message; when both are there the select picks one.
SenderEnds(s) ==
    /\ session[s].sender.pc = "select"
    /\ session[s].done
    /\ session' = [session EXCEPT ![s].sender = Ended]
    /\ UNCHANGED <<loop, delay, stream, up, queued, stop>>

SenderTakes(s) ==
    /\ session[s].sender.pc = "select"
    /\ queued > 0
    /\ session' = [session EXCEPT ![s].sender.pc = "load"]
    /\ queued' = queued - 1
    /\ UNCHANGED <<loop, delay, stream, up, stop>>

SenderLoads(s) ==
    /\ session[s].sender.pc = "load"
    /\ IF stream = NoSession
       THEN Reports(s, [session[s] EXCEPT !.sender = Ended])
       ELSE session' = [session EXCEPT ![s].sender = [pc |-> "send", on |-> stream]]
    /\ UNCHANGED <<loop, delay, stream, up, queued, stop>>

\* stream.Send gets through, or fails and the message is lost.
SenderSends(s) ==
    /\ session[s].sender.pc = "send" /\ session[s].sender.on \in up
    /\ session' = [session EXCEPT ![s].sender = [pc |-> "select", on |-> NoSession]]
    /\ UNCHANGED <<loop, delay, stream, up, queued, stop>>

SenderFails(s) ==
    /\ session[s].sender.pc = "send" /\ session[s].sender.on \notin up
    /\ Reports(s, [session[s] EXCEPT !.sender = Ended])
    /\ UNCHANGED <<loop, delay, stream, up, queued, stop>>

\* Send: the message is queued, or refused when the channel is full.
Enqueue == queued < sendChannelBuffer /\ queued' = queued + 1

\* pingLoop: the ticker fires and a PING is queued; a full channel ends the loop.
PingerTicks(s) ==
    /\ session[s].pinger = "select"
    /\ \/ Enqueue /\ UNCHANGED session
       \/ /\ queued = sendChannelBuffer
          /\ Reports(s, [session[s] EXCEPT !.pinger = "none"])
          /\ UNCHANGED queued
    /\ UNCHANGED <<loop, delay, stream, up, stop>>

PingerEnds(s) ==
    /\ session[s].done /\ session[s].pinger = "select"
    /\ session' = [session EXCEPT ![s].pinger = "none"]
    /\ UNCHANGED <<loop, delay, stream, up, queued, stop>>

\* handleRequest, in the goroutine of some REQUEST received earlier: the local
\* service has answered or failed, at its own pace; the response or the 502 is
\* queued.  (It is dropped when the channel is full, which changes nothing.)
RequestEnds ==
    /\ Enqueue
    /\ UNCHANGED <<loop, delay, stream, up, session, stop>>

\* All loops of a session have ended and no loop works on its stream: its name may
\* be used again.
Forget(s) ==
    /\ session[s].done /\ stream # s
    /\ \A t \in Sessions : s \notin {session[t].receiver.on, session[t].sender.on}
    /\ session[s].receiver = Ended /\ session[s].sender = Ended
    /\ session[s].pinger = "none"
    /\ session' = [session EXCEPT ![s] = NoSessionYet]
    /\ UNCHANGED <<loop, delay, stream, up, queued, stop>>

-----------------------------------------------------------------------------
\* The server or the network ends a stream.
StreamBreaks ==
    /\ \E s \in up : up' = up \ {s}
    /\ UNCHANGED <<loop, delay, stream, session, queued, stop>>

\* Stop: close stopCh...
StopClose ==
    /\ stop = "none"
    /\ stop' = "closed"
    /\ UNCHANGED <<loop, delay, stream, up, session, queued>>

\* Mutant of StopCancel: the context is not cancelled.
StopCancelSkipped ==
    /\ stop = "closed"
    /\ stop' = "cancelled"
    /\ UNCHANGED <<loop, delay, stream, up, session, queued>>

\* ... cancel the context, which every stream was opened with...
StopCancel ==
    /\ stop = "closed"
    /\ stop' = "cancelled"
    /\ up' = {}
    /\ UNCHANGED <<loop, delay, stream, session, queued>>

\* ... and wait for doneCh.
StopReturns ==
    /\ stop = "cancelled" /\ loop = "returned"
    /\ stop' = "returned"
    /\ UNCHANGED <<loop, delay, stream, up, session, queued>>

-----------------------------------------------------------------------------
LoopStep ==
    \/ LoopTop \/ ConnectFails \/ (\E s \in Sessions : Connect(s)) \/ Backoff
    \/ (\E s \in Sessions : StreamEnds(s)) \/ LoopDisconnects \/ SleepEnds

\* What the loops of a session do by themselves.
ReceiverStep(s) == ReceiverTop(s) \/ ReceiverLoads(s) \/ ReceiverFails(s)

SenderStep(s) == SenderTakes(s) \/ SenderLoads(s) \/ SenderFails(s)

StopStep == StopCancel \/ StopReturns

Terminated ==
    /\ stop = "returned"
    /\ \A s \in Sessions : session[s] = NoSessionYet
    /\ UNCHANGED vars

Next ==
    \/ LoopStep \/ StopStep \/ StopClose \/ StreamBreaks \/ RequestEnds
    \/ \E s \in Sessions :
          \/ ReceiverStep(s) \/ ReceiverGets(s)
          \/ SenderStep(s) \/ SenderEnds(s) \/ SenderSends(s)
          \/ PingerTicks(s) \/ PingerEnds(s) \/ Forget(s)
    \/ Terminated

Spec == Init /\ [][Next]_vars

\* Goroutines take their steps and timers fire; an attempt to connect ends one way
\* or the other.  Nothing is assumed of the server, the network or the local
\* service, nor that a message gets through on a working stream.  A select that
\* finds done closed again and again takes it in the end.
FairSpec ==
    /\ Spec
    /\ WF_vars(LoopStep) /\ WF_vars(StopStep)
    /\ \A s \in Sessions :
          /\ WF_vars(ReceiverStep(s))
          /\ WF_vars(SenderStep(s))
          /\ SF_vars(SenderEnds(s))
          /\ WF_vars(PingerEnds(s))

-----------------------------------------------------------------------------
\* When Stop returns no stream is left open, whichever of the three ways out of
\* connectionLoop was taken.
StopLeavesNoStream == stop = "returned" => stream = NoSession /\ up = {}

\* Stop returns, wherever it finds the connection loop.
StopEnds == Stopped ~> (stop = "returned")

\* No goroutine leaks: the loops of a session end after done is closed, also when
\* all three have an error to report and only one is received.  (A loop that was
\* held up until the next stream was there works on that one for a message.)
SessionEnds ==
    \A s \in Sessions :
        session[s].done ~>
            /\ session[s].receiver = Ended \/ session[s].receiver.on \in Sessions \ {s}
            /\ session[s].sender = Ended \/ session[s].sender.on \in Sessions \ {s}
            /\ session[s].pinger = "none"

\* A stream that breaks is replaced by an attempt to connect, unless Stop is called.
Reconnects == (loop = "stream" /\ stream \notin up) ~> (loop = "connect" \/ Stopped)
=============================================================================
