----------------------------- MODULE StreamHandler -----------------------------
(***************************************************************************)
(* The goroutines around the registry: HandleStream with its receiveLoop   *)
(* and sendLoop (internal/grpc/server/stream_handler.go), SendToAgent,     *)
(* which works on a connection outside cm.mu, and the stop of the gRPC     *)
(* server (server.go).                                                     *)
(*                                                                         *)
(* A stream is one call of HandleStream.  Its agent id is that of its      *)
(* first message; a stream whose first message fails or has no agent id    *)
(* changes nothing and is left out.  Requesters are the HTTP goroutines    *)
(* that call SendToAgent for a proxied request.                            *)
(***************************************************************************)
EXTENDS ConnectionManager, Naturals

CONSTANTS
    Requesters,          \* the HTTP goroutines that send to an agent
    sendChannelBuffer,   \* capacity of SendCh (100 in the source)
    Pings                \* do agents send PINGs, first and later?

ASSUME HandlerAssumption ==
    /\ Streams \cap Requesters = {}
    /\ sendChannelBuffer \in Nat \ {0}
    /\ Pings \in BOOLEAN

Senders == Streams \cup Requesters

VARIABLES
    stream,      \* per stream: its transport and its three goroutines
    queued,      \* per connection: the number of messages in SendCh
    send,        \* per goroutine: its SendToAgent call
    grpc,        \* the gRPC server: where Start and Stop stand
    panicked     \* a goroutine without recovery panicked: the process is gone

vars == <<cmVars, stream, queued, send, grpc, panicked>>

NoStream == [id |-> NoAgent, alive |-> FALSE, handler |-> "none", receiver |-> "none",
             sender |-> "none", failed |-> FALSE]

NoSend == [pc |-> "idle", conn |-> NoConn]

\* HandleStream has closed its done channel.
Done(s) == stream[s].handler \in {"deregister", "deregistering", "returned"}

-----------------------------------------------------------------------------
Init ==
    /\ CMInit
    /\ stream = [s \in Streams |-> NoStream]
    /\ queued = [s \in Streams |-> 0]
    /\ send = [g \in Senders |-> NoSend]
    /\ grpc = "serving"
    /\ panicked = FALSE

-----------------------------------------------------------------------------
\* SendToAgent(a), called by goroutine g: the lookup under cm.mu.RLock.  The
\* select that follows is outside the lock.
Lookup(g, a) ==
    /\ Unlocked
    /\ agents[a] # NoConn
    /\ send[g] = NoSend
    /\ send' = [send EXCEPT ![g] = [pc |-> "select", conn |-> agents[a]]]

\* The select puts the message into the channel.
Queue(g) ==
    LET c == send[g].conn IN
    /\ send[g].pc \in {"select", "blocked"}
    /\ c \notin closed /\ queued[c] < sendChannelBuffer
    /\ queued' = [queued EXCEPT ![c] = @ + 1]
    /\ send' = [send EXCEPT ![g] = NoSend]

\* Mutant of GiveUp: the select has neither a timeout nor a ctx.Done case.
GiveUpNever(g) ==
    /\ send[g].pc = "idle"
    /\ UNCHANGED <<send, queued>>

\* "agent connection closed", when the context is done, or "timeout sending
\* message", when sendTimeout runs out in a blocked select.
GiveUp(g) ==
    /\ \/ send[g].pc = "select" /\ ctx[send[g].conn] = "cancelled"
       \/ send[g].pc = "blocked"
    /\ send' = [send EXCEPT ![g] = NoSend]
    /\ UNCHANGED queued

\* No case of the select is ready and the goroutine parks.  It is woken by
\* cancel, which comes before close, so close does not reach it.
Park(g) ==
    LET c == send[g].conn IN
    /\ send[g].pc = "select"
    /\ ctx[c] = "live" /\ queued[c] = sendChannelBuffer
    /\ send' = [send EXCEPT ![g].pc = "blocked"]
    /\ UNCHANGED <<cmVars, stream, queued, grpc, panicked>>

\* The select finds the channel closed.  Its send case and ctx.Done are both
\* ready, and if it picks the send case the goroutine panics.
SendOnClosed(g) == send[g].pc = "select" /\ send[g].conn \in closed

-----------------------------------------------------------------------------
\* A stream arrives with a first message for agent a.
Open(s, a) ==
    /\ grpc = "serving"
    /\ stream[s] = NoStream
    /\ stream' = [stream EXCEPT ![s].id = a, ![s].alive = TRUE, ![s].handler = "register"]
    /\ UNCHANGED <<cmVars, queued, send, grpc, panicked>>

\* The agent closes the stream, or the network does.
Disconnect(s) ==
    /\ stream[s].alive
    /\ stream' = [stream EXCEPT ![s].alive = FALSE]
    /\ UNCHANGED <<cmVars, queued, send, grpc, panicked>>

HandleRegister(s) ==
    /\ stream[s].handler = "register"
    /\ RegisterLock(s, stream[s].id)
    /\ stream' = [stream EXCEPT ![s].handler = "registering"]
    /\ UNCHANGED <<queued, send, grpc, panicked>>

\* Mutant of HandleSeen: LastSeen is set without cm.mu.
HandleSeenUnlocked(s) ==
    /\ stream[s].handler = "seen"
    /\ stale' = stale \ {stream[s].id}
    /\ stream' = [stream EXCEPT ![s].handler = "process"]
    /\ UNCHANGED <<serverPort, agents, op, agent, port, ctx, closed, stopCh, queued, send,
                   grpc, panicked>>

\* After Register: UpdateLastSeen.
HandleSeen(s) ==
    /\ stream[s].handler = "seen"
    /\ UpdateLastSeen(stream[s].id)
    /\ stream' = [stream EXCEPT ![s].handler = "process"]
    /\ UNCHANGED <<queued, send, grpc, panicked>>

\* The loops are spawned and HandleStream waits.
Spawn(s) ==
    stream' = [stream EXCEPT ![s].handler = "wait", ![s].receiver = "recv",
                             ![s].sender = "select"]

\* processMessage for the first message: a PING is answered through SendToAgent...
HandlePing(s) ==
    /\ Pings
    /\ stream[s].handler = "process"
    /\ Lookup(s, stream[s].id)
    /\ stream' = [stream EXCEPT ![s].handler = "pong"]
    /\ UNCHANGED <<cmVars, queued, grpc, panicked>>

HandlePong(s) ==
    /\ stream[s].handler = "pong"
    /\ Queue(s) \/ GiveUp(s)
    /\ Spawn(s)
    /\ UNCHANGED <<cmVars, grpc, panicked>>

\* ... and nothing is sent when the message is no PING or the agent is not found.
HandleNoPong(s) ==
    /\ stream[s].handler = "process"
    /\ Spawn(s)
    /\ UNCHANGED <<cmVars, queued, send, grpc, panicked>>

\* Mutant of HandleLeave: HandleStream returns without its deferred Deregister.
HandleLeaveNoDefer(s) ==
    /\ stream[s].handler = "wait"
    /\ stream[s].failed \/ ctx[s] = "cancelled"
    /\ stream' = [stream EXCEPT ![s].handler = "returned", ![s].alive = FALSE]
    /\ UNCHANGED <<cmVars, queued, send, grpc, panicked>>

\* Mutant of HandleLeave: the select does not watch the context.
HandleLeaveOnError(s) ==
    /\ stream[s].handler = "wait"
    /\ stream[s].failed
    /\ stream' = [stream EXCEPT ![s].handler = "deregister", ![s].failed = FALSE]
    /\ UNCHANGED <<cmVars, queued, send, grpc, panicked>>

\* HandleStream leaves its select: an error arrived or the context is done.
HandleLeave(s) ==
    /\ stream[s].handler = "wait"
    /\ stream[s].failed \/ ctx[s] = "cancelled"
    /\ stream' = [stream EXCEPT ![s].handler = "deregister", ![s].failed = FALSE]
    /\ UNCHANGED <<cmVars, queued, send, grpc, panicked>>

\* The deferred Deregister.
HandleDeregister(s) ==
    /\ stream[s].handler = "deregister"
    /\ DeregisterLock(s, stream[s].id)
    /\ stream' = [stream EXCEPT ![s].handler = "deregistering"]
    /\ UNCHANGED <<queued, send, grpc, panicked>>

\* When the handler returns the stream is over.
Returned(s) ==
    stream' = [stream EXCEPT ![s].handler = "returned", ![s].alive = FALSE]

HandleGone(s) ==
    /\ stream[s].handler = "deregister"
    /\ DeregisterAbsent(stream[s].id)
    /\ Returned(s)
    /\ UNCHANGED <<queued, send, grpc, panicked>>

\* The steps of the registry operation, with what its caller does next.
OpContinues ==
    /\ \/ RegisterStarted /\ stream' = [stream EXCEPT ![op.by].handler = "seen"]
       \/ RegisterFails /\ Returned(op.by)
       \/ TearDown /\ op.kind = "deregister" /\ Returned(op.by)
       \/ TearDown /\ op.kind # "deregister" /\ UNCHANGED stream
       \/ (TearCancel \/ TearClose \/ StopShutdown) /\ UNCHANGED stream
    /\ UNCHANGED <<queued, send, grpc, panicked>>

-----------------------------------------------------------------------------
\* receiveLoop: a message arrives and UpdateLastSeen is called.  (Waiting for cm.mu
\* in UpdateLastSeen counts as the message being on its way.)
Receive(s) ==
    /\ Pings
    /\ stream[s].receiver = "recv"
    /\ stream[s].alive
    /\ UpdateLastSeen(stream[s].id)
    /\ stream' = [stream EXCEPT ![s].receiver = "process"]
    /\ UNCHANGED <<queued, send, grpc, panicked>>

\* processMessage: a PING is answered through SendToAgent; a RESPONSE goes to
\* HandleResponse; an agent that is not found and other types are logged.
ReceivePing(s) ==
    /\ stream[s].receiver = "process"
    /\ Lookup(s, stream[s].id)
    /\ stream' = [stream EXCEPT ![s].receiver = "pong"]
    /\ UNCHANGED <<cmVars, queued, grpc, panicked>>

ReceivePong(s) ==
    /\ stream[s].receiver = "pong"
    /\ Queue(s) \/ GiveUp(s)
    /\ stream' = [stream EXCEPT ![s].receiver = "recv"]
    /\ UNCHANGED <<cmVars, grpc, panicked>>

ReceiveNoPong(s) ==
    /\ stream[s].receiver = "process"
    /\ stream' = [stream EXCEPT ![s].receiver = "recv"]
    /\ UNCHANGED <<cmVars, queued, send, grpc, panicked>>

\* Mutant of ReceiveEnds: the error is not reported to errChan.
ReceiveEndsSilently(s) ==
    /\ stream[s].receiver = "recv"
    /\ ~stream[s].alive \/ Done(s)
    /\ stream' = [stream EXCEPT ![s].receiver = "none"]
    /\ UNCHANGED <<cmVars, queued, send, grpc, panicked>>

\* Recv fails, or done is found closed at the top of the loop.  (errChan has room
\* for one error of each loop, so reporting never blocks.)
ReceiveEnds(s) ==
    /\ stream[s].receiver = "recv"
    /\ ~stream[s].alive \/ Done(s)
    /\ stream' = [stream EXCEPT ![s].receiver = "none", ![s].failed = ~Done(s)]
    /\ UNCHANGED <<cmVars, queued, send, grpc, panicked>>

\* sendLoop: the next message of the channel goes out, as soon as flow control
\* lets it through.  (A message that stream.Send is busy with keeps its slot.)
SendMessage(s) ==
    /\ stream[s].sender = "select"
    /\ queued[s] > 0
    /\ stream[s].alive
    /\ queued' = [queued EXCEPT ![s] = @ - 1]
    /\ UNCHANGED <<cmVars, stream, send, grpc, panicked>>

\* stream.Send fails.
SendFails(s) ==
    /\ stream[s].sender = "select"
    /\ queued[s] > 0
    /\ ~stream[s].alive
    /\ queued' = [queued EXCEPT ![s] = @ - 1]
    /\ stream' = [stream EXCEPT ![s].sender = "none", ![s].failed = ~Done(s)]
    /\ UNCHANGED <<cmVars, send, grpc, panicked>>

\* done is closed, or the channel is closed and drained: the loop just returns.
SendEnds(s) ==
    /\ stream[s].sender = "select"
    /\ Done(s) \/ (s \in closed /\ queued[s] = 0)
    /\ stream' = [stream EXCEPT ![s].sender = "none"]
    /\ UNCHANGED <<cmVars, queued, send, grpc, panicked>>

\* The stream's goroutines are gone and nobody is about to send on its
\* connection: the name may be used again.
Forget(s) ==
    /\ stream[s].handler = "returned"
    /\ stream[s].receiver = "none" /\ stream[s].sender = "none"
    /\ \A g \in Senders : send[g].conn # s
    /\ IF ctx[s] = "none" THEN UNCHANGED cmVars ELSE Collect(s)
    /\ stream' = [stream EXCEPT ![s] = NoStream]
    /\ queued' = [queued EXCEPT ![s] = 0]
    /\ UNCHANGED <<send, grpc, panicked>>

-----------------------------------------------------------------------------
\* An HTTP goroutine sends a request to agent a, and is done when the message is
\* queued or refused.  Its panic is caught by gin.Recovery.
Request(r, a) ==
    /\ Lookup(r, a)
    /\ UNCHANGED <<cmVars, stream, queued, grpc, panicked>>

RequestEnds(r) ==
    /\ \/ Queue(r) \/ GiveUp(r)
       \/ SendOnClosed(r) /\ send' = [send EXCEPT ![r] = NoSend] /\ UNCHANGED queued
    /\ UNCHANGED <<cmVars, stream, grpc, panicked>>

\* HandleStream and receiveLoop run without recovery: a panic ends the process.
Panic(s) ==
    /\ SendOnClosed(s)
    /\ panicked' = TRUE
    /\ UNCHANGED <<cmVars, stream, queued, send, grpc>>

-----------------------------------------------------------------------------
\* Server.Stop: GracefulStop refuses new streams and waits for the handlers...
StopCall ==
    /\ grpc = "serving"
    /\ grpc' = "draining"
    /\ UNCHANGED <<cmVars, stream, queued, send, panicked>>

\* ... and connManager.Stop begins when they have all returned...
StopGraceful ==
    /\ grpc = "draining"
    /\ \A s \in Streams : stream[s].handler \in {"none", "returned"}
    /\ grpc' = "closing"
    /\ StopClose
    /\ UNCHANGED <<stream, queued, send, panicked>>

\* Mutant of StopForced: grpcServer.Stop is not called.
StopForcedSkipped ==
    /\ grpc = "draining"
    /\ grpc' = "closing"
    /\ StopClose
    /\ UNCHANGED <<stream, queued, send, panicked>>

\* ... or at the timeout, when grpcServer.Stop closes every transport and does not
\* wait for the handlers.
StopForced ==
    /\ grpc = "draining"
    /\ grpc' = "closing"
    /\ stream' = [s \in Streams |-> [stream[s] EXCEPT !.alive = FALSE]]
    /\ StopClose
    /\ UNCHANGED <<queued, send, panicked>>

StopRegistry ==
    /\ grpc = "closing"
    /\ grpc' = "stopped"
    /\ StopLock
    /\ UNCHANGED <<stream, queued, send, panicked>>

\* What the registry does by itself.
Environment ==
    /\ \E a \in Agents : GrowStale(a) \/ ServerFails(a)
    /\ UNCHANGED <<stream, queued, send, grpc, panicked>>

RemoveStale ==
    /\ StaleLock
    /\ UNCHANGED <<stream, queued, send, grpc, panicked>>

-----------------------------------------------------------------------------
\* What each goroutine does by itself, as long as the process lives.
HandlerStep(s) ==
    /\ ~panicked
    /\ \/ HandleRegister(s) \/ HandleSeen(s) \/ HandlePing(s) \/ HandlePong(s)
       \/ HandleNoPong(s) \/ HandleLeave(s) \/ HandleDeregister(s) \/ HandleGone(s)

ReceiverStep(s) ==
    /\ ~panicked
    /\ ReceivePing(s) \/ ReceivePong(s) \/ ReceiveNoPong(s) \/ ReceiveEnds(s)

SenderStep(s) == ~panicked /\ (SendFails(s) \/ SendEnds(s))

SelectParks(g) == ~panicked /\ Park(g)

OpProceeds == ~panicked /\ OpContinues

CleanupStep == ~panicked /\ RemoveStale

StopStep == ~panicked /\ (StopGraceful \/ StopForced \/ StopRegistry)

\* What agents, HTTP clients, the network, the clock and the operator do.
EnvironmentStep ==
    /\ ~panicked
    /\ \/ \E s \in Streams :
             \/ \E a \in Agents : Open(s, a)
             \/ Disconnect(s) \/ Receive(s) \/ SendMessage(s) \/ Forget(s) \/ Panic(s)
       \/ \E r \in Requesters : (\E a \in Agents : Request(r, a)) \/ RequestEnds(r)
       \/ Environment
       \/ StopCall

\* The process is gone, or it has shut down and every stream has ended.
Terminated ==
    /\ panicked \/ (grpc = "stopped" /\ \A s \in Streams : stream[s] = NoStream)
    /\ UNCHANGED vars

Next ==
    \/ \E s \in Streams : HandlerStep(s) \/ ReceiverStep(s) \/ SenderStep(s)
    \/ \E g \in Senders : SelectParks(g)
    \/ OpProceeds \/ CleanupStep \/ StopStep
    \/ EnvironmentStep
    \/ Terminated

Spec == Init /\ [][Next]_vars

\* Every goroutine that can take a step takes it, the cleanup ticker fires until
\* stopCh is closed, and whoever waits for cm.mu gets it (a Go mutex hands itself to
\* the oldest waiter once that one has waited a millisecond).  What the environment does is left
\* open, and so is whether stream.Send ever gets through on a working stream.
Fairness ==
    /\ WF_vars(OpProceeds)
    /\ SF_vars(stopCh = "open" /\ CleanupStep)
    /\ SF_vars(StopStep)
    /\ \A s \in Streams :
          /\ SF_vars(HandlerStep(s))
          /\ WF_vars(ReceiverStep(s))
          /\ WF_vars(SenderStep(s))
          /\ WF_vars(SelectParks(s))

FairSpec == Spec /\ Fairness

-----------------------------------------------------------------------------
\* When HandleStream has returned, its connection is out of the registry: there
\* is always a goroutine that will take a registered connection down.
NoGhostConnections ==
    \A a \in Registered :
        stream[agents[a]].handler \in
            {"seen", "process", "pong", "wait", "deregister", "deregistering"}

\* The handlers use the registry as ConnectionManager describes it.
ImplementsConnectionManager == CMSpec

\* docs/per-agent-ports/phase3.md: per-agent servers are "automatically started
\* when agents connect and stopped when they disconnect", so the Deregister of
\* one stream leaves the connection of another stream alone.
DeregisterRemovesOwn ==
    op.kind = "deregister" /\ op.pc = "cancel" => agents[op.agent] = op.by

\* docs/per-agent-ports/overview.md: "Shutdown during agent connect -> Channels
\* closed, operations fail gracefully".
OperationsFailGracefully == grpc # "serving" => ~panicked

\* A stream that has failed takes its handler down.
DeadStreamReturns ==
    \A s \in Streams :
        (stream[s].handler = "wait" /\ ~stream[s].alive)
            ~> (stream[s].handler = "returned" \/ panicked)

\* A connection that is cancelled, for whatever reason, takes its handler down.
CancelledReturns ==
    \A s \in Streams :
        (ctx[s] = "cancelled") ~> (stream[s].handler = "returned" \/ panicked)

\* No goroutine leaks: the loops of a stream end after its handler.
LoopsEnd ==
    \A s \in Streams :
        (stream[s].handler = "returned")
            ~> (panicked \/ (stream[s].receiver = "none" /\ stream[s].sender = "none"))

\* A stale connection is removed, unless its agent is heard of again or the
\* server stops (docs/grpc-link-plan/overview.md: "Server removes stale
\* connections after 2 minutes").
StaleIsRemoved ==
    \A a \in Agents : (a \in stale) ~> (a \notin stale \/ stopCh = "closed" \/ panicked)

\* After Stop no connection and no server stays, although a stream may register
\* after the registry was emptied.
StopLeavesNothing ==
    (grpc = "stopped")
        ~> [](panicked \/ (Registered = {} /\ \A a \in Agents : serverPort[a] = NoPort))
=============================================================================
