--------------------------- MODULE RequestForwarding ---------------------------
(***************************************************************************)
(* A proxied HTTP request of one agent, from its arrival at the agent's    *)
(* HTTP server to its end: forwardRequest (api/http/handler/proxy.go),     *)
(* SendRequestToAgent and HandleResponse (grpc/server/server.go), with     *)
(* what it shares with the teardown of the agent's connection.             *)
(*                                                                         *)
(* A request needs cm.mu twice, its response needs it once                 *)
(* (UpdateLastSeen), and a teardown holds cm.mu while it waits in          *)
(* http.Server.Shutdown for the requests of the server to end.             *)
(*                                                                         *)
(* Requests are the HTTP goroutines; a request's message id and response   *)
(* channel are made for it alone, so its name stands for them too.  What   *)
(* happens to a message between SendCh and the receive loop is abstracted  *)
(* to inFlight: it may be lost, arrive late, or be answered twice.         *)
(***************************************************************************)
CONSTANTS
    Requests,     \* the HTTP goroutines
    Receivers,    \* the receive loops that may bring a response
    NoRequest     \* "the receive loop has no response in hand"

ASSUME ForwardingAssumption == NoRequest \notin Requests

VARIABLES
    conn,         \* is the agent in cm.agents?
    op,           \* the operation that holds cm.mu: "none", "remove" or "replace"
    http,         \* the agent's HTTP server: "none", "serving" or "draining"
    kept,         \* are there connections left of a server that failed?
    served,       \* the requests on connections that server keeps track of
    request,      \* per request: where forwardRequest stands
    cancelled,    \* the requests whose context is done
    pending,      \* pendingRequests
    answered,     \* the requests whose response channel holds a response
    inFlight,     \* the requests whose message, or its answer, is on its way
    handling      \* per receive loop: the response HandleResponse works on

vars == <<conn, op, http, kept, served, request, cancelled, pending, answered, inFlight,
          handling>>

Idle == [pc |-> "recv", request |-> NoRequest]

\* cm.mu is free.
Unlocked == op = "none"

Init ==
    /\ conn = FALSE /\ op = "none" /\ http = "none" /\ kept = FALSE
    /\ served = {} /\ cancelled = {} /\ pending = {} /\ answered = {} /\ inFlight = {}
    /\ request = [r \in Requests |-> "idle"]
    /\ handling = [v \in Receivers |-> Idle]

\* Request r goes on from one place to the next.
Goes(r, from, to) == request[r] = from /\ request' = [request EXCEPT ![r] = to]

-----------------------------------------------------------------------------
\* A request reaches the agent's HTTP server.
Arrive(r) ==
    /\ http = "serving"
    /\ Goes(r, "idle", "find")
    /\ served' = served \cup {r}
    /\ UNCHANGED <<conn, op, http, kept, cancelled, pending, answered, inFlight, handling>>

\* A request comes on a connection that a failed server has left open.  Nobody waits
\* for it, either.
ArriveKept(r) ==
    /\ kept
    /\ Goes(r, "idle", "find")
    /\ UNCHANGED <<conn, op, http, kept, served, cancelled, pending, answered, inFlight,
                   handling>>

\* The HTTP client goes away.
ClientLeaves(r) ==
    /\ request[r] \notin {"idle", "done"}
    /\ cancelled' = cancelled \cup {r}
    /\ UNCHANGED <<conn, op, http, kept, served, request, pending, answered, inFlight,
                   handling>>

\* The handler returns and the connection is idle again, or closed.
Ends(r, from) ==
    /\ Goes(r, from, "done")
    /\ served' = served \ {r}

\* GetConnection under cm.mu.RLock; 404 when the agent is not there.
FindConnection(r) ==
    /\ Unlocked
    /\ \/ conn /\ Goes(r, "find", "body") /\ UNCHANGED served
       \/ ~conn /\ Ends(r, "find")
    /\ UNCHANGED <<conn, op, http, kept, cancelled, pending, answered, inFlight, handling>>

\* The body is read and SendRequestToAgent enters the channel into the map.
EnterPending(r) ==
    /\ Goes(r, "body", "send")
    /\ pending' = pending \cup {r}
    /\ UNCHANGED <<conn, op, http, kept, served, cancelled, answered, inFlight, handling>>

\* The client is gone before all of the body is read: 500.
ReadBodyFails(r) ==
    /\ r \in cancelled
    /\ Ends(r, "body")
    /\ UNCHANGED <<conn, op, http, kept, cancelled, pending, answered, inFlight, handling>>

\* SendToAgent: the lookup under cm.mu.RLock; an error when the agent is gone...
LookupAgent(r) ==
    /\ Unlocked
    /\ Goes(r, "send", IF conn THEN "select" ELSE "leave")
    /\ UNCHANGED <<conn, op, http, kept, served, cancelled, pending, answered, inFlight,
                   handling>>

\* ... and the select: the message is queued...
MessageQueued(r) ==
    /\ Goes(r, "select", "wait")
    /\ inFlight' = inFlight \cup {r}
    /\ UNCHANGED <<conn, op, http, kept, served, cancelled, pending, answered, handling>>

\* ... or not: the timeout, the connection's context, or a panic on the closed
\* channel, which unwinds through the deferred delete to gin.Recovery.
MessageRefused(r) ==
    /\ Goes(r, "select", "leave")
    /\ UNCHANGED <<conn, op, http, kept, served, cancelled, pending, answered, inFlight,
                   handling>>

\* The wait for the response: it is there...
TakeResponse(r) ==
    /\ r \in answered
    /\ Goes(r, "wait", "leave")
    /\ answered' = answered \ {r}
    /\ UNCHANGED <<conn, op, http, kept, served, cancelled, pending, inFlight, handling>>

\* Mutant of WaitEnds: there is no timer, only the client's context.
WaitEndsOnCancel(r) ==
    /\ r \in cancelled
    /\ Goes(r, "wait", "leave")
    /\ UNCHANGED <<conn, op, http, kept, served, cancelled, pending, answered, inFlight,
                   handling>>

\* ... or requestTimeout runs out or the request's context is done.
WaitEnds(r) ==
    /\ Goes(r, "wait", "leave")
    /\ UNCHANGED <<conn, op, http, kept, served, cancelled, pending, answered, inFlight,
                   handling>>

\* Mutant of LeavePending: the entry is deleted only when the agent was found.
LeavePendingFound(r) ==
    /\ Ends(r, "leave")
    /\ pending' = IF conn THEN pending \ {r} ELSE pending
    /\ UNCHANGED <<conn, op, http, kept, cancelled, answered, inFlight, handling>>

\* The deferred delete; then the response or the error is written.
LeavePending(r) ==
    /\ Ends(r, "leave")
    /\ pending' = pending \ {r}
    /\ UNCHANGED <<conn, op, http, kept, cancelled, answered, inFlight, handling>>

\* Nothing refers to the request any more: its name may be used again.
Forget(r) ==
    /\ r \notin inFlight /\ \A v \in Receivers : handling[v].request # r
    /\ Goes(r, "done", "idle")
    /\ answered' = answered \ {r}
    /\ cancelled' = cancelled \ {r}
    /\ UNCHANGED <<conn, op, http, kept, served, pending, inFlight, handling>>

-----------------------------------------------------------------------------
\* A message or its response is lost: with a connection, or because the agent's
\* own send channel is full.
Lose(r) ==
    /\ r \in inFlight
    /\ inFlight' = inFlight \ {r}
    /\ UNCHANGED <<conn, op, http, kept, served, request, cancelled, pending, answered,
                   handling>>

\* A response arrives; UpdateLastSeen needs cm.mu.  Another one may follow.
Receive(v, r) ==
    /\ Unlocked
    /\ r \in inFlight /\ handling[v] = Idle
    /\ inFlight' \in {inFlight, inFlight \ {r}}
    /\ handling' = [handling EXCEPT ![v] = [pc |-> "lookup", request |-> r]]
    /\ UNCHANGED <<conn, op, http, kept, served, request, cancelled, pending, answered>>

\* HandleResponse: the lookup under pendingMu; "unknown request" when it fails.
LookupPending(v) ==
    /\ handling[v].pc = "lookup"
    /\ handling' = [handling EXCEPT ![v] =
                       IF @.request \in pending THEN [@ EXCEPT !.pc = "send"] ELSE Idle]
    /\ UNCHANGED <<conn, op, http, kept, served, request, cancelled, pending, answered, inFlight>>

\* Mutant of DeliverResponse: the select has no default case.
DeliverResponseBlocking(v) ==
    /\ handling[v].pc = "send"
    /\ handling[v].request \notin answered
    /\ answered' = answered \cup {handling[v].request}
    /\ handling' = [handling EXCEPT ![v] = Idle]
    /\ UNCHANGED <<conn, op, http, kept, served, request, cancelled, pending, inFlight>>

\* The send on the response channel, which is dropped when the channel is full.
DeliverResponse(v) ==
    /\ handling[v].pc = "send"
    /\ answered' = answered \cup {handling[v].request}
    /\ handling' = [handling EXCEPT ![v] = Idle]
    /\ UNCHANGED <<conn, op, http, kept, served, request, cancelled, pending, inFlight>>

-----------------------------------------------------------------------------
\* Register of an agent that is not connected; its server is started.
Register ==
    /\ Unlocked /\ ~conn
    /\ conn' = TRUE /\ http' = "serving"
    /\ UNCHANGED <<op, kept, served, request, cancelled, pending, answered, inFlight,
                   handling>>

\* A teardown takes cm.mu, for good or to replace the connection, and StopAgentServer
\* calls Shutdown if the server is still there: its listener is closed.
TearLock ==
    /\ Unlocked /\ conn
    /\ op' \in {"remove", "replace"}
    /\ http' = IF http = "serving" THEN "draining" ELSE http
    /\ UNCHANGED <<conn, kept, served, request, cancelled, pending, answered, inFlight,
                   handling>>

\* Shutdown returns when no connection of the server is active...
DrainEnds ==
    /\ http = "draining" /\ served = {}
    /\ http' = "none"
    /\ UNCHANGED <<conn, op, kept, served, request, cancelled, pending, answered, inFlight,
                   handling>>

\* Mutant of DrainTimeout: Shutdown has no deadline.
DrainTimeoutNever ==
    /\ http = "draining" /\ served = {}
    /\ UNCHANGED vars

\* ... or after serverShutdownTimeout, and Close closes the connections: the
\* requests' contexts are done and the server does not wait for their handlers.
DrainTimeout ==
    /\ http = "draining" /\ served # {}
    /\ http' = "none"
    /\ cancelled' = cancelled \cup served
    /\ served' = {}
    /\ UNCHANGED <<conn, op, kept, request, pending, answered, inFlight, handling>>

\* The server is stopped: the connection is forgotten, and Register puts the new
\* one in its place unless its server cannot be started.
TearDone ==
    /\ ~Unlocked /\ http = "none"
    /\ \/ conn' = FALSE /\ UNCHANGED http
       \/ op = "replace" /\ conn' = TRUE /\ http' = "serving"
    /\ op' = "none"
    /\ UNCHANGED <<kept, served, request, cancelled, pending, answered, inFlight, handling>>

\* The server fails by itself.  Its connections stay open, and nobody waits for their
\* requests.
ServerFails ==
    /\ http = "serving"
    /\ http' = "none" /\ kept' = TRUE
    /\ served' = {}
    /\ UNCHANGED <<conn, op, request, cancelled, pending, answered, inFlight, handling>>

-----------------------------------------------------------------------------
\* What the goroutine of a request does by itself once the body is there.
RequestStep(r) ==
    \/ FindConnection(r) \/ ReadBodyFails(r) \/ LookupAgent(r) \/ MessageQueued(r)
    \/ MessageRefused(r) \/ TakeResponse(r) \/ WaitEnds(r) \/ LeavePending(r)

ReceiverStep(v) == LookupPending(v) \/ DeliverResponse(v)

TearStep == DrainEnds \/ DrainTimeout \/ TearDone

Next ==
    \/ \E r \in Requests :
          \/ RequestStep(r)
          \/ Arrive(r) \/ ArriveKept(r) \/ ClientLeaves(r) \/ EnterPending(r) \/ Lose(r) \/ Forget(r)
          \/ \E v \in Receivers : Receive(v, r)
    \/ \E v \in Receivers : ReceiverStep(v)
    \/ TearStep
    \/ Register \/ TearLock \/ ServerFails

Spec == Init /\ [][Next]_vars

\* Goroutines take their steps, timers fire, and whoever waits for cm.mu gets it.
\* Nothing is assumed of clients (they may never send all of a body), of the agent
\* or of the network.
FairSpec ==
    /\ Spec
    /\ \A r \in Requests : SF_vars(RequestStep(r))
    /\ \A v \in Receivers : WF_vars(ReceiverStep(v))
    /\ WF_vars(TearStep)

-----------------------------------------------------------------------------
\* pendingRequests does not leak: whichever way SendRequestToAgent returns, its
\* entry is gone, however late its response may be.
NoPendingLeak ==
    \A r \in pending : request[r] \in {"send", "select", "wait", "leave"}

\* SendRequestToAgent returns, whatever becomes of the agent, the message, the
\* connection and the server in the meantime.
EveryRequestReturns == \A r \in Requests : (r \in pending) ~> (r \notin pending)

\* A teardown ends and frees cm.mu, although the requests it waits for and their
\* responses wait for cm.mu.
TeardownEnds == (op # "none") ~> (op = "none")

\* A receive loop is never stuck with a response nobody waits for.
ReceiverGoesOn == \A v \in Receivers : (handling[v] # Idle) ~> (handling[v] = Idle)
=============================================================================
