--------------------------- MODULE ConnectionManager ---------------------------
(***************************************************************************)
(* The registry of agent connections                                       *)
(* (internal/grpc/server/connection_manager.go), over the AgentServers     *)
(* interface.                                                              *)
(*                                                                         *)
(* An AgentConnection is made by one call of Register and is named by the  *)
(* stream it is for.  cm.mu is held for several steps by one operation at  *)
(* a time, `op'; a critical section that reads or sets one field is a      *)
(* single step that needs cm.mu free.  The steps of a teardown are kept    *)
(* apart because contexts and channels are seen without cm.mu.             *)
(***************************************************************************)
EXTENDS AgentServers

CONSTANTS
    Streams,     \* the streams, and the connections registered for them
    NoAgent,     \* "no agent id"
    NoConn       \* "no connection"

ASSUME RegistryAssumption ==
    /\ NoPort \notin Ports
    /\ NoAgent \notin Agents
    /\ NoConn \notin Streams

VARIABLES
    agents,      \* cm.agents: agent -> connection, NoConn when absent
    stale,       \* the agents whose connection was last seen too long ago
    op,          \* the operation that holds cm.mu
    agent,       \* per connection: ID
    port,        \* per connection: Port
    ctx,         \* per connection: its context, "none" before Register makes it
    closed,      \* the connections whose SendCh is closed
    stopCh       \* "open" or "closed"

cmVars == <<serverPort, agents, stale, op, agent, port, ctx, closed, stopCh>>

NoOp == [kind |-> "none", pc |-> "none", by |-> NoConn, agent |-> NoAgent, todo |-> {}]

\* cm.mu is free.
Unlocked == op = NoOp

Registered == {a \in Agents : agents[a] # NoConn}

-----------------------------------------------------------------------------
CMInit ==
    /\ NoServers
    /\ agents = [a \in Agents |-> NoConn]
    /\ stale = {}
    /\ op = NoOp
    /\ agent = [s \in Streams |-> NoAgent]
    /\ port = [s \in Streams |-> NoPort]
    /\ ctx = [s \in Streams |-> "none"]
    /\ closed = {}
    /\ stopCh = "open"

\* Mutant of RegisterLock: a connection the agent has already is not looked for.
RegisterLockUnchecked(s, a) ==
    /\ Unlocked
    /\ ctx[s] = "none"
    /\ op' = [kind |-> "register", by |-> s, agent |-> a, todo |-> {}, pc |-> "start"]
    /\ UNCHANGED <<serverPort, agents, stale, agent, port, ctx, closed, stopCh>>

\* Register(a, s): take cm.mu; a connection the agent has already is torn down
\* first.
RegisterLock(s, a) ==
    /\ Unlocked
    /\ ctx[s] = "none"
    /\ op' = [kind |-> "register", by |-> s, agent |-> a, todo |-> {},
              pc |-> IF agents[a] # NoConn THEN "cancel" ELSE "start"]
    /\ UNCHANGED <<serverPort, agents, stale, agent, port, ctx, closed, stopCh>>

\* StartAgentServer succeeds: the connection is stored and cm.mu released.
RegisterStarted ==
    /\ op.pc = "start"
    /\ \E p \in Ports : /\ StartServer(op.agent, p)
                        /\ port' = [port EXCEPT ![op.by] = p]
    /\ agents' = [agents EXCEPT ![op.agent] = op.by]
    /\ agent' = [agent EXCEPT ![op.by] = op.agent]
    /\ ctx' = [ctx EXCEPT ![op.by] = "live"]
    /\ op' = NoOp
    /\ UNCHANGED <<stale, closed, stopCh>>

\* StartAgentServer fails: no free port, no port binds, or a server exists.
RegisterFails ==
    /\ op.pc = "start"
    /\ op' = NoOp
    /\ UNCHANGED <<serverPort, agents, stale, agent, port, ctx, closed, stopCh>>

\* Mutant of DeregisterLock: the agent is not looked up first.
DeregisterLockUnchecked(s, a) ==
    /\ Unlocked
    /\ op' = [kind |-> "deregister", by |-> s, agent |-> a, todo |-> {}, pc |-> "cancel"]
    /\ UNCHANGED <<serverPort, agents, stale, agent, port, ctx, closed, stopCh>>

\* Deregister(a), called for stream s: it tears down whichever connection is
\* registered for the agent.
DeregisterLock(s, a) ==
    /\ Unlocked
    /\ agents[a] # NoConn
    /\ op' = [kind |-> "deregister", by |-> s, agent |-> a, todo |-> {}, pc |-> "cancel"]
    /\ UNCHANGED <<serverPort, agents, stale, agent, port, ctx, closed, stopCh>>

DeregisterAbsent(a) ==
    /\ Unlocked
    /\ agents[a] = NoConn
    /\ UNCHANGED cmVars

\* Mutant of StaleLock: the cleanup runs only once stopCh is closed.
StaleLockStopped ==
    /\ Unlocked
    /\ stopCh = "closed"
    /\ \E a \in stale :
          op' = [kind |-> "stale", by |-> NoConn, agent |-> a, todo |-> stale \ {a},
                 pc |-> "cancel"]
    /\ UNCHANGED <<serverPort, agents, stale, agent, port, ctx, closed, stopCh>>

\* removeStaleConnections, run by the cleanup ticker.  A tick may also win against a
\* closed stopCh, or wait for cm.mu since before.
StaleLock ==
    /\ Unlocked
    /\ \E a \in stale :
          op' = [kind |-> "stale", by |-> NoConn, agent |-> a, todo |-> stale \ {a},
                 pc |-> "cancel"]
    /\ UNCHANGED <<serverPort, agents, stale, agent, port, ctx, closed, stopCh>>

\* Stop: close(stopCh)...
StopClose ==
    /\ stopCh = "open"
    /\ stopCh' = "closed"
    /\ UNCHANGED <<serverPort, agents, stale, op, agent, port, ctx, closed>>

\* ... then cm.mu; every connection is torn down.
StopLock ==
    /\ Unlocked
    /\ stopCh = "closed"
    /\ \/ /\ Registered = {}
          /\ op' = [NoOp EXCEPT !.kind = "stop", !.pc = "shutdown"]
       \/ \E a \in Registered :
             op' = [kind |-> "stop", by |-> NoConn, agent |-> a,
                    todo |-> Registered \ {a}, pc |-> "cancel"]
    /\ UNCHANGED <<serverPort, agents, stale, agent, port, ctx, closed, stopCh>>

-----------------------------------------------------------------------------
\* The teardown of op.agent's connection, shared by Register, Deregister,
\* removeStaleConnections and Stop: cancel, close, stop the agent's server and
\* forget the connection.  (Stop empties the map in one go at the end, which
\* nobody can see before cm.mu is released.)
TearCancel ==
    /\ op.pc = "cancel"
    /\ ctx' = [ctx EXCEPT ![agents[op.agent]] = "cancelled"]
    /\ op' = [op EXCEPT !.pc = "close"]
    /\ UNCHANGED <<serverPort, agents, stale, agent, port, closed, stopCh>>

TearClose ==
    /\ op.pc = "close"
    /\ closed' = closed \cup {agents[op.agent]}
    /\ op' = [op EXCEPT !.pc = "server"]
    /\ UNCHANGED <<serverPort, agents, stale, agent, port, ctx, stopCh>>

\* Mutant of StopServer: the agent's server is left running.
StopServerSkipped(a) == UNCHANGED serverPort

\* StopAgentServer: an error ("no server found") when the server has ended by
\* itself; it is logged and the teardown goes on.
StopServer(a) ==
    IF port[agents[a]] # NoPort /\ serverPort[a] # NoPort
    THEN EndServer(a) ELSE UNCHANGED serverPort

\* Mutant of TearDown: the connection stays in the map.
TearDownKeepsEntry ==
    /\ op.pc = "server"
    /\ StopServer(op.agent)
    /\ op.kind = "deregister"
    /\ op' = NoOp
    /\ UNCHANGED <<agents, stale, agent, port, ctx, closed, stopCh>>

TearDown ==
    /\ op.pc = "server"
    /\ StopServer(op.agent)
    /\ agents' = [agents EXCEPT ![op.agent] = NoConn]
    /\ stale' = stale \ {op.agent}
    /\ \/ /\ op.kind = "register"
          /\ op' = [op EXCEPT !.pc = "start"]
       \/ /\ op.kind \in {"stale", "stop"}
          /\ \E a \in op.todo :
                op' = [op EXCEPT !.pc = "cancel", !.agent = a, !.todo = @ \ {a}]
       \/ /\ op.kind = "stop" /\ op.todo = {}
          /\ op' = [op EXCEPT !.pc = "shutdown"]
       \/ /\ op.kind \in {"deregister", "stale"} /\ op.todo = {}
          /\ op' = NoOp
    /\ UNCHANGED <<agent, port, ctx, closed, stopCh>>

\* Stop, at the end: agentServerManager.Shutdown ends every server that is left.
StopShutdown ==
    /\ op.pc = "shutdown"
    /\ serverPort' = [a \in Agents |-> NoPort]
    /\ op' = NoOp
    /\ UNCHANGED <<agents, stale, agent, port, ctx, closed, stopCh>>

-----------------------------------------------------------------------------
\* UpdateLastSeen(a): whichever connection is registered for the agent.
UpdateLastSeen(a) ==
    /\ Unlocked
    /\ stale' = stale \ {a}
    /\ UNCHANGED <<serverPort, agents, op, agent, port, ctx, closed, stopCh>>

\* staleConnectionTimeout passes without a message from the agent.
GrowStale(a) ==
    /\ Unlocked
    /\ a \in Registered
    /\ stale' = stale \cup {a}
    /\ UNCHANGED <<serverPort, agents, op, agent, port, ctx, closed, stopCh>>

\* An agent's HTTP server fails by itself and is cleaned up by its manager.
ServerFails(a) ==
    /\ EndServer(a)
    /\ UNCHANGED <<agents, stale, op, agent, port, ctx, closed, stopCh>>

\* Nothing refers to a connection that was torn down: its name may be used again.
Collect(s) ==
    /\ ctx[s] = "cancelled"
    /\ \A a \in Agents : agents[a] # s
    /\ agent' = [agent EXCEPT ![s] = NoAgent]
    /\ port' = [port EXCEPT ![s] = NoPort]
    /\ ctx' = [ctx EXCEPT ![s] = "none"]
    /\ closed' = closed \ {s}
    /\ UNCHANGED <<serverPort, agents, stale, op, stopCh>>

\* The steps of the operation that holds cm.mu.
OpStep ==
    \/ RegisterStarted \/ RegisterFails
    \/ TearCancel \/ TearClose \/ TearDown \/ StopShutdown

CMNext ==
    \/ \E s \in Streams, a \in Agents :
          RegisterLock(s, a) \/ DeregisterLock(s, a) \/ DeregisterAbsent(a)
    \/ OpStep
    \/ StaleLock \/ StopClose \/ StopLock
    \/ \E a \in Agents : UpdateLastSeen(a) \/ GrowStale(a) \/ ServerFails(a)
    \/ \E s \in Streams : Collect(s)

CMSpec == CMInit /\ [][CMNext]_cmVars

-----------------------------------------------------------------------------
Operations ==
    [kind : {"none", "register", "deregister", "stale", "stop"},
     pc : {"none", "cancel", "close", "server", "start", "shutdown"},
     by : Streams \cup {NoConn},
     agent : Agents \cup {NoAgent},
     todo : SUBSET Agents]

\* The state has the shape the Go types give it.
CMTypeOK ==
    /\ serverPort \in [Agents -> Ports \cup {NoPort}]
    /\ agents \in [Agents -> Streams \cup {NoConn}]
    /\ stale \subseteq Agents
    /\ op \in Operations
    /\ agent \in [Streams -> Agents \cup {NoAgent}]
    /\ port \in [Streams -> Ports \cup {NoPort}]
    /\ ctx \in [Streams -> {"none", "live", "cancelled"}]
    /\ closed \subseteq Streams
    /\ stopCh \in {"open", "closed"}

\* Whoever gets cm.mu finds only connections that are in use: their contexts are
\* live, their channels open, and they are filed under their own agent.
RegisteredAreLive ==
    Unlocked =>
        \A a \in Registered :
            ctx[agents[a]] = "live" /\ agents[a] \notin closed /\ agent[agents[a]] = a

\* A connection that is not cancelled is the registered one of its agent: a
\* replaced or removed connection never lives on beside its successor, so an
\* agent has at most one live connection, also in the middle of a replacement.
LiveAreRegistered == \A s \in Streams : ctx[s] = "live" => agents[agent[s]] = s

\* SendCh is closed once: no teardown reaches a channel that another one closed
\* (Register, Deregister, removeStaleConnections and Stop all close it).
ClosedOnce == op.pc = "close" => agents[op.agent] \notin closed

\* A channel is closed only after its connection was cancelled, so a sender
\* blocked on it in SendToAgent has been woken before the channel goes.
CancelledBeforeClosed == \A s \in closed : ctx[s] = "cancelled"

\* No HTTP server is orphaned: a running agent server belongs to the registered
\* connection of its agent, which knows its port and will stop it.
ServersHaveConnections ==
    \A a \in Agents :
        serverPort[a] # NoPort => agents[a] # NoConn /\ port[agents[a]] = serverPort[a]

\* Register never runs into the agent's own old server ("server already exists").
StartFindsNoServer == op.pc = "start" => serverPort[op.agent] = NoPort
=============================================================================
