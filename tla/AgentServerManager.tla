--------------------------- MODULE AgentServerManager ---------------------------
(***************************************************************************)
(* The per-agent HTTP servers (internal/api/http/agent_server_manager.go)  *)
(* on top of the PortManager.                                              *)
(*                                                                         *)
(* StartAgentServer, StopAgentServer and Shutdown are only called by the   *)
(* ConnectionManager with its own mutex held, so at most one such call is  *)
(* under way: Caller is the goroutine that runs it and `call' is where it  *)
(* stands.  Every other goroutine serves one AgentServerInfo: it runs      *)
(* Server.Serve and cleans up if Serve fails.  It is named by the info it  *)
(* serves, and the name is reused once the info is garbage.                *)
(***************************************************************************)
EXTENDS PortManager

CONSTANTS
    Caller,               \* the goroutine inside Start/StopAgentServer or Shutdown
    NoServer,             \* "no AgentServerInfo"
    Free,                 \* asm.mu is not held
    maxPortBindRetries    \* 3 in the source

Infos == Goroutines \ {Caller}

ASSUME ManagerAssumption ==
    /\ Caller \in Goroutines
    /\ NoServer \notin Goroutines
    /\ Free \notin Goroutines
    /\ maxPortBindRetries \in Nat \ {0}

VARIABLES
    servers,     \* asm.servers: agent -> info, NoServer when absent
    mu,          \* asm.mu: the goroutine that holds it, or Free
    info,        \* per info: its AgentID and Port
    listening,   \* the infos whose Listener is open
    shut,        \* the infos whose Server.Shutdown (or Close) has been called
    serve,       \* per info: where its serving goroutine stands
    call         \* the caller's call

asmVars == <<servers, mu, info, listening, shut, serve, call>>

vars == <<pmVars, asmVars>>

NoInfo == [agent |-> NoAgent, port |-> NoPort]

NoCall == [op |-> "none", pc |-> "idle", agent |-> NoAgent, port |-> NoPort,
           info |-> NoServer, attempt |-> 0, tried |-> {}, queue |-> {}]

\* A call that has just been made; `queue' is what Shutdown has still to stop.
NewCall(op, a, queue) ==
    [op |-> op, pc |-> "lock", agent |-> a, port |-> NoPort,
     info |-> NoServer, attempt |-> 0, tried |-> {}, queue |-> queue]

CallRecord ==
    [op : {"none", "start", "stop", "shutdown"},
     pc : {"idle", "lock", "allocate", "record", "listen", "close", "shutdown",
           "forget", "return"},
     agent : Agents \cup {NoAgent},
     port : Ports \cup {NoPort},
     info : Infos \cup {NoServer},
     attempt : 0..maxPortBindRetries,
     tried : SUBSET Ports,      \* the ports this call failed to bind
     queue : SUBSET Agents]     \* Shutdown: the agents still to be stopped

\* A port is bound by this process when one of its listeners has it.
Bound(p) == \E i \in listening : info[i].port = p

\* An info nothing refers to any more.
Fresh(i) ==
    /\ serve[i] = "none"
    /\ call.info # i
    /\ \A a \in Agents : servers[a] # i

\* Mutant of ReleaseFinish: the port is not sent back to the channel.
ReleaseFinishDrops(g) ==
    /\ hand' = [hand EXCEPT ![g] = NoHand]
    /\ UNCHANGED <<availablePorts, allocatedPorts>>

\* Release returns at once when its first step found nothing to forget.
ReleaseFinish(g) ==
    IF hand[g].op = "release" THEN ReleaseReturn(g) ELSE UNCHANGED pmVars

-----------------------------------------------------------------------------
Init ==
    /\ PMInit
    /\ servers = [a \in Agents |-> NoServer]
    /\ mu = Free
    /\ info = [i \in Infos |-> NoInfo]
    /\ listening = {}
    /\ shut = {}
    /\ serve = [i \in Infos |-> "none"]
    /\ call = NoCall

-----------------------------------------------------------------------------
\* StartAgentServer(a).  asm.mu is held from the first step to the return.
StartCall(a) ==
    /\ call.op = "none"
    /\ call' = NewCall("start", a, {})
    /\ UNCHANGED <<pmVars, servers, mu, info, listening, shut, serve>>

\* "server already exists for agent".
StartExists ==
    /\ call.op = "start" /\ call.pc = "lock" /\ mu = Free
    /\ servers[call.agent] # NoServer
    /\ call' = NoCall
    /\ UNCHANGED <<pmVars, servers, mu, info, listening, shut, serve>>

\* Mutant of StartLock: the agent's old server is not looked for.
StartLockUnchecked ==
    /\ call.op = "start" /\ call.pc = "lock" /\ mu = Free
    /\ mu' = Caller
    /\ call' = [call EXCEPT !.pc = "allocate", !.attempt = 1]
    /\ UNCHANGED <<pmVars, servers, info, listening, shut, serve>>

StartLock ==
    /\ call.op = "start" /\ call.pc = "lock" /\ mu = Free
    /\ servers[call.agent] = NoServer
    /\ mu' = Caller
    /\ call' = [call EXCEPT !.pc = "allocate", !.attempt = 1]
    /\ UNCHANGED <<pmVars, servers, info, listening, shut, serve>>

StartAllocate ==
    /\ call.pc = "allocate"
    /\ AllocateReceive(Caller, call.agent)
    /\ call' = [call EXCEPT !.pc = "record", !.port = Head(availablePorts)]
    /\ UNCHANGED <<servers, mu, info, listening, shut, serve>>

\* "failed to allocate port": no retry.
StartNoPort ==
    /\ call.pc = "allocate"
    /\ PoolExhausted
    /\ mu' = Free
    /\ call' = NoCall
    /\ UNCHANGED <<pmVars, servers, info, listening, shut, serve>>

StartRecord ==
    /\ call.pc = "record"
    /\ AllocateRecord(Caller)
    /\ call' = [call EXCEPT !.pc = "listen"]
    /\ UNCHANGED <<servers, mu, info, listening, shut, serve>>

\* net.Listen succeeds: the info is stored, its goroutine spawned, and the
\* call returns the port.
StartBound(i) ==
    /\ call.pc = "listen"
    /\ ~Bound(call.port)
    /\ Fresh(i)
    /\ info' = [info EXCEPT ![i] = [agent |-> call.agent, port |-> call.port]]
    /\ listening' = listening \cup {i}
    /\ shut' = shut \ {i}
    /\ serve' = [serve EXCEPT ![i] = "spawned"]
    /\ servers' = [servers EXCEPT ![call.agent] = i]
    /\ mu' = Free
    /\ call' = NoCall
    /\ UNCHANGED pmVars

\* Mutant of StartBindFails: the next attempt starts without releasing the port.
StartBindFailsKeepsPort ==
    /\ call.pc = "listen"
    /\ call.attempt < maxPortBindRetries
    /\ call' = [call EXCEPT !.pc = "allocate", !.attempt = @ + 1,
                            !.tried = @ \cup {call.port}]
    /\ UNCHANGED <<pmVars, servers, mu, info, listening, shut, serve>>

\* net.Listen fails: one of our own listeners has the port, or some other
\* process has it.
StartBindFails ==
    /\ call.pc = "listen"
    /\ call' = [call EXCEPT !.pc = "forget", !.tried = @ \cup {call.port}]
    /\ UNCHANGED <<pmVars, servers, mu, info, listening, shut, serve>>

\* Mutant of StartRetry: one attempt too many.
StartRetryOnceMore ==
    /\ call.op = "start" /\ call.pc = "return"
    /\ ReleaseFinish(Caller)
    /\ IF call.attempt <= maxPortBindRetries
       THEN /\ call' = [call EXCEPT !.pc = "allocate", !.port = NoPort,
                                    !.attempt = @ + 1]
            /\ UNCHANGED mu
       ELSE /\ call' = NoCall
            /\ mu' = Free
    /\ UNCHANGED <<servers, info, listening, shut, serve>>

\* The port is back in the pool: next attempt, or the error return.
StartRetry ==
    /\ call.op = "start" /\ call.pc = "return"
    /\ ReleaseFinish(Caller)
    /\ IF call.attempt < maxPortBindRetries
       THEN /\ call' = [call EXCEPT !.pc = "allocate", !.port = NoPort,
                                    !.attempt = @ + 1]
            /\ UNCHANGED mu
       ELSE /\ call' = NoCall
            /\ mu' = Free
    /\ UNCHANGED <<servers, info, listening, shut, serve>>

-----------------------------------------------------------------------------
\* StopAgentServer(a): asm.mu is held only while the info is taken from the map.
StopCall(a) ==
    /\ call.op = "none"
    /\ call' = NewCall("stop", a, {})
    /\ UNCHANGED <<pmVars, servers, mu, info, listening, shut, serve>>

\* Where the caller goes when one StopAgentServer has returned: Shutdown goes on
\* with the next agent of its snapshot, whatever the call returned.
AfterStop ==
    IF call.queue = {}
    THEN call' = NoCall
    ELSE \E a \in call.queue :
            call' = NewCall("shutdown", a, call.queue \ {a})

\* Mutant of StopMissing: Shutdown gives up at the first server it cannot stop.
StopMissingAborts ==
    /\ call.op \in {"stop", "shutdown"} /\ call.pc = "lock" /\ mu = Free
    /\ servers[call.agent] = NoServer
    /\ call' = NoCall
    /\ UNCHANGED <<pmVars, servers, mu, info, listening, shut, serve>>

\* "no server found for agent".
StopMissing ==
    /\ call.op \in {"stop", "shutdown"} /\ call.pc = "lock" /\ mu = Free
    /\ servers[call.agent] = NoServer
    /\ AfterStop
    /\ UNCHANGED <<pmVars, servers, mu, info, listening, shut, serve>>

StopTake ==
    /\ call.op \in {"stop", "shutdown"} /\ call.pc = "lock" /\ mu = Free
    /\ servers[call.agent] # NoServer
    /\ servers' = [servers EXCEPT ![call.agent] = NoServer]
    /\ call' = [call EXCEPT !.pc = "shutdown", !.info = servers[call.agent],
                            !.port = info[servers[call.agent]].port]
    /\ UNCHANGED <<pmVars, mu, info, listening, shut, serve>>

\* Server.Shutdown, then Server.Close if it timed out: both close the listeners
\* that Serve has registered, and neither closes one that Serve has not seen.
StopShutdown ==
    /\ call.pc = "shutdown"
    /\ shut' = shut \cup {call.info}
    /\ listening' = IF serve[call.info] = "serving"
                    THEN listening \ {call.info} ELSE listening
    /\ call' = [call EXCEPT !.pc = "close"]
    /\ UNCHANGED <<pmVars, servers, mu, info, serve>>

\* Mutant of StopClose: the listener is left to Server.Shutdown.
StopCloseSkipped ==
    /\ call.pc = "close"
    /\ call' = [call EXCEPT !.pc = "forget"]
    /\ UNCHANGED <<pmVars, servers, mu, info, listening, shut, serve>>

\* info.Listener.Close(): harmless when the listener is closed already.
StopClose ==
    /\ call.pc = "close"
    /\ listening' = listening \ {call.info}
    /\ call' = [call EXCEPT !.pc = "forget"]
    /\ UNCHANGED <<pmVars, servers, mu, info, shut, serve>>

\* The first step of portManager.Release, in StopAgentServer and in the retry
\* loop of StartAgentServer.
CallForget ==
    /\ call.pc = "forget"
    /\ ReleaseForget(Caller, call.port)
    /\ call' = [call EXCEPT !.pc = "return"]
    /\ UNCHANGED <<servers, mu, info, listening, shut, serve>>

StopReturn ==
    /\ call.op \in {"stop", "shutdown"} /\ call.pc = "return"
    /\ ReleaseFinish(Caller)
    /\ AfterStop
    /\ UNCHANGED <<servers, mu, info, listening, shut, serve>>

\* Shutdown(): a snapshot of the agents under asm.mu, then StopAgentServer for
\* each, in the map's (arbitrary) iteration order.
ShutdownCall ==
    /\ call.op = "none"
    /\ mu = Free
    /\ \E a \in Agents :
          /\ servers[a] # NoServer
          /\ call' = NewCall("shutdown", a, {b \in Agents \ {a} : servers[b] # NoServer})
    /\ UNCHANGED <<pmVars, servers, mu, info, listening, shut, serve>>

-----------------------------------------------------------------------------
\* The serving goroutine of an info.  Serve registers the listener, unless the
\* server was shut down first: then it closes the listener and returns.
ServeEnter(i) ==
    /\ serve[i] = "spawned"
    /\ IF i \in shut
       THEN /\ serve' = [serve EXCEPT ![i] = "none"]
            /\ listening' = listening \ {i}
       ELSE /\ serve' = [serve EXCEPT ![i] = "serving"]
            /\ UNCHANGED listening
    /\ UNCHANGED <<pmVars, servers, mu, info, shut, call>>

\* Serve returns ErrServerClosed: nothing to clean up.
ServeClosed(i) ==
    /\ serve[i] = "serving" /\ i \in shut
    /\ serve' = [serve EXCEPT ![i] = "none"]
    /\ UNCHANGED <<pmVars, servers, mu, info, listening, shut, call>>

\* Serve returns any other error; the listener is closed on the way out.
ServeFails(i) ==
    /\ serve[i] = "serving" /\ i \notin shut
    /\ serve' = [serve EXCEPT ![i] = "failed"]
    /\ listening' = listening \ {i}
    /\ UNCHANGED <<pmVars, servers, mu, info, shut, call>>

\* Mutant of CleanupTake: the failed server leaves the map, but its port is not
\* released.
CleanupTakeKeepsPort(i) ==
    /\ serve[i] = "failed" /\ mu = Free
    /\ servers[info[i].agent] = i
    /\ servers' = [servers EXCEPT ![info[i].agent] = NoServer]
    /\ serve' = [serve EXCEPT ![i] = "none"]
    /\ UNCHANGED <<pmVars, mu, info, listening, shut, call>>

\* Mutant of CleanupTake: the failed server stays in the map.
CleanupTakeKeepsServer(i) ==
    /\ serve[i] = "failed" /\ mu = Free
    /\ servers[info[i].agent] = i
    /\ mu' = i
    /\ serve' = [serve EXCEPT ![i] = "forget"]
    /\ UNCHANGED <<pmVars, servers, info, listening, shut, call>>

\* The cleanup takes asm.mu and acts only if the map still holds this info.
CleanupTake(i) ==
    /\ serve[i] = "failed" /\ mu = Free
    /\ servers[info[i].agent] = i
    /\ mu' = i
    /\ servers' = [servers EXCEPT ![info[i].agent] = NoServer]
    /\ serve' = [serve EXCEPT ![i] = "forget"]
    /\ UNCHANGED <<pmVars, info, listening, shut, call>>

CleanupSkip(i) ==
    /\ serve[i] = "failed" /\ mu = Free
    /\ servers[info[i].agent] # i
    /\ serve' = [serve EXCEPT ![i] = "none"]
    /\ UNCHANGED <<pmVars, servers, mu, info, listening, shut, call>>

CleanupForget(i) ==
    /\ serve[i] = "forget"
    /\ ReleaseForget(i, info[i].port)
    /\ serve' = [serve EXCEPT ![i] = "return"]
    /\ UNCHANGED <<servers, mu, info, listening, shut, call>>

\* Mutant of CleanupReturn: asm.mu is not unlocked.
CleanupReturnLocked(i) ==
    /\ serve[i] = "return"
    /\ ReleaseFinish(i)
    /\ serve' = [serve EXCEPT ![i] = "none"]
    /\ UNCHANGED <<servers, mu, info, listening, shut, call>>

CleanupReturn(i) ==
    /\ serve[i] = "return"
    /\ ReleaseFinish(i)
    /\ mu' = Free
    /\ serve' = [serve EXCEPT ![i] = "none"]
    /\ UNCHANGED <<servers, info, listening, shut, call>>

-----------------------------------------------------------------------------
\* The steps of a call that is under way.
CallStep ==
    \/ StartExists \/ StartLock \/ StartAllocate \/ StartNoPort \/ StartRecord
    \/ \E i \in Infos : StartBound(i)
    \/ StartBindFails \/ StartRetry
    \/ StopMissing \/ StopTake \/ StopShutdown \/ StopClose \/ CallForget \/ StopReturn

\* The steps of a serving goroutine, the failure of Serve left out.
ServeStep(i) ==
    \/ ServeEnter(i) \/ ServeClosed(i)
    \/ CleanupTake(i) \/ CleanupSkip(i) \/ CleanupForget(i) \/ CleanupReturn(i)

Next ==
    \/ \E a \in Agents : StartCall(a) \/ StopCall(a)
    \/ ShutdownCall
    \/ CallStep
    \/ \E i \in Infos : ServeStep(i) \/ ServeFails(i)

Spec == Init /\ [][Next]_vars

\* A goroutine that can take a step eventually takes it, and one that waits for
\* asm.mu eventually gets it (a Go mutex hands itself to the oldest waiter once
\* that one has waited a millisecond).  New calls and failures of Serve are the
\* environment's and need never happen.
Fairness ==
    /\ WF_vars(CallStep)
    /\ \A i \in Infos : /\ WF_vars(ServeStep(i))
                        /\ SF_vars(CleanupTake(i) \/ CleanupSkip(i))

FairSpec == Spec /\ Fairness

-----------------------------------------------------------------------------
\* The state has the shape the Go types give it, and the mutex is held by the
\* goroutine that is inside the critical section.
TypeOK ==
    /\ PMTypeOK
    /\ servers \in [Agents -> Infos \cup {NoServer}]
    /\ mu \in Goroutines \cup {Free}
    /\ info \in [Infos -> [agent : Agents \cup {NoAgent}, port : Ports \cup {NoPort}]]
    /\ listening \subseteq Infos
    /\ shut \subseteq Infos
    /\ serve \in [Infos -> {"none", "spawned", "serving", "failed", "forget", "return"}]
    /\ call \in CallRecord

\* The ports of the servers in asm.servers.
ServedPorts == {info[servers[a]].port : a \in {b \in Agents : servers[b] # NoServer}}

\* No call and no cleanup is under way.
Quiet == call.op = "none" /\ mu = Free

\* No port leaks (StartAgentServer, StopAgentServer and the cleanup of a failed
\* server release what they allocated): between calls, exactly the ports of the
\* servers in the map are allocated.
NoPortLeak == Quiet => GetAllocations = ServedPorts

\* An agent never has two ports, not even while its old server is being stopped
\* or cleaned up and a new one is being started.
OnePortPerAgent ==
    \A p, q \in Ports :
        allocatedPorts[p] = allocatedPorts[q] /\ allocatedPorts[p] # NoAgent => p = q

\* A port that this process still listens on is never given out: every open
\* listener's port is allocated to the listener's agent (StopAgentServer closes
\* the listener before it releases the port, and so does the failure cleanup).
ListenersOwnTheirPort ==
    \A i \in listening : allocatedPorts[info[i].port] = info[i].agent

\* docs/per-agent-ports/overview.md: "Each retry gets different port from pool".
\* StartAgentServer releases the failed port before it allocates the next one, so
\* this holds only as long as the pool has a port that the call has not tried.
RetriesUseDifferentPorts == call.pc = "listen" => call.port \notin call.tried

\* What the code does guarantee: the bind retries walk through the pool (the channel
\* is FIFO), and a port whose bind failed is tried again in the same call only when
\* every free port has failed.
RetryReusesOnlyWhenExhausted ==
    call.pc = "listen" /\ call.port \in call.tried
        => \A p \in Ports : InPool(p) => p \in call.tried

\* Shutdown stops every server: when it returns, the map is empty, although
\* servers may fail and be cleaned up while it goes through its snapshot.
ShutdownLeavesNoServer ==
    [][call.op = "shutdown" /\ call'.op = "none"
          => \A a \in Agents : servers'[a] = NoServer]_vars

\* Every call returns: asm.mu is always given back, and Release never blocks.
CallReturns == (call.op # "none") ~> (call.op = "none")

\* A server whose Serve has failed leaves the map.
FailedServerIsRemoved ==
    \A i \in Infos : (serve[i] = "failed") ~> (\A a \in Agents : servers[a] # i)

-----------------------------------------------------------------------------
\* The manager implements AgentServers.  An agent's server appears when it is
\* bound, and disappears when its port is forgotten.
PendingBind(a) == call.op = "start" /\ call.agent = a /\ call.pc \in {"listen", "forget"}

HasServer(a) == ~PendingBind(a) /\ \E p \in Ports : allocatedPorts[p] = a

ServerPort ==
    [a \in Agents |-> IF HasServer(a) THEN CHOOSE p \in Ports : allocatedPorts[p] = a
                                      ELSE NoPort]

Abstract == INSTANCE AgentServers WITH serverPort <- ServerPort

\* Starting, stopping, shutting down and failing servers, in any interleaving,
\* look to the ConnectionManager like atomic starts and ends of servers with
\* distinct ports.
ImplementsAgentServers == Abstract!ServersSpec
=============================================================================
