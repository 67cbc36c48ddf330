------------------------ MODULE ConnectionManagerProofs ------------------------
(***************************************************************************)
(* The invariants of the registry hold for every set of agents, streams    *)
(* and ports.                                                              *)
(*                                                                         *)
(* None of them is inductive by itself: what a step of a teardown does     *)
(* depends on where the operation that holds cm.mu stands.  CMInv ties     *)
(* the operation (OpConsistent) to the connections (RegisteredConsistent)  *)
(* and is inductive.                                                       *)
(***************************************************************************)
EXTENDS ConnectionManager, TLAPS

\* The operation works on a connection that is there, starts a server only where
\* there is none, and what it has still to do are other agents' connections.
OpConsistent ==
    /\ op.pc \in {"cancel", "close", "server"} => op.agent \in Registered
    /\ op.pc = "start" => /\ op.kind = "register"
                          /\ op.agent \in Agents
                          /\ agents[op.agent] = NoConn
    /\ op.kind = "register" => op.by \in Streams /\ ctx[op.by] = "none"
    /\ op.todo \subseteq Registered \ {op.agent}

\* A registered connection is filed under its agent and in use, except the one
\* the operation is tearing down, which is cancelled first and closed next.
RegisteredConsistent ==
    \A a \in Registered :
        /\ agent[agents[a]] = a
        /\ port[agents[a]] \in Ports
        /\ ctx[agents[a]] = IF a = op.agent /\ op.pc \in {"close", "server"}
                            THEN "cancelled" ELSE "live"
        /\ agents[a] \in closed => a = op.agent /\ op.pc = "server"

LiveConsistent ==
    \A s \in Streams : ctx[s] = "live" => agent[s] \in Agents /\ agents[agent[s]] = s

CMInv ==
    /\ CMTypeOK
    /\ OpConsistent
    /\ RegisteredConsistent
    /\ LiveConsistent
    /\ CancelledBeforeClosed
    /\ ServersHaveConnections
    /\ stale \subseteq Registered

-----------------------------------------------------------------------------
LEMMA CMInvInit == CMInit => CMInv
  BY RegistryAssumption
     DEF CMInit, NoServers, NoOp, CMInv, CMTypeOK, Operations, OpConsistent,
         RegisteredConsistent, LiveConsistent, CancelledBeforeClosed,
         ServersHaveConnections, Registered

LEMMA RegisterLockInv ==
    ASSUME CMInv, NEW s \in Streams, NEW a \in Agents, RegisterLock(s, a)
    PROVE  CMInv'
  BY RegistryAssumption
     DEF RegisterLock, Unlocked, NoOp, CMInv, CMTypeOK, Operations, OpConsistent,
         RegisteredConsistent, LiveConsistent, CancelledBeforeClosed,
         ServersHaveConnections, Registered

LEMMA DeregisterLockInv ==
    ASSUME CMInv, NEW s \in Streams, NEW a \in Agents, DeregisterLock(s, a)
    PROVE  CMInv'
  BY RegistryAssumption
     DEF DeregisterLock, Unlocked, NoOp, CMInv, CMTypeOK, Operations, OpConsistent,
         RegisteredConsistent, LiveConsistent, CancelledBeforeClosed,
         ServersHaveConnections, Registered

LEMMA RegisterStartedInv ==
    ASSUME CMInv, RegisterStarted
    PROVE  CMInv'
  BY RegistryAssumption
     DEF RegisterStarted, StartServer, Unused, NoOp, CMInv, CMTypeOK, Operations,
         OpConsistent, RegisteredConsistent, LiveConsistent, CancelledBeforeClosed,
         ServersHaveConnections, Registered

LEMMA RegisterFailsInv ==
    ASSUME CMInv, RegisterFails
    PROVE  CMInv'
  BY RegistryAssumption
     DEF RegisterFails, NoOp, CMInv, CMTypeOK, Operations, OpConsistent,
         RegisteredConsistent, LiveConsistent, CancelledBeforeClosed,
         ServersHaveConnections, Registered

LEMMA StaleLockInv ==
    ASSUME CMInv, StaleLock
    PROVE  CMInv'
  BY RegistryAssumption
     DEF StaleLock, Unlocked, NoOp, CMInv, CMTypeOK, Operations, OpConsistent,
         RegisteredConsistent, LiveConsistent, CancelledBeforeClosed,
         ServersHaveConnections, Registered

LEMMA StopLockInv ==
    ASSUME CMInv, StopLock
    PROVE  CMInv'
  <1>1. CASE /\ Registered = {}
             /\ op' = [NoOp EXCEPT !.kind = "stop", !.pc = "shutdown"]
    BY <1>1, RegistryAssumption, ZenonT(30)
       DEF StopLock, Unlocked, NoOp, CMInv, CMTypeOK, Operations, OpConsistent,
           RegisteredConsistent, LiveConsistent, CancelledBeforeClosed,
           ServersHaveConnections, Registered
  <1>2. ASSUME NEW a \in Registered,
               op' = [kind |-> "stop", by |-> NoConn, agent |-> a,
                      todo |-> Registered \ {a}, pc |-> "cancel"]
        PROVE  CMInv'
    BY <1>2, RegistryAssumption
       DEF StopLock, Unlocked, NoOp, CMInv, CMTypeOK, Operations, OpConsistent,
           RegisteredConsistent, LiveConsistent, CancelledBeforeClosed,
           ServersHaveConnections, Registered
  <1>. QED
    BY <1>1, <1>2 DEF StopLock

LEMMA TearCancelInv ==
    ASSUME CMInv, TearCancel
    PROVE  CMInv'
  BY RegistryAssumption
     DEF TearCancel, CMInv, CMTypeOK, Operations, OpConsistent, RegisteredConsistent,
         LiveConsistent, CancelledBeforeClosed, ServersHaveConnections, Registered

LEMMA TearCloseInv ==
    ASSUME CMInv, TearClose
    PROVE  CMInv'
  BY RegistryAssumption
     DEF TearClose, CMInv, CMTypeOK, Operations, OpConsistent, RegisteredConsistent,
         LiveConsistent, CancelledBeforeClosed, ServersHaveConnections, Registered

LEMMA TearDownInv ==
    ASSUME CMInv, TearDown
    PROVE  CMInv'
  <1>. DEFINE c == agents[op.agent]
  <1>1. /\ op.pc = "server"
        /\ agents' = [agents EXCEPT ![op.agent] = NoConn]
        /\ stale' = stale \ {op.agent}
        /\ UNCHANGED <<agent, port, ctx, closed, stopCh>>
    BY Zenon DEF TearDown
  <1>2. /\ op.agent \in Registered /\ op.agent \in Agents /\ c \in Streams
        /\ agent[c] = op.agent /\ port[c] \in Ports /\ ctx[c] = "cancelled"
    BY <1>1 DEF CMInv, CMTypeOK, OpConsistent, RegisteredConsistent, Registered
  <1>3. serverPort' = [serverPort EXCEPT ![op.agent] = NoPort]
    BY <1>2, RegistryAssumption, Zenon DEF TearDown, StopServer, EndServer, CMInv, CMTypeOK
  <1>4. Registered' = Registered \ {op.agent}
    BY <1>1, <1>2, RegistryAssumption DEF CMInv, CMTypeOK, Registered
  <1>5. \A a \in Registered' :
           /\ agents'[a] = agents[a] /\ agent[agents[a]] = a /\ port[agents[a]] \in Ports
           /\ ctx[agents[a]] = "live" /\ agents[a] \notin closed
    BY <1>1, <1>2, <1>4 DEF CMInv, CMTypeOK, RegisteredConsistent, Registered
  <1>6. OpConsistent' /\ RegisteredConsistent' /\ op' \in Operations
    <2>1. CASE op.kind = "register" /\ op' = [op EXCEPT !.pc = "start"]
      <3>1. /\ op'.pc = "start" /\ op'.kind = "register" /\ op'.by = op.by
            /\ op'.agent = op.agent /\ op'.todo = op.todo /\ op' \in Operations
        BY <2>1 DEF CMInv, CMTypeOK, Operations
      <3>. QED
        BY <1>1, <1>2, <1>4, <1>5, <2>1, <3>1
           DEF CMInv, CMTypeOK, OpConsistent, RegisteredConsistent
    <2>2. ASSUME NEW a \in op.todo, op.kind # "register",
                 op' = [op EXCEPT !.pc = "cancel", !.agent = a, !.todo = @ \ {a}]
          PROVE  OpConsistent' /\ RegisteredConsistent' /\ op' \in Operations
      <3>1. /\ op'.pc = "cancel" /\ op'.kind # "register"
            /\ op'.agent = a /\ op'.todo = op.todo \ {a} /\ op' \in Operations
        BY <2>2, Zenon DEF CMInv, CMTypeOK, Operations
      <3>. QED
        BY <1>1, <1>2, <1>4, <1>5, <2>2, <3>1
           DEF CMInv, OpConsistent, RegisteredConsistent
    <2>3. CASE op.kind = "stop" /\ op' = [op EXCEPT !.pc = "shutdown"]
      <3>1. /\ op'.pc = "shutdown" /\ op'.kind = "stop"
            /\ op'.agent = op.agent /\ op'.todo = op.todo /\ op' \in Operations
        BY <2>3 DEF CMInv, CMTypeOK, Operations
      <3>. QED
        BY <1>1, <1>4, <1>5, <2>3, <3>1 DEF CMInv, OpConsistent, RegisteredConsistent
    <2>4. CASE op' = NoOp
      BY <1>1, <1>4, <1>5, <2>4 DEF NoOp, Operations, OpConsistent, RegisteredConsistent
    <2>. QED
      BY <2>1, <2>2, <2>3, <2>4, Zenon DEF TearDown
  <1>7. CMTypeOK'
    BY <1>1, <1>3, <1>6, Zenon DEF CMInv, CMTypeOK
  <1>8. LiveConsistent'
    BY <1>1, <1>2 DEF CMInv, CMTypeOK, LiveConsistent
  <1>9. CancelledBeforeClosed'
    BY <1>1 DEF CMInv, CancelledBeforeClosed
  <1>10. ServersHaveConnections'
    BY <1>1, <1>2, <1>3 DEF CMInv, CMTypeOK, ServersHaveConnections
  <1>11. (stale \subseteq Registered)'
    BY <1>1, <1>4 DEF CMInv
  <1>. QED
    BY <1>6, <1>7, <1>8, <1>9, <1>10, <1>11 DEF CMInv

LEMMA StopShutdownInv ==
    ASSUME CMInv, StopShutdown
    PROVE  CMInv'
  BY RegistryAssumption
     DEF StopShutdown, NoOp, CMInv, CMTypeOK, Operations, OpConsistent,
         RegisteredConsistent, LiveConsistent, CancelledBeforeClosed,
         ServersHaveConnections, Registered

LEMMA OtherStepsInv ==
    ASSUME CMInv,
           \/ StopClose
           \/ \E a \in Agents : UpdateLastSeen(a) \/ GrowStale(a) \/ ServerFails(a)
           \/ \E s \in Streams : Collect(s)
           \/ UNCHANGED cmVars
    PROVE  CMInv'
  BY RegistryAssumption
     DEF StopClose, UpdateLastSeen, GrowStale, ServerFails, EndServer, Collect,
         cmVars, Unlocked, NoOp, CMInv, CMTypeOK, Operations, OpConsistent,
         RegisteredConsistent, LiveConsistent, CancelledBeforeClosed,
         ServersHaveConnections, Registered

LEMMA CMInvStep == CMInv /\ [CMNext]_cmVars => CMInv'
  <1>. SUFFICES ASSUME CMInv, [CMNext]_cmVars PROVE CMInv'
    OBVIOUS
  <1>1. ASSUME NEW s \in Streams, NEW a \in Agents, RegisterLock(s, a) PROVE CMInv'
    BY <1>1, RegisterLockInv
  <1>2. ASSUME NEW s \in Streams, NEW a \in Agents, DeregisterLock(s, a) PROVE CMInv'
    BY <1>2, DeregisterLockInv
  <1>3. ASSUME NEW a \in Agents, DeregisterAbsent(a) PROVE CMInv'
    BY <1>3, OtherStepsInv DEF DeregisterAbsent
  <1>4. CASE OpStep
    BY <1>4, RegisterStartedInv, RegisterFailsInv, TearCancelInv, TearCloseInv, TearDownInv,
       StopShutdownInv DEF OpStep
  <1>5. CASE StaleLock
    BY <1>5, StaleLockInv
  <1>6. CASE StopLock
    BY <1>6, StopLockInv
  <1>7. CASE \/ StopClose
             \/ \E a \in Agents : UpdateLastSeen(a) \/ GrowStale(a) \/ ServerFails(a)
             \/ \E s \in Streams : Collect(s)
             \/ UNCHANGED cmVars
    BY <1>7, OtherStepsInv
  <1>. QED
    BY <1>1, <1>2, <1>3, <1>4, <1>5, <1>6, <1>7 DEF CMNext

LEMMA CMInvAlways == CMSpec => []CMInv
  BY CMInvInit, CMInvStep, PTL DEF CMSpec

-----------------------------------------------------------------------------
\* The maps, the operation and the fields of the connections have their types in
\* every state the registry's calls reach.
THEOREM CMTypeCorrect == CMSpec => []CMTypeOK
  <1>1. CMInv => CMTypeOK
    BY DEF CMInv
  <1>. QED
    BY <1>1, CMInvAlways, PTL

\* Whoever gets cm.mu finds only live, open and rightly filed connections.
THEOREM RegistryLive == CMSpec => []RegisteredAreLive
  <1>1. CMInv => RegisteredAreLive
    BY DEF CMInv, RegisteredConsistent, RegisteredAreLive, Unlocked, NoOp
  <1>. QED
    BY <1>1, CMInvAlways, PTL

\* A connection that is not cancelled is the registered one of its agent, also in
\* the middle of a replacement.
THEOREM OneLiveConnection == CMSpec => []LiveAreRegistered
  <1>1. CMInv => LiveAreRegistered
    BY DEF CMInv, LiveConsistent, LiveAreRegistered
  <1>. QED
    BY <1>1, CMInvAlways, PTL

\* None of the four operations that close a SendCh closes one twice.
THEOREM SendChClosedOnce == CMSpec => []ClosedOnce
  <1>1. CMInv => ClosedOnce
    BY DEF CMInv, OpConsistent, RegisteredConsistent, ClosedOnce
  <1>. QED
    BY <1>1, CMInvAlways, PTL

\* A SendCh is closed only after its connection's context was cancelled.
THEOREM CancelPrecedesClose == CMSpec => []CancelledBeforeClosed
  <1>1. CMInv => CancelledBeforeClosed
    BY DEF CMInv
  <1>. QED
    BY <1>1, CMInvAlways, PTL

\* A running agent server belongs to the registered connection of its agent.
THEOREM NoOrphanServers == CMSpec => []ServersHaveConnections
  <1>1. CMInv => ServersHaveConnections
    BY DEF CMInv
  <1>. QED
    BY <1>1, CMInvAlways, PTL

\* Register never meets the agent's own old server when it starts the new one.
THEOREM StartAlwaysClear == CMSpec => []StartFindsNoServer
  <1>1. CMInv => StartFindsNoServer
    BY DEF CMInv, CMTypeOK, OpConsistent, ServersHaveConnections, StartFindsNoServer
  <1>. QED
    BY <1>1, CMInvAlways, PTL
=============================================================================
