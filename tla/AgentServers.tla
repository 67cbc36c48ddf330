------------------------------ MODULE AgentServers ------------------------------
(***************************************************************************)
(* What the connection manager relies on when it calls the agent server    *)
(* manager (the AgentServerManager interface of connection_manager.go):    *)
(* an agent has at most one HTTP server, the server has a port of its own, *)
(* and the port belongs to the agent until the server has ended.           *)
(*                                                                         *)
(* serverPort[a] is the port of agent a's server, NoPort when it has none. *)
(***************************************************************************)
CONSTANTS Agents, Ports, NoPort

VARIABLE serverPort

NoServers == serverPort = [a \in Agents |-> NoPort]

\* A port no other agent's server has.
Unused(p) == \A a \in Agents : serverPort[a] # p

\* StartAgentServer succeeds.
StartServer(a, p) ==
    /\ serverPort[a] = NoPort
    /\ Unused(p)
    /\ serverPort' = [serverPort EXCEPT ![a] = p]

\* StopAgentServer succeeds, or the server fails by itself and is cleaned up.
EndServer(a) ==
    /\ serverPort[a] # NoPort
    /\ serverPort' = [serverPort EXCEPT ![a] = NoPort]

ServersNext ==
    \E a \in Agents : EndServer(a) \/ \E p \in Ports : StartServer(a, p)

ServersSpec == NoServers /\ [][ServersNext]_serverPort
=============================================================================
