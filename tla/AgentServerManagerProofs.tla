------------------------ MODULE AgentServerManagerProofs ------------------------
(***************************************************************************)
(* What AgentServerManager promises, for any number of agents, serving     *)
(* goroutines, ports and bind retries.                                     *)
(*                                                                         *)
(* AsmInv is the inductive invariant: it says, for each place a call or a  *)
(* cleanup may stand at, who holds asm.mu, what is in the goroutine's hand *)
(* and which agent owns which port.  None of the properties is inductive   *)
(* by itself: that ports do not leak between calls rests on who owns a     *)
(* port during them (OwnersConsistent), and that on asm.mu being held by   *)
(* at most one start or cleanup (LockConsistent).                          *)
(***************************************************************************)
EXTENDS AgentServerManager, PortManagerProofs

\* StartAgentServer holds asm.mu from the lock on.
Starting == call.op = "start" /\ call.pc # "lock"

\* StopAgentServer has taken the info from the map.
Stopping == call.op \in {"stop", "shutdown"} /\ call.pc # "lock"

\* Where each call may stand, and what it knows there: past its lock, a start has
\* found no server of the agent, and a stop has taken it from the map.
CallConsistent ==
    /\ call.op = "none" => call.pc = "idle"
    /\ call.op # "none" => call.agent \in Agents
    /\ call.op = "start" =>
          call.pc \in {"lock", "allocate", "record", "listen", "forget", "return"}
    /\ call.op \in {"stop", "shutdown"} =>
          call.pc \in {"lock", "shutdown", "close", "forget", "return"}
    /\ Starting /\ call.pc # "allocate" => call.port \in Ports
    /\ Stopping => /\ call.port \in Ports /\ call.info \in Infos
                   /\ info[call.info].agent = call.agent
                   /\ info[call.info].port = call.port
    /\ Starting \/ Stopping => servers[call.agent] = NoServer

\* asm.mu is held by a start past its lock or by the cleanup of a failed server.
LockConsistent ==
    /\ mu = Caller <=> Starting
    /\ \A i \in Infos : mu = i <=> serve[i] \in {"forget", "return"}

\* A goroutine between the two steps of Release(p).
ReleaseHand(p) == [op |-> "release", port |-> p, agent |-> NoAgent]

\* What each goroutine has in hand: nothing, but between the two steps of a call of
\* the PortManager.
HandConsistent ==
    /\ call.pc = "record" =>
          hand[Caller] = [op |-> "allocate", port |-> call.port, agent |-> call.agent]
    /\ call.pc = "return" => hand[Caller] = ReleaseHand(call.port)
    /\ call.pc \notin {"record", "return"} => hand[Caller] = NoHand
    /\ \A i \in Infos :
          hand[i] = IF serve[i] = "return" THEN ReleaseHand(info[i].port) ELSE NoHand

\* A server in the map is its agent's, has a live serving goroutine and was not shut
\* down; a cleanup releases the port of a server that is in the map no more, and
\* that no stop is releasing.
ServersConsistent ==
    /\ \A a \in Agents :
          servers[a] # NoServer =>
             /\ info[servers[a]].agent = a
             /\ serve[servers[a]] \in {"spawned", "serving", "failed"}
             /\ servers[a] \notin shut
    /\ \A i \in Infos :
          serve[i] # "none" => info[i].agent \in Agents /\ info[i].port \in Ports
    /\ \A i \in Infos :
          serve[i] = "forget" =>
             /\ servers[info[i].agent] = NoServer
             /\ Stopping /\ call.pc # "return" => info[i].agent # call.agent

\* Agent a owns port p: through its server in the map, through the call that binds
\* or stops its server, or through the cleanup of its server.
Owns(a, p) ==
    \/ servers[a] # NoServer /\ info[servers[a]].port = p
    \/ /\ call.agent = a /\ call.port = p
       /\ call.pc \in {"listen", "shutdown", "close", "forget"}
    \/ \E i \in Infos : serve[i] = "forget" /\ info[i].agent = a /\ info[i].port = p

\* The allocation map says who owns which port.
OwnersConsistent == \A a \in Agents, p \in Ports : allocatedPorts[p] = a <=> Owns(a, p)

\* An open listener is that of a server in the map or of the one being stopped; it
\* closes when Serve returns.
ListenersConsistent ==
    \A i \in listening :
        /\ \/ info[i].agent \in Agents /\ servers[info[i].agent] = i
           \/ call.pc \in {"shutdown", "close"} /\ call.info = i
        /\ serve[i] = "spawned" \/ (serve[i] = "serving" /\ i \notin shut)

\* TypeOK without the pool.
AsmTypes ==
    /\ servers \in [Agents -> Infos \cup {NoServer}]
    /\ mu \in Goroutines \cup {Free}
    /\ info \in [Infos -> [agent : Agents \cup {NoAgent}, port : Ports \cup {NoPort}]]
    /\ listening \subseteq Infos
    /\ shut \subseteq Infos
    /\ serve \in [Infos -> {"none", "spawned", "serving", "failed", "forget", "return"}]
    /\ call \in CallRecord

Consistent ==
    /\ AsmTypes
    /\ CallConsistent /\ LockConsistent /\ HandConsistent
    /\ ServersConsistent /\ OwnersConsistent /\ ListenersConsistent

\* The inductive invariant.
AsmInv == PMTypeOK /\ PortsConserved /\ Consistent

\* During a start the ports that failed to bind are at the end of the pool.
RetriesInOrder ==
    /\ call.pc = "lock" => call.tried = {}
    /\ Starting =>
          /\ \A i, j \in 1..Len(availablePorts) :
                i <= j /\ availablePorts[i] \in call.tried => availablePorts[j] \in call.tried
          /\ call.pc \in {"record", "listen"} /\ call.port \in call.tried
                => \A p \in Ports : InPool(p) => p \in call.tried
          /\ call.pc \in {"forget", "return"} => call.port \in call.tried

\* A server that Shutdown has still to stop is in what is left of its snapshot, or is
\* the one it is about to stop: no server starts while Shutdown runs.
ShutdownSees ==
    /\ call.op # "shutdown" => call.queue = {}
    /\ call.op = "shutdown" =>
          \A a \in Agents : servers[a] # NoServer =>
              a \in call.queue \/ (call.pc = "lock" /\ a = call.agent)

-----------------------------------------------------------------------------
\* Most leaves are first-order facts about functions and records, and are left to
\* Zenon; the others name the SMT solver.
USE Zenon

\* The fields of a call that has just been made.
LEMMA NewCallFields ==
    ASSUME NEW o \in {"start", "stop", "shutdown"}, NEW a \in Agents, NEW q \in SUBSET Agents
    PROVE  /\ NewCall(o, a, q) \in CallRecord
           /\ NewCall(o, a, q).op = o /\ NewCall(o, a, q).pc = "lock"
           /\ NewCall(o, a, q).agent = a /\ NewCall(o, a, q).info = NoServer
           /\ NewCall(o, a, q).queue = q /\ NewCall(o, a, q).tried = {}
  BY ManagerAssumption, SMT DEF NewCall, CallRecord

\* The fields of no call.
LEMMA NoCallFields ==
    /\ NoCall \in CallRecord /\ NoCall.op = "none" /\ NoCall.pc = "idle"
    /\ NoCall.info = NoServer /\ NoCall.queue = {}
  BY ManagerAssumption, SMT DEF NoCall, CallRecord

\* The call moves on to another place.
LEMMA CallGoes ==
    ASSUME call \in CallRecord,
           NEW pc \in {"allocate", "record", "listen", "close", "shutdown", "forget", "return"},
           call' = [call EXCEPT !.pc = pc]
    PROVE  /\ call' \in CallRecord /\ call'.pc = pc
           /\ call'.op = call.op /\ call'.agent = call.agent /\ call'.port = call.port
           /\ call'.info = call.info /\ call'.tried = call.tried /\ call'.queue = call.queue
  BY DEF CallRecord

\* Where a call stands tells which call it is.
LEMMA CallAt ==
    ASSUME Consistent
    PROVE  /\ call.pc \in {"allocate", "record", "listen"} => Starting
           /\ call.pc \in {"shutdown", "close"} => Stopping
           /\ call.pc \in {"forget", "return"} => Starting \/ Stopping
           /\ ~(Starting /\ Stopping)
           /\ Starting \/ Stopping => call.agent \in Agents
  BY DEF Consistent, AsmTypes, CallRecord, CallConsistent, Starting, Stopping

\* A call ends or the next one begins, while no port is in the caller's hand or
\* reserved for it.
LEMMA CallEndsInv ==
    ASSUME AsmInv,
           call.pc \in {"idle", "lock", "allocate", "return"},
           \/ call' = NoCall
           \/ \E o \in {"start", "stop", "shutdown"}, a \in Agents, q \in SUBSET Agents :
                 call' = NewCall(o, a, q),
           mu' = IF Starting THEN Free ELSE mu,
           hand'[Caller] = NoHand, \A i \in Infos : hand'[i] = hand[i],
           UNCHANGED <<allocatedPorts, servers, info, listening, shut, serve>>
    PROVE  Consistent'
  <1>1. /\ call' \in CallRecord /\ call'.op \in {"none", "start", "stop", "shutdown"}
        /\ call'.pc = IF call'.op = "none" THEN "idle" ELSE "lock"
        /\ call'.op # "none" => call'.agent \in Agents
        /\ call'.info = NoServer
    BY NewCallFields, NoCallFields, SMT
  <1>2. ~Starting' /\ ~Stopping'
    BY <1>1 DEF Starting, Stopping
  <1>3. AsmTypes'
    BY <1>1 DEF AsmInv, Consistent, AsmTypes
  <1>4. CallConsistent'
    BY <1>1, <1>2 DEF CallConsistent
  <1>5. LockConsistent'
    BY <1>2, ManagerAssumption DEF AsmInv, Consistent, AsmTypes, LockConsistent, Infos
  <1>6. HandConsistent'
    BY <1>1 DEF AsmInv, Consistent, HandConsistent
  <1>7. ServersConsistent'
    BY <1>2 DEF AsmInv, Consistent, ServersConsistent
  <1>8. OwnersConsistent'
    BY <1>1, SMT DEF AsmInv, Consistent, OwnersConsistent, Owns
  <1>9. ListenersConsistent'
    BY DEF AsmInv, Consistent, ListenersConsistent
  <1>. QED
    BY <1>3, <1>4, <1>5, <1>6, <1>7, <1>8, <1>9 DEF Consistent

\* A call that is made, or that ends, or that Shutdown follows up with the next.
LEMMA NextCall ==
    ASSUME Consistent,
           \/ \E a \in Agents : StartCall(a) \/ StopCall(a)
           \/ ShutdownCall \/ StartExists \/ StartNoPort \/ StopMissing \/ StopReturn
    PROVE  \/ call' = NoCall
           \/ \E o \in {"start", "stop", "shutdown"}, a \in Agents, q \in SUBSET Agents :
                 call' = NewCall(o, a, q)
  <1>1. ASSUME NEW a \in Agents, StartCall(a) \/ StopCall(a)
        PROVE  \E o \in {"start", "stop"} : call' = NewCall(o, a, {})
    BY <1>1 DEF StartCall, StopCall
  <1>2. CASE ShutdownCall
    BY <1>2 DEF ShutdownCall
  <1>3. CASE StartExists \/ StartNoPort
    BY <1>3 DEF StartExists, StartNoPort
  <1>4. CASE StopMissing \/ StopReturn
    <2>1. call.queue \subseteq Agents
      BY DEF Consistent, AsmTypes, CallRecord
    <2>. QED
      BY <1>4, <2>1, ZenonT(30) DEF StopMissing, StopReturn, AfterStop
  <1>. QED
    BY <1>1, <1>2, <1>3, <1>4

\* Calls are made, and return at once when there is nothing to do.
LEMMA CallBeginsInv ==
    ASSUME AsmInv,
           \/ \E a \in Agents : StartCall(a) \/ StopCall(a)
           \/ ShutdownCall \/ StartExists \/ StartNoPort \/ StopMissing
    PROVE  Consistent'
  <1>1. /\ call.pc \in {"idle", "lock", "allocate"}
        /\ mu' = IF Starting THEN Free ELSE mu
    BY CallAt DEF AsmInv, Consistent, CallConsistent, LockConsistent, Starting, StartCall,
                  StopCall, ShutdownCall, StartExists, StartNoPort, StopMissing
  <1>2. /\ hand'[Caller] = NoHand /\ \A i \in Infos : hand'[i] = hand[i]
        /\ UNCHANGED <<allocatedPorts, servers, info, listening, shut, serve>>
    <2>1. UNCHANGED <<hand, allocatedPorts, servers, info, listening, shut, serve>>
      BY DEF StartCall, StopCall, ShutdownCall, StartExists, StartNoPort, StopMissing, pmVars
    <2>2. hand[Caller] = NoHand
      BY <1>1 DEF AsmInv, Consistent, HandConsistent
    <2>. QED
      BY <2>1, <2>2
  <1>3. \/ call' = NoCall
        \/ \E o \in {"start", "stop", "shutdown"}, a \in Agents, q \in SUBSET Agents :
              call' = NewCall(o, a, q)
    BY NextCall DEF AsmInv
  <1>. QED
    BY <1>1, <1>2, <1>3, CallEndsInv

-----------------------------------------------------------------------------
\* The steps of StartAgentServer.
LEMMA StartLockInv ==
    ASSUME AsmInv, StartLock
    PROVE  Consistent'
  <1>1. /\ call.op = "start" /\ call.pc = "lock" /\ mu = Free /\ mu' = Caller
        /\ servers[call.agent] = NoServer
        /\ UNCHANGED <<pmVars, servers, info, listening, shut, serve>>
    BY DEF StartLock
  <1>2. /\ call' \in CallRecord /\ call'.op = "start" /\ call'.pc = "allocate"
        /\ call'.agent = call.agent /\ call'.info = call.info
    <2>1. 1 \in 0..maxPortBindRetries
      BY ManagerAssumption, SMT
    <2>. QED
      BY <2>1 DEF StartLock, AsmInv, Consistent, AsmTypes, CallRecord
  <1>3. AsmTypes' /\ CallConsistent'
    BY <1>1, <1>2, ManagerAssumption
       DEF AsmInv, Consistent, AsmTypes, CallConsistent, Starting, Stopping
  <1>4. LockConsistent' /\ HandConsistent'
    BY <1>1, <1>2, ManagerAssumption
       DEF AsmInv, Consistent, AsmTypes, LockConsistent, HandConsistent, Starting, Infos, pmVars
  <1>5. ServersConsistent' /\ OwnersConsistent' /\ ListenersConsistent'
    BY <1>1, <1>2, SMT
       DEF AsmInv, Consistent, ServersConsistent, OwnersConsistent, Owns, ListenersConsistent,
           Stopping, pmVars
  <1>. QED
    BY <1>3, <1>4, <1>5 DEF Consistent

\* The head of the pool is in the caller's hand, not yet recorded.
LEMMA StartAllocateInv ==
    ASSUME AsmInv, StartAllocate
    PROVE  Consistent'
  <1>1. /\ Starting /\ call.pc = "allocate" /\ call.op = "start" /\ call.agent \in Agents
        /\ UNCHANGED <<allocatedPorts, servers, mu, info, listening, shut, serve>>
    BY CallAt DEF StartAllocate, AllocateReceive, AsmInv, Starting
  <1>. DEFINE p == Head(availablePorts)
  <1>2. p \in Ports
    BY TailFacts DEF StartAllocate, AllocateReceive, AsmInv, PMTypeOK
  <1>3. hand' = [hand EXCEPT ![Caller] = [op |-> "allocate", port |-> p, agent |-> call.agent]]
    BY DEF StartAllocate, AllocateReceive
  <1>4. call' = [call EXCEPT !.pc = "record", !.port = p]
    BY DEF StartAllocate
  <1>. HIDE DEF p
  <1>5. /\ call' \in CallRecord /\ call'.op = "start" /\ call'.pc = "record"
        /\ call'.agent = call.agent /\ call'.port = p
    BY <1>1, <1>2, <1>4 DEF AsmInv, Consistent, AsmTypes, CallRecord
  <1>6. AsmTypes' /\ CallConsistent' /\ LockConsistent'
    BY <1>1, <1>2, <1>5
       DEF AsmInv, Consistent, AsmTypes, CallConsistent, LockConsistent, Starting, Stopping
  <1>7. HandConsistent'
    BY <1>1, <1>3, <1>5, ManagerAssumption
       DEF AsmInv, PMTypeOK, Consistent, HandConsistent, Infos
  <1>8. ServersConsistent' /\ OwnersConsistent' /\ ListenersConsistent'
    BY <1>1, <1>5, SMT
       DEF AsmInv, Consistent, ServersConsistent, OwnersConsistent, Owns, ListenersConsistent,
           Stopping
  <1>. QED
    BY <1>6, <1>7, <1>8 DEF Consistent

\* The agent owns the port through the call that is about to bind it.
LEMMA StartRecordInv ==
    ASSUME AsmInv, StartRecord
    PROVE  Consistent'
  <1>1. /\ Starting /\ call.pc = "record" /\ call.op = "start" /\ call.agent \in Agents
        /\ UNCHANGED <<availablePorts, servers, mu, info, listening, shut, serve>>
    BY CallAt DEF StartRecord, AllocateRecord, AsmInv, Starting
  <1>2. /\ call' \in CallRecord /\ call'.op = "start" /\ call'.pc = "listen"
        /\ call'.agent = call.agent /\ call'.port = call.port
    BY <1>1, CallGoes DEF StartRecord, AsmInv, Consistent, AsmTypes
  <1>3. hand[Caller] = [op |-> "allocate", port |-> call.port, agent |-> call.agent]
    BY <1>1 DEF AsmInv, Consistent, HandConsistent
  <1>4. call.port \in Ports /\ allocatedPorts[call.port] = NoAgent
    BY <1>1, <1>3, ManagerAssumption, SMT
       DEF AsmInv, Consistent, CallConsistent, PortsConserved, NoPortTwice, InHand
  <1>5. /\ hand' = [hand EXCEPT ![Caller] = NoHand]
        /\ allocatedPorts' = [allocatedPorts EXCEPT ![call.port] = call.agent]
    BY <1>3, SMT DEF StartRecord, AllocateRecord
  <1>6. AsmTypes' /\ CallConsistent' /\ LockConsistent'
    BY <1>1, <1>2, <1>4
       DEF AsmInv, Consistent, AsmTypes, CallConsistent, LockConsistent, Starting, Stopping
  <1>7. HandConsistent'
    BY <1>1, <1>2, <1>5, ManagerAssumption
       DEF AsmInv, PMTypeOK, Consistent, HandConsistent, Infos
  <1>8. ServersConsistent' /\ ListenersConsistent'
    BY <1>1, <1>2
       DEF AsmInv, Consistent, ServersConsistent, ListenersConsistent, Stopping
  <1>9. OwnersConsistent'
    <2>. SUFFICES ASSUME NEW a \in Agents, NEW p \in Ports
                  PROVE  (allocatedPorts'[p] = a) <=> Owns(a, p)'
      BY DEF OwnersConsistent
    <2>1. Owns(a, p)' <=> Owns(a, p) \/ (a = call.agent /\ p = call.port)
      BY <1>1, <1>2 DEF Owns
    <2>2. CASE p = call.port
      <3>1. ~Owns(a, p)
        BY <1>4, <2>2, Nulls DEF AsmInv, Consistent, OwnersConsistent
      <3>. QED
        BY <1>4, <1>5, <2>1, <2>2, <3>1 DEF AsmInv, PMTypeOK
    <2>3. CASE p # call.port
      BY <1>5, <2>1, <2>3 DEF AsmInv, PMTypeOK, Consistent, OwnersConsistent
    <2>. QED
      BY <2>2, <2>3
  <1>. QED
    BY <1>6, <1>7, <1>8, <1>9 DEF Consistent

\* net.Listen succeeds: the port passes from the call to the new server.
LEMMA StartBoundInv ==
    ASSUME AsmInv, NEW i \in Infos, StartBound(i)
    PROVE  Consistent'
  <1>1. /\ Starting /\ call.pc = "listen" /\ call.op = "start" /\ call.agent \in Agents
        /\ call.port \in Ports /\ servers[call.agent] = NoServer
        /\ UNCHANGED pmVars /\ mu' = Free /\ mu = Caller
    BY CallAt DEF StartBound, AsmInv, Consistent, CallConsistent, LockConsistent, Starting
  <1>2. /\ serve[i] = "none" /\ \A a \in Agents : servers[a] # i
        /\ info' = [info EXCEPT ![i] = [agent |-> call.agent, port |-> call.port]]
        /\ listening' = listening \cup {i} /\ shut' = shut \ {i}
        /\ serve' = [serve EXCEPT ![i] = "spawned"]
        /\ servers' = [servers EXCEPT ![call.agent] = i]
        /\ call' = NoCall
    BY DEF StartBound, Fresh
  <1>3. i \in Goroutines /\ i # NoServer /\ i # Free /\ i # Caller
    BY ManagerAssumption DEF Infos
  <1>4. ~Starting' /\ ~Stopping' /\ call' \in CallRecord /\ call'.op = "none" /\ call'.pc = "idle"
    BY <1>2, NoCallFields DEF Starting, Stopping
  <1>5. AsmTypes' /\ CallConsistent'
    BY <1>1, <1>2, <1>4 DEF AsmInv, Consistent, AsmTypes, CallConsistent
  <1>6. LockConsistent'
    BY <1>1, <1>2, <1>4, ManagerAssumption
       DEF AsmInv, Consistent, AsmTypes, LockConsistent, Infos
  <1>7. HandConsistent'
    BY <1>1, <1>2, <1>4
       DEF AsmInv, Consistent, AsmTypes, HandConsistent, Infos, pmVars
  <1>8. ServersConsistent'
    <2>1. \A j \in Infos : serve[j] # "forget"
      BY <1>1 DEF AsmInv, Consistent, LockConsistent, Infos
    <2>. QED
      BY <1>1, <1>2, <1>3, <1>4, <2>1, SMT DEF AsmInv, Consistent, AsmTypes, ServersConsistent
  <1>9. ListenersConsistent'
    <2>. SUFFICES ASSUME NEW j \in listening'
                  PROVE  /\ info'[j].agent \in Agents /\ servers'[info'[j].agent] = j
                         /\ \/ serve'[j] = "spawned"
                            \/ serve'[j] = "serving" /\ j \notin shut'
      BY DEF ListenersConsistent
    <2>1. CASE j = i
      BY <1>1, <1>2, <2>1 DEF AsmInv, Consistent, AsmTypes
    <2>2. CASE j # i
      <3>1. j \in Infos /\ j # NoServer /\ info'[j] = info[j]
        BY <1>2, <2>2, ManagerAssumption DEF AsmInv, Consistent, AsmTypes, Infos
      <3>2. /\ info[j].agent \in Agents /\ servers[info[j].agent] = j
            /\ serve[j] = "spawned" \/ (serve[j] = "serving" /\ j \notin shut)
        BY <1>1, <1>2, <2>2 DEF AsmInv, Consistent, ListenersConsistent
      <3>. QED
        BY <1>1, <1>2, <3>1, <3>2 DEF AsmInv, Consistent, AsmTypes
    <2>. QED
      BY <2>1, <2>2
  <1>10. OwnersConsistent'
    <2>. SUFFICES ASSUME NEW a \in Agents, NEW p \in Ports PROVE Owns(a, p)' <=> Owns(a, p)
      BY <1>1 DEF AsmInv, Consistent, OwnersConsistent, pmVars
    <2>. QED
      BY <1>1, <1>2, <1>3, <1>4 DEF AsmInv, Consistent, AsmTypes, Owns
  <1>. QED
    BY <1>5, <1>6, <1>7, <1>8, <1>9, <1>10 DEF Consistent

\* The bind fails: the call still owns the port.
LEMMA StartBindFailsInv ==
    ASSUME AsmInv, StartBindFails
    PROVE  Consistent'
  <1>1. /\ Starting /\ call.pc = "listen" /\ call.op = "start" /\ call.port \in Ports
        /\ UNCHANGED <<pmVars, servers, mu, info, listening, shut, serve>>
    BY CallAt DEF StartBindFails, AsmInv, Consistent, CallConsistent, Starting
  <1>2. /\ call' \in CallRecord /\ call'.op = "start" /\ call'.pc = "forget"
        /\ call'.agent = call.agent /\ call'.port = call.port
    BY <1>1 DEF StartBindFails, AsmInv, Consistent, AsmTypes, CallRecord
  <1>3. AsmTypes' /\ CallConsistent' /\ LockConsistent' /\ HandConsistent'
    BY <1>1, <1>2
       DEF AsmInv, Consistent, AsmTypes, CallConsistent, LockConsistent, HandConsistent,
           Starting, Stopping, pmVars
  <1>4. ServersConsistent' /\ OwnersConsistent' /\ ListenersConsistent'
    BY <1>1, <1>2, SMT
       DEF AsmInv, Consistent, ServersConsistent, OwnersConsistent, Owns, ListenersConsistent,
           Stopping, pmVars
  <1>. QED
    BY <1>3, <1>4 DEF Consistent

\* The port is sent back: the caller's hand is empty again.
LEMMA CallerReturns ==
    ASSUME AsmInv, call.pc = "return", ReleaseFinish(Caller)
    PROVE  /\ hand'[Caller] = NoHand /\ \A i \in Infos : hand'[i] = hand[i]
           /\ UNCHANGED allocatedPorts
  <1>1. hand[Caller].op = "release"
    BY SMT DEF AsmInv, Consistent, HandConsistent, ReleaseHand
  <1>. QED
    BY <1>1, ManagerAssumption DEF ReleaseFinish, ReleaseReturn, AsmInv, PMTypeOK, Infos

\* The port is back in the pool: the next attempt, or the error return.
LEMMA StartRetryInv ==
    ASSUME AsmInv, StartRetry
    PROVE  Consistent'
  <1>1. /\ call.op = "start" /\ call.pc = "return" /\ Starting
        /\ hand'[Caller] = NoHand /\ \A i \in Infos : hand'[i] = hand[i]
        /\ UNCHANGED <<allocatedPorts, servers, info, listening, shut, serve>>
    BY CallerReturns DEF StartRetry, Starting
  <1>2. CASE call.attempt < maxPortBindRetries
    <2>1. /\ call' = [call EXCEPT !.pc = "allocate", !.port = NoPort, !.attempt = @ + 1]
          /\ mu' = mu
      BY <1>2 DEF StartRetry
    <2>2. call.attempt + 1 \in 0..maxPortBindRetries
      BY <1>2, ManagerAssumption, SMT DEF AsmInv, Consistent, AsmTypes, CallRecord
    <2>3. /\ call' \in CallRecord /\ call'.op = "start" /\ call'.pc = "allocate"
          /\ call'.agent = call.agent /\ Starting' /\ ~Stopping'
      BY <1>1, <2>1, <2>2 DEF AsmInv, Consistent, AsmTypes, CallRecord, Starting, Stopping
    <2>4. AsmTypes' /\ CallConsistent' /\ LockConsistent' /\ HandConsistent'
      BY <1>1, <2>1, <2>3, SMT
         DEF AsmInv, Consistent, AsmTypes, CallConsistent, LockConsistent, HandConsistent
    <2>5. ServersConsistent' /\ OwnersConsistent' /\ ListenersConsistent'
      BY <1>1, <2>3, SMT
         DEF AsmInv, Consistent, ServersConsistent, OwnersConsistent, Owns, ListenersConsistent
    <2>. QED
      BY <2>4, <2>5 DEF Consistent
  <1>3. CASE ~(call.attempt < maxPortBindRetries)
    BY <1>1, <1>3, CallEndsInv DEF StartRetry
  <1>. QED
    BY <1>2, <1>3

-----------------------------------------------------------------------------
\* The steps of StopAgentServer.
LEMMA StopTakeInv ==
    ASSUME AsmInv, StopTake
    PROVE  Consistent'
  <1>. DEFINE i == servers[call.agent]
  <1>1. /\ call.op \in {"stop", "shutdown"} /\ call.pc = "lock" /\ call.agent \in Agents
        /\ mu = Free /\ mu' = mu /\ i # NoServer
        /\ servers' = [servers EXCEPT ![call.agent] = NoServer]
        /\ UNCHANGED <<pmVars, info, listening, shut, serve>>
    BY DEF StopTake, AsmInv, Consistent, CallConsistent
  <1>2. /\ i \in Infos /\ info[i].agent = call.agent /\ info[i].port \in Ports
        /\ serve[i] # "forget"
    BY <1>1, SMT DEF AsmInv, Consistent, AsmTypes, ServersConsistent
  <1>3. call' = [call EXCEPT !.pc = "shutdown", !.info = i, !.port = info[i].port]
    BY DEF StopTake
  <1>. HIDE DEF i
  <1>4. /\ call' \in CallRecord /\ call'.op = call.op /\ call'.pc = "shutdown"
        /\ call'.agent = call.agent /\ call'.info = i /\ call'.port = info[i].port
    BY <1>1, <1>2, <1>3 DEF AsmInv, Consistent, AsmTypes, CallRecord
  <1>5. ~Starting /\ ~Starting' /\ Stopping'
    BY <1>1, <1>4 DEF Starting, Stopping
  <1>6. AsmTypes' /\ CallConsistent'
    BY <1>1, <1>2, <1>4, <1>5 DEF AsmInv, Consistent, AsmTypes, CallConsistent
  <1>7. LockConsistent' /\ HandConsistent'
    BY <1>1, <1>4, <1>5
       DEF AsmInv, Consistent, LockConsistent, HandConsistent, pmVars
  <1>8. \A j \in Infos : serve[j] # "forget"
    BY <1>1, ManagerAssumption DEF AsmInv, Consistent, LockConsistent, Infos
  <1>9. ServersConsistent'
    BY <1>1, <1>8, SMT DEF AsmInv, Consistent, AsmTypes, ServersConsistent
  <1>10. ListenersConsistent'
    BY <1>1, <1>4, SMT DEF AsmInv, Consistent, AsmTypes, ListenersConsistent, i
  <1>11. OwnersConsistent'
    <2>. SUFFICES ASSUME NEW a \in Agents, NEW p \in Ports PROVE Owns(a, p)' <=> Owns(a, p)
      BY <1>1 DEF AsmInv, Consistent, OwnersConsistent, pmVars
    <2>. QED
      BY <1>1, <1>2, <1>4 DEF AsmInv, Consistent, AsmTypes, Owns, i
  <1>. QED
    BY <1>6, <1>7, <1>9, <1>10, <1>11 DEF Consistent

\* The listener is closed before the port is released.
LEMMA StopClosesInv ==
    ASSUME AsmInv, StopShutdown \/ StopClose
    PROVE  Consistent'
  <1>1. /\ Stopping /\ ~Starting /\ call.pc \in {"shutdown", "close"}
        /\ call.info \in Infos
        /\ UNCHANGED <<pmVars, servers, mu, info, serve>>
        /\ listening' \subseteq listening
        /\ call.pc = "close" => call.info \notin listening'
        /\ shut \subseteq shut' /\ shut' \subseteq shut \cup {call.info}
        /\ call.pc = "shutdown" /\ serve[call.info] = "serving" => call.info \notin listening'
    BY CallAt DEF StopShutdown, StopClose, AsmInv, Consistent, CallConsistent
  <1>2. /\ call' \in CallRecord /\ call'.op = call.op
        /\ call'.pc = IF call.pc = "shutdown" THEN "close" ELSE "forget"
        /\ call'.agent = call.agent /\ call'.info = call.info /\ call'.port = call.port
    BY CallGoes DEF StopShutdown, StopClose, AsmInv, Consistent, AsmTypes
  <1>3. Stopping' /\ ~Starting'
    BY <1>1, <1>2 DEF Starting, Stopping
  <1>4. AsmTypes' /\ CallConsistent' /\ LockConsistent' /\ HandConsistent'
    BY <1>1, <1>2, <1>3
       DEF AsmInv, Consistent, AsmTypes, CallConsistent, LockConsistent, HandConsistent,
           Stopping, pmVars
  <1>5. ServersConsistent'
    <2>1. \A a \in Agents : servers[a] # call.info
      BY <1>1, ManagerAssumption, SMT
         DEF AsmInv, Consistent, AsmTypes, CallConsistent, ServersConsistent, Infos
    <2>. QED
      BY <1>1, <1>2, <1>3, <2>1, SMT DEF AsmInv, Consistent, AsmTypes, ServersConsistent
  <1>6. OwnersConsistent' /\ ListenersConsistent'
    BY <1>1, <1>2, SMT
       DEF AsmInv, Consistent, OwnersConsistent, Owns, ListenersConsistent, pmVars
  <1>. QED
    BY <1>4, <1>5, <1>6 DEF Consistent

\* The port is back in the pool: the stop returns.
LEMMA StopReturnInv ==
    ASSUME AsmInv, StopReturn
    PROVE  Consistent'
  <1>1. /\ call.op \in {"stop", "shutdown"} /\ call.pc = "return" /\ ~Starting /\ mu' = mu
        /\ hand'[Caller] = NoHand /\ \A i \in Infos : hand'[i] = hand[i]
        /\ UNCHANGED <<allocatedPorts, servers, info, listening, shut, serve>>
    BY CallerReturns DEF StopReturn, Starting
  <1>. QED
    BY <1>1, NextCall, CallEndsInv DEF AsmInv

\* The port is forgotten and is in the hand of the goroutine that releases it.
LEMMA CallForgetInv ==
    ASSUME AsmInv, CallForget
    PROVE  Consistent'
  <1>1. /\ call.pc = "forget" /\ (Starting \/ Stopping) /\ call.agent \in Agents
        /\ call.port \in Ports /\ servers[call.agent] = NoServer
        /\ UNCHANGED <<servers, mu, info, listening, shut, serve>>
    BY CallAt DEF CallForget, AsmInv, Consistent, CallConsistent
  <1>2. /\ call' \in CallRecord /\ call'.pc = "return" /\ call'.op = call.op
        /\ call'.agent = call.agent /\ call'.port = call.port /\ call'.info = call.info
    BY CallGoes DEF CallForget, AsmInv, Consistent, AsmTypes
  <1>3. (Starting' <=> Starting) /\ (Stopping' <=> Stopping)
    BY <1>1, <1>2 DEF Starting, Stopping
  <1>4. allocatedPorts[call.port] = call.agent
    BY <1>1 DEF AsmInv, Consistent, OwnersConsistent, Owns
  <1>5. /\ allocatedPorts' = [allocatedPorts EXCEPT ![call.port] = NoAgent]
        /\ hand' = [hand EXCEPT ![Caller] = ReleaseHand(call.port)]
    BY <1>1, <1>4, Nulls DEF CallForget, ReleaseForget, ReleaseHand
  <1>6. AsmTypes' /\ CallConsistent'
    BY <1>1, <1>2, <1>3 DEF AsmInv, Consistent, AsmTypes, CallConsistent
  <1>7. LockConsistent' /\ ListenersConsistent'
    BY <1>1, <1>2, <1>3 DEF AsmInv, Consistent, LockConsistent, ListenersConsistent
  <1>8. HandConsistent'
    BY <1>1, <1>2, <1>5, ManagerAssumption
       DEF AsmInv, Consistent, HandConsistent, PMTypeOK, Infos, ReleaseHand
  <1>9. ServersConsistent'
    BY <1>1, <1>2 DEF AsmInv, Consistent, ServersConsistent
  <1>10. OwnersConsistent'
    <2>. SUFFICES ASSUME NEW a \in Agents, NEW p \in Ports
                  PROVE  allocatedPorts'[p] = a <=> Owns(a, p)'
      BY DEF OwnersConsistent
    <2>1. \A i \in Infos : serve[i] = "forget" => info[i].agent # call.agent
      BY <1>1, ManagerAssumption, SMT
         DEF AsmInv, Consistent, LockConsistent, ServersConsistent, Infos
    <2>2. Owns(a, p)' <=> Owns(a, p) /\ ~(a = call.agent /\ p = call.port)
      BY <1>1, <1>2, <2>1 DEF Owns
    <2>3. allocatedPorts[p] = a <=> Owns(a, p)
      BY DEF AsmInv, Consistent, OwnersConsistent
    <2>. QED
      BY <1>4, <1>5, <2>2, <2>3, Nulls DEF AsmInv, PMTypeOK
  <1>. QED
    BY <1>6, <1>7, <1>8, <1>9, <1>10 DEF Consistent

-----------------------------------------------------------------------------
\* The steps of a serving goroutine.
LEMMA ServesInv ==
    ASSUME AsmInv, NEW i \in Infos, ServeEnter(i) \/ ServeClosed(i) \/ ServeFails(i)
    PROVE  Consistent'
  <1>1. /\ UNCHANGED <<pmVars, servers, mu, info, shut, call>>
        /\ serve[i] \in {"spawned", "serving"} /\ listening' \subseteq listening
        /\ \E k \in {"none", "serving", "failed"} :
              /\ serve' = [serve EXCEPT ![i] = k]
              /\ k # "serving" => i \notin listening'
              /\ k = "none" <=> i \in shut
    BY DEF ServeEnter, ServeClosed, ServeFails, AsmInv, Consistent, ListenersConsistent
  <1>2. PICK k \in {"none", "serving", "failed"} :
              /\ serve' = [serve EXCEPT ![i] = k]
              /\ k # "serving" => i \notin listening'
              /\ k = "none" <=> i \in shut
    BY <1>1, ZenonT(30)
  <1>3. /\ serve'[i] = k
        /\ \A j \in Infos : serve[j] = "forget" <=> serve'[j] = "forget"
        /\ \A j \in Infos : serve[j] = "return" <=> serve'[j] = "return"
        /\ \A j \in Infos : j # i => serve'[j] = serve[j]
    BY <1>1, <1>2 DEF AsmInv, Consistent, AsmTypes
  <1>4. (Starting' <=> Starting) /\ (Stopping' <=> Stopping)
    BY <1>1 DEF Starting, Stopping
  <1>5. AsmTypes'
    BY <1>1, <1>2 DEF AsmInv, Consistent, AsmTypes
  <1>6. CallConsistent' /\ LockConsistent' /\ HandConsistent'
    BY <1>1, <1>3, <1>4, SMT
       DEF AsmInv, Consistent, CallConsistent, LockConsistent, HandConsistent, pmVars
  <1>7. ServersConsistent'
    <2>1. \A a \in Agents : servers[a] = i => k \in {"serving", "failed"}
      BY <1>2, ManagerAssumption DEF AsmInv, Consistent, ServersConsistent, Infos
    <2>2. info[i].agent \in Agents /\ info[i].port \in Ports
      BY <1>1 DEF AsmInv, Consistent, ServersConsistent
    <2>3. servers \in [Agents -> Infos \cup {NoServer}] /\ ServersConsistent
      BY DEF AsmInv, Consistent, AsmTypes
    <2>4. \A a \in Agents :
             servers[a] # NoServer =>
                /\ info[servers[a]].agent = a
                /\ serve'[servers[a]] \in {"spawned", "serving", "failed"}
                /\ servers[a] \notin shut
      BY <1>3, <2>1, <2>3, SMT DEF ServersConsistent
    <2>5. \A j \in Infos :
             /\ serve'[j] # "none" => info[j].agent \in Agents /\ info[j].port \in Ports
             /\ serve'[j] = "forget" =>
                   /\ servers[info[j].agent] = NoServer
                   /\ Stopping /\ call.pc # "return" => info[j].agent # call.agent
      BY <1>3, <2>2, <2>3, SMT DEF ServersConsistent
    <2>. QED
      BY <1>1, <1>4, <2>4, <2>5 DEF ServersConsistent
  <1>8. OwnersConsistent'
    BY <1>1, <1>3, SMT DEF AsmInv, Consistent, OwnersConsistent, Owns, pmVars
  <1>9. ListenersConsistent'
    BY <1>1, <1>2, <1>3, SMT DEF AsmInv, Consistent, AsmTypes, ListenersConsistent
  <1>. QED
    BY <1>5, <1>6, <1>7, <1>8, <1>9 DEF Consistent

\* Ownership passes from the map to the cleanup.
LEMMA CleanupTakeInv ==
    ASSUME AsmInv, NEW i \in Infos, CleanupTake(i)
    PROVE  Consistent'
  <1>. DEFINE a == info[i].agent
  <1>1. /\ serve[i] = "failed" /\ mu = Free /\ a \in Agents /\ servers[a] = i
        /\ mu' = i /\ UNCHANGED <<pmVars, info, listening, shut, call>>
        /\ servers' = [servers EXCEPT ![a] = NoServer]
        /\ serve' = [serve EXCEPT ![i] = "forget"]
    BY DEF CleanupTake, AsmInv, Consistent, ServersConsistent
  <1>2. /\ servers'[a] = NoServer /\ serve'[i] = "forget"
        /\ \A b \in Agents : b # a => servers'[b] = servers[b]
        /\ \A j \in Infos : j # i => serve'[j] = serve[j]
        /\ i # NoServer /\ i # Free /\ i # Caller /\ i \notin listening
    BY <1>1, ManagerAssumption, SMT
       DEF AsmInv, Consistent, AsmTypes, ListenersConsistent, Infos
  <1>3. ~Starting /\ ~Starting' /\ (Stopping' <=> Stopping)
    BY <1>1, ManagerAssumption DEF AsmInv, Consistent, LockConsistent, Starting, Stopping
  <1>4. Stopping => call.agent # a
    BY <1>1, <1>2 DEF AsmInv, Consistent, CallConsistent
  <1>5. \A j \in Infos : serve[j] \notin {"forget", "return"}
    BY <1>1, ManagerAssumption DEF AsmInv, Consistent, LockConsistent, Infos
  <1>6. AsmTypes'
    BY <1>1 DEF AsmInv, Consistent, AsmTypes, Infos
  <1>7. CallConsistent'
    BY <1>1, <1>2, <1>3, <1>4 DEF AsmInv, Consistent, CallConsistent, Stopping
  <1>8. LockConsistent' /\ HandConsistent'
    BY <1>1, <1>2, <1>3, <1>5
       DEF AsmInv, Consistent, LockConsistent, HandConsistent, pmVars
  <1>9. ServersConsistent'
    <2>1. \A b \in Agents : servers'[b] # i
      BY <1>1, <1>2, SMT DEF AsmInv, Consistent, ServersConsistent
    <2>2. servers' \in [Agents -> Infos \cup {NoServer}] /\ info[i].port \in Ports
      BY <1>1, <1>6 DEF AsmInv, Consistent, AsmTypes, ServersConsistent
    <2>. QED
      BY <1>1, <1>2, <1>3, <1>4, <1>5, <2>1, <2>2, SMT
         DEF AsmInv, Consistent, ServersConsistent
  <1>10. OwnersConsistent'
    <2>. SUFFICES ASSUME NEW b \in Agents, NEW p \in Ports PROVE Owns(b, p)' <=> Owns(b, p)
      BY <1>1 DEF AsmInv, Consistent, OwnersConsistent, pmVars
    <2>1. CASE b = a
      BY <1>1, <1>2, <1>5, <2>1 DEF Owns
    <2>2. CASE b # a
      BY <1>1, <1>2, <1>5, <2>2 DEF Owns
    <2>. QED
      BY <2>1, <2>2
  <1>11. ListenersConsistent'
    BY <1>1, <1>2, SMT DEF AsmInv, Consistent, AsmTypes, ListenersConsistent
  <1>. QED
    BY <1>6, <1>7, <1>8, <1>9, <1>10, <1>11 DEF Consistent

\* The server was stopped first: nothing to clean up.
LEMMA CleanupSkipInv ==
    ASSUME AsmInv, NEW i \in Infos, CleanupSkip(i)
    PROVE  Consistent'
  <1>1. /\ serve[i] = "failed" /\ servers[info[i].agent] # i
        /\ UNCHANGED <<pmVars, servers, mu, info, listening, shut, call>>
        /\ serve' = [serve EXCEPT ![i] = "none"]
    BY DEF CleanupSkip
  <1>2. /\ serve'[i] = "none" /\ i # NoServer
        /\ \A j \in Infos : j # i => serve'[j] = serve[j]
        /\ \A a \in Agents : servers[a] # i
    BY <1>1, ManagerAssumption DEF AsmInv, Consistent, AsmTypes, ServersConsistent, Infos
  <1>3. (Starting' <=> Starting) /\ (Stopping' <=> Stopping)
    BY <1>1 DEF Starting, Stopping
  <1>4. AsmTypes' /\ CallConsistent'
    BY <1>1, <1>3 DEF AsmInv, Consistent, AsmTypes, CallConsistent
  <1>5. LockConsistent' /\ HandConsistent'
    BY <1>1, <1>2, <1>3, SMT DEF AsmInv, Consistent, LockConsistent, HandConsistent, pmVars
  <1>6. ServersConsistent'
    BY <1>1, <1>2, <1>3, SMT DEF AsmInv, Consistent, AsmTypes, ServersConsistent
  <1>7. OwnersConsistent'
    BY <1>1, <1>2, SMT DEF AsmInv, Consistent, OwnersConsistent, Owns, pmVars
  <1>8. ListenersConsistent'
    BY <1>1, <1>2 DEF AsmInv, Consistent, AsmTypes, ListenersConsistent
  <1>. QED
    BY <1>4, <1>5, <1>6, <1>7, <1>8 DEF Consistent

\* A goroutine that cleans up holds asm.mu: it is the only one that does, and no
\* start is under way.
LEMMA CleanerAlone ==
    ASSUME AsmInv, NEW i \in Infos, serve[i] \in {"forget", "return"}
    PROVE  /\ mu = i /\ i # Caller /\ i # NoServer /\ i # Free /\ ~Starting
           /\ \A j \in Infos : j # i => serve[j] \notin {"forget", "return"}
  BY ManagerAssumption DEF AsmInv, Consistent, LockConsistent, Infos

\* The cleanup forgets the port: nobody else owns it for the agent.
LEMMA CleanupForgetInv ==
    ASSUME AsmInv, NEW i \in Infos, CleanupForget(i)
    PROVE  Consistent'
  <1>. DEFINE a == info[i].agent
              p == info[i].port
  <1>1. /\ serve[i] = "forget" /\ a \in Agents /\ p \in Ports /\ servers[a] = NoServer
        /\ Stopping /\ call.pc # "return" => call.agent # a
        /\ serve' = [serve EXCEPT ![i] = "return"]
        /\ UNCHANGED <<servers, mu, info, listening, shut, call>>
    BY DEF CleanupForget, AsmInv, Consistent, ServersConsistent
  <1>2. /\ serve'[i] = "return" /\ i \notin listening
        /\ \A j \in Infos : j # i => serve'[j] = serve[j]
        /\ \A b \in Agents : servers[b] # i
    BY <1>1, CleanerAlone, SMT
       DEF AsmInv, Consistent, AsmTypes, ServersConsistent, ListenersConsistent
  <1>3. (Starting' <=> Starting) /\ (Stopping' <=> Stopping)
    BY <1>1 DEF Starting, Stopping
  <1>4. allocatedPorts[p] = a
    BY <1>1, SMT DEF AsmInv, Consistent, OwnersConsistent, Owns
  <1>5. /\ allocatedPorts' = [allocatedPorts EXCEPT ![p] = NoAgent]
        /\ hand' = [hand EXCEPT ![i] = ReleaseHand(p)]
    BY <1>1, <1>4, Nulls DEF CleanupForget, ReleaseForget, ReleaseHand
  <1>6. AsmTypes' /\ CallConsistent'
    BY <1>1, <1>3 DEF AsmInv, Consistent, AsmTypes, CallConsistent
  <1>7. LockConsistent' /\ ListenersConsistent'
    BY <1>1, <1>2, <1>3, SMT DEF AsmInv, Consistent, AsmTypes, LockConsistent, ListenersConsistent
  <1>8. HandConsistent'
    <2>1. /\ hand'[i] = ReleaseHand(p) /\ hand'[Caller] = hand[Caller]
          /\ \A j \in Infos : j # i => hand'[j] = hand[j]
      BY <1>1, <1>5, CleanerAlone, ManagerAssumption DEF AsmInv, PMTypeOK, Infos
    <2>. QED
      BY <1>1, <1>2, <2>1, SMT DEF AsmInv, Consistent, HandConsistent
  <1>9. ServersConsistent'
    BY <1>1, <1>2, <1>3, SMT DEF AsmInv, Consistent, AsmTypes, ServersConsistent
  <1>10. OwnersConsistent'
    <2>. SUFFICES ASSUME NEW b \in Agents, NEW q \in Ports
                  PROVE  allocatedPorts'[q] = b <=> Owns(b, q)'
      BY DEF OwnersConsistent
    <2>1. \A j \in Infos : j # i => serve[j] # "forget"
      BY <1>1, CleanerAlone
    <2>2. ~(call.agent = a /\ call.pc \in {"listen", "shutdown", "close", "forget"})
      BY <1>1, CleanerAlone, CallAt DEF AsmInv
    <2>3. Owns(b, q)' <=> Owns(b, q) /\ ~(b = a /\ q = p)
      <3>1. CASE b = a
        BY <1>1, <1>2, <2>1, <2>2, <3>1 DEF Owns
      <3>2. CASE b # a
        BY <1>1, <1>2, <2>1, <3>2 DEF Owns
      <3>. QED
        BY <3>1, <3>2
    <2>4. allocatedPorts[q] = b <=> Owns(b, q)
      BY DEF AsmInv, Consistent, OwnersConsistent
    <2>. QED
      BY <1>1, <1>4, <1>5, <2>3, <2>4, Nulls DEF AsmInv, PMTypeOK
  <1>. QED
    BY <1>6, <1>7, <1>8, <1>9, <1>10 DEF Consistent

\* The cleanup sends the port back and unlocks asm.mu.
LEMMA CleanupReturnInv ==
    ASSUME AsmInv, NEW i \in Infos, CleanupReturn(i)
    PROVE  Consistent'
  <1>1. /\ serve[i] = "return" /\ hand[i].op = "release" /\ mu' = Free
        /\ serve' = [serve EXCEPT ![i] = "none"]
        /\ UNCHANGED <<servers, info, listening, shut, call>>
    <2>1. serve[i] = "return"
      BY DEF CleanupReturn
    <2>2. hand[i] = ReleaseHand(info[i].port)
      BY <2>1 DEF AsmInv, Consistent, HandConsistent
    <2>. QED
      BY <2>1, <2>2, SMT DEF CleanupReturn, ReleaseHand
  <1>2. /\ serve'[i] = "none" /\ i \notin listening
        /\ \A j \in Infos : j # i => serve'[j] = serve[j]
        /\ \A b \in Agents : servers[b] # i
    BY <1>1, CleanerAlone, SMT
       DEF AsmInv, Consistent, AsmTypes, ServersConsistent, ListenersConsistent
  <1>3. ~Starting' /\ (Stopping' <=> Stopping) /\ ~Starting
    BY <1>1, CleanerAlone DEF Starting, Stopping
  <1>4. /\ hand'[i] = NoHand /\ hand'[Caller] = hand[Caller]
        /\ \A j \in Infos : j # i => hand'[j] = hand[j]
        /\ UNCHANGED allocatedPorts
    BY <1>1, CleanerAlone, ManagerAssumption
       DEF CleanupReturn, ReleaseFinish, ReleaseReturn, AsmInv, PMTypeOK, Infos
  <1>5. AsmTypes' /\ CallConsistent'
    BY <1>1, <1>3 DEF AsmInv, Consistent, AsmTypes, CallConsistent
  <1>6. LockConsistent'
    BY <1>1, <1>2, <1>3, CleanerAlone, ManagerAssumption DEF LockConsistent, Infos
  <1>7. HandConsistent'
    BY <1>1, <1>2, <1>4 DEF AsmInv, Consistent, HandConsistent
  <1>8. ServersConsistent'
    BY <1>1, <1>2, <1>3, SMT DEF AsmInv, Consistent, AsmTypes, ServersConsistent
  <1>9. OwnersConsistent'
    BY <1>1, <1>2, <1>4, SMT DEF AsmInv, Consistent, OwnersConsistent, Owns
  <1>10. ListenersConsistent'
    BY <1>1, <1>2 DEF AsmInv, Consistent, AsmTypes, ListenersConsistent
  <1>. QED
    BY <1>5, <1>6, <1>7, <1>8, <1>9, <1>10 DEF Consistent

-----------------------------------------------------------------------------
\* Every step of the manager is a step of the pool or leaves the pool alone.
LEMMA PoolStep ==
    ASSUME AsmInv, [Next]_vars
    PROVE  [PMNext]_pmVars
  <1>. USE DEF pmVars
  <1>1. Caller \in Goroutines /\ Infos \subseteq Goroutines
    BY ManagerAssumption DEF Infos
  <1>2. ASSUME NEW g \in Goroutines, ReleaseFinish(g) PROVE [PMNext]_pmVars
    BY <1>2 DEF ReleaseFinish, PMNext
  <1>3. CASE StartAllocate
    BY <1>1, <1>3, CallAt DEF StartAllocate, AsmInv, PMNext
  <1>4. CASE StartRecord
    BY <1>1, <1>4 DEF StartRecord, PMNext
  <1>5. CASE CallForget
    <2>1. call.port \in Ports
      BY <1>5, CallAt DEF CallForget, AsmInv, Consistent, CallConsistent
    <2>. QED
      BY <1>1, <1>5, <2>1 DEF CallForget, PMNext
  <1>6. CASE StartRetry \/ StopReturn
    BY <1>1, <1>2, <1>6 DEF StartRetry, StopReturn
  <1>7. ASSUME NEW i \in Infos, ServeStep(i) \/ ServeFails(i) PROVE [PMNext]_pmVars
    <2>1. CASE CleanupForget(i)
      <3>1. info[i].port \in Ports
        BY <2>1 DEF CleanupForget, AsmInv, Consistent, ServersConsistent
      <3>. QED
        BY <1>1, <2>1, <3>1 DEF CleanupForget, PMNext
    <2>2. CASE CleanupReturn(i)
      BY <1>1, <1>2, <2>2 DEF CleanupReturn
    <2>. QED
      BY <1>7, <2>1, <2>2
         DEF ServeStep, ServeFails, ServeEnter, ServeClosed, CleanupTake, CleanupSkip
  <1>8. CASE \/ \E a \in Agents : StartCall(a) \/ StopCall(a)
             \/ ShutdownCall \/ StartExists \/ StartLock \/ StartNoPort
             \/ (\E i \in Infos : StartBound(i)) \/ StartBindFails
             \/ StopMissing \/ StopTake \/ StopShutdown \/ StopClose
             \/ UNCHANGED vars
    BY <1>8 DEF StartCall, StopCall, ShutdownCall, StartExists, StartLock, StartNoPort,
                StartBound, StartBindFails, StopMissing, StopTake, StopShutdown, StopClose, vars
  <1>. QED
    BY <1>3, <1>4, <1>5, <1>6, <1>7, <1>8 DEF Next, CallStep

\* The inductive invariant is preserved.
LEMMA AsmInvStep ==
    ASSUME AsmInv, [Next]_vars
    PROVE  AsmInv'
  <1>1. PMTypeOK' /\ PortsConserved'
    BY PoolStep, PMTypeStep, PortsConservedStep DEF AsmInv
  <1>2. CASE UNCHANGED vars
    <2>1. UNCHANGED <<hand, allocatedPorts, servers, mu, info, listening, shut, serve, call>>
      BY <1>2 DEF vars, pmVars, asmVars
    <2>2. Consistent
      BY DEF AsmInv
    <2>3. AsmTypes' /\ LockConsistent' /\ HandConsistent' /\ ListenersConsistent'
      BY <2>1, <2>2
         DEF Consistent, AsmTypes, LockConsistent, HandConsistent, ListenersConsistent, Starting
    <2>4. CallConsistent' /\ ServersConsistent'
      BY <2>1, <2>2 DEF Consistent, CallConsistent, ServersConsistent, Starting, Stopping
    <2>5. OwnersConsistent'
      BY <2>1, <2>2, SMT DEF Consistent, OwnersConsistent, Owns
    <2>. QED
      BY <1>1, <2>3, <2>4, <2>5 DEF AsmInv, Consistent
  <1>3. ASSUME NEW i \in Infos, ServeStep(i) \/ ServeFails(i) PROVE Consistent'
    BY <1>3, ServesInv, CleanupTakeInv, CleanupSkipInv, CleanupForgetInv, CleanupReturnInv
       DEF ServeStep
  <1>4. ASSUME CallStep PROVE Consistent'
    <2>1. CASE StartExists \/ StartNoPort \/ StopMissing
      BY <2>1, CallBeginsInv
    <2>2. CASE StartLock \/ StartAllocate \/ StartRecord \/ StartBindFails \/ StartRetry
      BY <2>2, StartLockInv, StartAllocateInv, StartRecordInv, StartBindFailsInv,
         StartRetryInv
    <2>3. CASE \E i \in Infos : StartBound(i)
      BY <2>3, StartBoundInv
    <2>4. CASE StopTake \/ StopShutdown \/ StopClose \/ CallForget \/ StopReturn
      BY <2>4, StopTakeInv, StopClosesInv, CallForgetInv, StopReturnInv
    <2>. QED
      BY <1>4, <2>1, <2>2, <2>3, <2>4 DEF CallStep
  <1>. QED
    BY <1>1, <1>2, <1>3, <1>4, CallBeginsInv DEF Next, AsmInv

\* NewAgentServerManager: no server, every port in the pool.
LEMMA AsmInvInit ==
    ASSUME Init
    PROVE  AsmInv
  <1>1. PMTypeOK /\ PortsConserved
    BY PMTypeInit, PortsConservedInit DEF Init
  <1>. USE DEF Init, PMInit
  <1>2. call.op = "none" /\ call.pc = "idle" /\ ~Starting /\ ~Stopping
    BY NoCallFields DEF Starting, Stopping
  <1>3. AsmTypes
    BY NoCallFields, ManagerAssumption DEF AsmTypes, NoInfo
  <1>4. CallConsistent /\ LockConsistent
    BY <1>2, ManagerAssumption DEF CallConsistent, LockConsistent, Infos
  <1>5. HandConsistent
    BY <1>2, ManagerAssumption DEF HandConsistent, Infos
  <1>6. ServersConsistent /\ ListenersConsistent
    BY <1>2 DEF ServersConsistent, ListenersConsistent
  <1>7. OwnersConsistent
    BY <1>2, Nulls DEF OwnersConsistent, Owns
  <1>. QED
    BY <1>1, <1>3, <1>4, <1>5, <1>6, <1>7 DEF AsmInv, Consistent

\* The inductive invariant holds in every behaviour of the manager.
THEOREM AsmInvariance == Spec => []AsmInv
  <1>. QED
    BY AsmInvInit, AsmInvStep, PTL DEF Spec

-----------------------------------------------------------------------------
\* Type correctness: the Go types of the manager and of its pool.
THEOREM TypeCorrect == Spec => []TypeOK
  <1>1. AsmInv => TypeOK
    BY DEF AsmInv, Consistent, AsmTypes, TypeOK
  <1>. QED
    BY <1>1, AsmInvariance, PTL

\* The manager uses its pool only as PMSpec allows.
LEMMA UsesPortManager == Spec => PMSpec
  <1>1. Init => PMInit
    BY DEF Init
  <1>. QED
    BY <1>1, PoolStep, AsmInvariance, PTL DEF Spec, PMSpec

\* So no start, stop, shutdown or cleanup loses a port or uses one twice.
THEOREM ManagerConservesPorts == Spec => []PortsConserved
  BY UsesPortManager, PortConservation, PTL

\* And none of them blocks in Release, with or without asm.mu held.
THEOREM ManagerNeverBlocks == Spec => []ReturnNeverBlocks
  BY UsesPortManager, ReturnNeverBlocksHolds, PTL

\* An agent owns at most one port.
LEMMA OwnsOne ==
    ASSUME AsmInv, NEW a \in Agents, NEW p \in Ports, NEW q \in Ports, Owns(a, p), Owns(a, q)
    PROVE  p = q
  <1>1. \A i \in Infos : serve[i] = "forget" =>
           /\ mu = i /\ ~Starting
           /\ info[i].agent = a => servers[a] = NoServer
           /\ \A j \in Infos : serve[j] = "forget" => j = i
    BY CleanerAlone, SMT DEF AsmInv, Consistent, ServersConsistent
  <1>2. call.pc \in {"listen", "shutdown", "close", "forget"} /\ call.agent = a =>
           /\ servers[a] = NoServer
           /\ \A i \in Infos : serve[i] = "forget" => info[i].agent # a
    BY <1>1, CallAt DEF AsmInv, Consistent, CallConsistent, ServersConsistent
  <1>. QED
    BY <1>1, <1>2, SMT DEF Owns

\* An agent never has two ports.
THEOREM OnePort == Spec => []OnePortPerAgent
  <1>1. ASSUME AsmInv PROVE OnePortPerAgent
    <2>. SUFFICES ASSUME NEW p \in Ports, NEW q \in Ports,
                         allocatedPorts[p] = allocatedPorts[q], allocatedPorts[p] # NoAgent
                  PROVE  p = q
      BY DEF OnePortPerAgent
    <2>1. allocatedPorts[p] \in Agents
      BY <1>1 DEF AsmInv, PMTypeOK
    <2>2. Owns(allocatedPorts[p], p) /\ Owns(allocatedPorts[p], q)
      BY <1>1, <2>1 DEF AsmInv, Consistent, OwnersConsistent
    <2>. QED
      BY <1>1, <2>1, <2>2, OwnsOne
  <1>. QED
    BY <1>1, AsmInvariance, PTL

\* A port that this process listens on belongs to the listener's agent.
THEOREM ListenersOwn == Spec => []ListenersOwnTheirPort
  <1>1. ASSUME AsmInv PROVE ListenersOwnTheirPort
    <2>. SUFFICES ASSUME NEW i \in listening
                  PROVE  allocatedPorts[info[i].port] = info[i].agent
      BY DEF ListenersOwnTheirPort
    <2>1. i \in Infos /\ info[i].agent \in Agents /\ info[i].port \in Ports
      BY <1>1 DEF AsmInv, Consistent, AsmTypes, ListenersConsistent, ServersConsistent
    <2>2. i # NoServer
      BY <2>1, ManagerAssumption DEF Infos
    <2>3. Owns(info[i].agent, info[i].port)
      <3>1. CASE servers[info[i].agent] = i
        BY <2>2, <3>1 DEF Owns
      <3>2. CASE call.pc \in {"shutdown", "close"} /\ call.info = i
        BY <1>1, <3>2, CallAt DEF Owns, AsmInv, Consistent, CallConsistent
      <3>. QED
        BY <1>1, <3>1, <3>2, ZenonT(30) DEF AsmInv, Consistent, ListenersConsistent
    <2>. QED
      BY <1>1, <2>1, <2>3 DEF AsmInv, Consistent, OwnersConsistent
  <1>. QED
    BY <1>1, AsmInvariance, PTL

\* Between calls exactly the ports of the servers in the map are allocated.
THEOREM PortsNeverLeak == Spec => []NoPortLeak
  <1>1. ASSUME AsmInv, Quiet PROVE GetAllocations = ServedPorts
    <2>1. call.pc = "idle" /\ \A i \in Infos : serve[i] # "forget"
      BY <1>1, ManagerAssumption
         DEF Quiet, AsmInv, Consistent, CallConsistent, LockConsistent, Infos
    <2>2. \A a \in Agents, p \in Ports :
             allocatedPorts[p] = a <=> servers[a] # NoServer /\ info[servers[a]].port = p
      BY <1>1, <2>1, SMT DEF AsmInv, Consistent, OwnersConsistent, Owns
    <2>3. \A p \in Ports : allocatedPorts[p] # NoAgent <=> allocatedPorts[p] \in Agents
      BY <1>1, Nulls DEF AsmInv, PMTypeOK
    <2>4. \A a \in Agents : servers[a] # NoServer => info[servers[a]].port \in Ports
      BY <1>1, SMT DEF AsmInv, Consistent, AsmTypes, ServersConsistent
    <2>5. ASSUME NEW p \in GetAllocations PROVE p \in ServedPorts
      <3>1. p \in Ports /\ allocatedPorts[p] \in Agents
        BY <2>3, <2>5 DEF GetAllocations
      <3>2. servers[allocatedPorts[p]] # NoServer /\ info[servers[allocatedPorts[p]]].port = p
        BY <2>2, <3>1
      <3>. QED
        BY <3>1, <3>2 DEF ServedPorts
    <2>6. ASSUME NEW a \in Agents, servers[a] # NoServer
          PROVE  info[servers[a]].port \in GetAllocations
      BY <2>2, <2>3, <2>4, <2>6, SMT DEF GetAllocations
    <2>. QED
      BY <2>5, <2>6 DEF ServedPorts
  <1>. QED
    BY <1>1, AsmInvariance, PTL DEF NoPortLeak

-----------------------------------------------------------------------------
\* The order of the bind retries.  Only StartAgentServer's own goroutine touches
\* the pool while it holds asm.mu.
LEMMA PoolIsStill ==
    ASSUME AsmInv, Starting, NEW i \in Infos, ServeStep(i) \/ ServeFails(i)
    PROVE  UNCHANGED <<availablePorts, call>>
  <1>1. serve[i] \notin {"forget", "return"}
    BY CleanerAlone
  <1>. QED
    BY <1>1 DEF ServeStep, ServeFails, ServeEnter, ServeClosed, CleanupTake, CleanupSkip,
                CleanupForget, CleanupReturn, pmVars

\* The next port of the pool is taken: the failed ports are still at its end.
LEMMA RetryAllocates ==
    ASSUME AsmInv, RetriesInOrder, StartAllocate
    PROVE  RetriesInOrder'
  <1>. DEFINE s == availablePorts
  <1>1. /\ Starting /\ s \in Seq(Ports) /\ s # <<>> /\ s' = Tail(s)
        /\ call' = [call EXCEPT !.pc = "record", !.port = Head(s)]
    BY CallAt DEF StartAllocate, AllocateReceive, AsmInv, PMTypeOK
  <1>2. /\ call'.pc = "record" /\ call'.port = Head(s) /\ call'.tried = call.tried
    BY <1>1 DEF AsmInv, Consistent, AsmTypes, CallRecord
  <1>3. /\ Head(s) = s[1] /\ Len(s) \in Nat \ {0} /\ Len(s') = Len(s) - 1
        /\ \A k \in 1..Len(s') : s'[k] = s[k + 1] /\ k + 1 \in 1..Len(s)
    BY <1>1, TailFacts, SMT
  <1>. HIDE DEF s
  <1>4. \A i, j \in 1..Len(s) : i <= j /\ s[i] \in call.tried => s[j] \in call.tried
    BY <1>1 DEF RetriesInOrder, s
  <1>5. \A i, j \in 1..Len(s') : i <= j /\ s'[i] \in call.tried => s'[j] \in call.tried
    <2>. SUFFICES ASSUME NEW i \in 1..Len(s'), NEW j \in 1..Len(s'), i <= j,
                         s'[i] \in call.tried
                  PROVE  s'[j] \in call.tried
      OBVIOUS
    <2>1. i + 1 \in 1..Len(s) /\ j + 1 \in 1..Len(s) /\ i + 1 <= j + 1
      BY <1>3, SMT
    <2>. QED
      BY <1>3, <1>4, <2>1
  <1>6. ASSUME Head(s) \in call.tried, NEW k \in 1..Len(s') PROVE s'[k] \in call.tried
    <2>1. 1 \in 1..Len(s) /\ k + 1 \in 1..Len(s) /\ 1 <= k + 1
      BY <1>3, SMT
    <2>. QED
      BY <1>3, <1>4, <1>6, <2>1
  <1>. QED
    BY <1>2, <1>5, <1>6 DEF RetriesInOrder, InPool, s

\* A port that could not be bound goes to the end of the pool.
LEMMA RetryReturns ==
    ASSUME AsmInv, RetriesInOrder, StartRetry
    PROVE  RetriesInOrder'
  <1>. DEFINE s == availablePorts
  <1>1. CASE call.attempt < maxPortBindRetries
    <2>1. /\ Starting /\ call.pc = "return" /\ hand[Caller] = ReleaseHand(call.port)
          /\ call.port \in Ports /\ call.port \in call.tried
      BY DEF StartRetry, Starting, AsmInv, Consistent, HandConsistent, CallConsistent,
             RetriesInOrder
    <2>2. s \in Seq(Ports) /\ s' = Append(s, call.port)
      BY <2>1, SMT DEF StartRetry, ReleaseFinish, ReleaseReturn, ReleaseHand, AsmInv, PMTypeOK
    <2>3. call' = [call EXCEPT !.pc = "allocate", !.port = NoPort, !.attempt = @ + 1]
      BY <1>1 DEF StartRetry
    <2>4. call'.pc = "allocate" /\ call'.tried = call.tried
      BY <2>3 DEF AsmInv, Consistent, AsmTypes, CallRecord
    <2>5. /\ Len(s) \in Nat /\ Len(s') = Len(s) + 1 /\ s'[Len(s) + 1] = call.port
          /\ \A k \in 1..Len(s) : s'[k] = s[k]
      BY <2>1, <2>2, AppendFacts, SMT
    <2>. HIDE DEF s
    <2>6. \A i, j \in 1..Len(s) : i <= j /\ s[i] \in call.tried => s[j] \in call.tried
      BY <2>1 DEF RetriesInOrder, s
    <2>7. \A i, j \in 1..Len(s') : i <= j /\ s'[i] \in call.tried => s'[j] \in call.tried
      <3>. SUFFICES ASSUME NEW i \in 1..Len(s'), NEW j \in 1..Len(s'), i <= j,
                           s'[i] \in call.tried
                    PROVE  s'[j] \in call.tried
        OBVIOUS
      <3>1. CASE j = Len(s) + 1
        BY <2>1, <2>5, <3>1
      <3>2. CASE j # Len(s) + 1
        <4>1. i \in 1..Len(s) /\ j \in 1..Len(s)
          BY <2>5, <3>2, SMT
        <4>. QED
          BY <2>5, <2>6, <4>1
      <3>. QED
        BY <3>1, <3>2
    <2>. QED
      BY <2>4, <2>7 DEF RetriesInOrder, s
  <1>2. CASE ~(call.attempt < maxPortBindRetries)
    <2>1. call' = NoCall
      BY <1>2 DEF StartRetry
    <2>. QED
      BY <2>1, NoCallFields DEF RetriesInOrder, Starting
  <1>. QED
    BY <1>1, <1>2

\* The order is kept by every step.
LEMMA RetriesInOrderStep ==
    ASSUME AsmInv, RetriesInOrder, [Next]_vars
    PROVE  RetriesInOrder'
  <1>. USE DEF pmVars
  <1>1. CASE \/ \E a \in Agents : StartCall(a) \/ StopCall(a)
             \/ ShutdownCall \/ StopMissing \/ StopReturn
    <2>1. \/ call' = NoCall
          \/ \E o \in {"start", "stop", "shutdown"}, a \in Agents, q \in SUBSET Agents :
                call' = NewCall(o, a, q)
      BY <1>1, NextCall DEF AsmInv
    <2>. QED
      BY <2>1, NewCallFields, NoCallFields, SMT DEF RetriesInOrder, Starting
  <1>2. CASE StartExists \/ StartNoPort \/ \E i \in Infos : StartBound(i)
    <2>1. call' = NoCall
      BY <1>2 DEF StartExists, StartNoPort, StartBound
    <2>. QED
      BY <2>1, NoCallFields DEF RetriesInOrder, Starting
  <1>3. CASE StartLock
    <2>1. call'.pc = "allocate" /\ call'.tried = {}
      BY <1>3 DEF StartLock, RetriesInOrder, AsmInv, Consistent, AsmTypes, CallRecord
    <2>. QED
      BY <2>1 DEF RetriesInOrder
  <1>4. CASE StartRecord
    <2>1. /\ Starting /\ call.pc = "record" /\ call'.pc = "listen"
          /\ call'.tried = call.tried /\ call'.port = call.port /\ UNCHANGED availablePorts
      BY <1>4, CallAt DEF StartRecord, AllocateRecord, AsmInv, Consistent, AsmTypes, CallRecord
    <2>. QED
      BY <2>1 DEF RetriesInOrder, InPool
  <1>5. CASE StartBindFails
    <2>1. /\ Starting /\ call.pc = "listen" /\ call'.pc = "forget" /\ call'.port = call.port
          /\ call'.tried = call.tried \cup {call.port} /\ UNCHANGED availablePorts
      BY <1>5, CallAt DEF StartBindFails, AsmInv, Consistent, AsmTypes, CallRecord
    <2>2. call.agent \in Agents /\ call.port \in Ports
      BY <2>1, CallAt DEF AsmInv, Consistent, CallConsistent
    <2>3. allocatedPorts[call.port] = call.agent
      BY <2>1, <2>2, SMT DEF AsmInv, Consistent, OwnersConsistent, Owns
    <2>4. \A k \in 1..Len(availablePorts) : availablePorts[k] # call.port
      BY <2>2, <2>3, Nulls DEF AsmInv, PortsConserved, NoPortTwice, InPool
    <2>. QED
      BY <2>1, <2>4 DEF RetriesInOrder
  <1>6. CASE StopTake \/ StopShutdown \/ StopClose
    <2>1. ~Starting /\ call.op \in {"stop", "shutdown"}
      BY <1>6, CallAt
         DEF StopTake, StopShutdown, StopClose, Starting, Stopping, AsmInv, Consistent
    <2>2. call'.op = call.op /\ call'.pc # "lock"
      BY <1>6, ZenonT(30)
      DEF StopTake, StopShutdown, StopClose, AsmInv, Consistent, AsmTypes, CallRecord
    <2>. QED
      BY <2>1, <2>2 DEF RetriesInOrder, Starting
  <1>7. CASE CallForget
    <2>1. /\ call.pc = "forget" /\ call'.pc = "return" /\ call'.op = call.op
          /\ call'.tried = call.tried /\ call'.port = call.port /\ UNCHANGED availablePorts
      BY <1>7 DEF CallForget, ReleaseForget, AsmInv, Consistent, AsmTypes, CallRecord
    <2>. QED
      BY <2>1 DEF RetriesInOrder, Starting
  <1>8. ASSUME NEW i \in Infos, ServeStep(i) \/ ServeFails(i) PROVE RetriesInOrder'
    <2>1. UNCHANGED call
      BY <1>8 DEF ServeStep, ServeFails, ServeEnter, ServeClosed, CleanupTake, CleanupSkip,
                  CleanupForget, CleanupReturn
    <2>2. Starting => UNCHANGED availablePorts
      BY <1>8, PoolIsStill
    <2>. QED
      BY <2>1, <2>2 DEF RetriesInOrder, Starting, InPool
  <1>9. CASE UNCHANGED vars
    BY <1>9 DEF vars, asmVars, RetriesInOrder, Starting, InPool
  <1>. QED
    BY <1>1, <1>2, <1>3, <1>4, <1>5, <1>6, <1>7, <1>8, <1>9, RetryAllocates, RetryReturns
       DEF Next, CallStep

\* A port whose bind failed is tried again only when every free port has failed.
THEOREM RetriesWalkThePool == Spec => []RetryReusesOnlyWhenExhausted
  <1>1. Init => RetriesInOrder
    BY NoCallFields DEF Init, RetriesInOrder, Starting
  <1>2. ASSUME AsmInv, RetriesInOrder PROVE RetryReusesOnlyWhenExhausted
    BY <1>2, CallAt DEF AsmInv, RetriesInOrder, RetryReusesOnlyWhenExhausted
  <1>. QED
    BY <1>1, <1>2, AsmInvariance, RetriesInOrderStep, PTL DEF Spec

-----------------------------------------------------------------------------
\* Shutdown goes on, or returns, with the agents of its snapshot that are left.
LEMMA ShutdownGoesOn ==
    ASSUME AsmInv, ShutdownSees, StopMissing \/ StopReturn
    PROVE  /\ ShutdownSees'
           /\ call.op = "shutdown" /\ call'.op = "none" => \A a \in Agents : servers'[a] = NoServer
  <1>1. /\ call.op \in {"stop", "shutdown"} /\ UNCHANGED servers /\ AfterStop
        /\ call.pc = "lock" => servers[call.agent] = NoServer
    BY DEF StopMissing, StopReturn
  <1>2. call.op = "shutdown" => \A a \in Agents : servers[a] # NoServer => a \in call.queue
    BY <1>1 DEF ShutdownSees
  <1>3. CASE call.queue = {}
    <2>1. call' = NoCall
      BY <1>1, <1>3 DEF AfterStop
    <2>. QED
      BY <1>1, <1>2, <1>3, <2>1, NoCallFields DEF ShutdownSees
  <1>4. CASE call.queue # {}
    <2>1. PICK a \in call.queue : call' = NewCall("shutdown", a, call.queue \ {a})
      BY <1>1, <1>4 DEF AfterStop
    <2>2. a \in Agents /\ call.queue \in SUBSET Agents /\ call.queue \ {a} \in SUBSET Agents
      BY <2>1 DEF AsmInv, Consistent, AsmTypes, CallRecord
    <2>3. /\ call'.op = "shutdown" /\ call'.pc = "lock" /\ call'.agent = a
          /\ call'.queue = call.queue \ {a}
      BY <2>1, <2>2, NewCallFields, SMT
    <2>4. call.op = "shutdown"
      BY <1>1, <1>4 DEF ShutdownSees
    <2>. QED
      BY <1>1, <1>2, <2>3, <2>4 DEF ShutdownSees
  <1>. QED
    BY <1>3, <1>4

\* ShutdownSees is inductive, and a shutdown returns only when it sees no server.
LEMMA ShutdownStep ==
    ASSUME AsmInv, ShutdownSees, [Next]_vars
    PROVE  /\ ShutdownSees'
           /\ call.op = "shutdown" /\ call'.op = "none" => \A a \in Agents : servers'[a] = NoServer
  <1>1. CASE StopMissing \/ StopReturn
    BY <1>1, ShutdownGoesOn
  <1>2. ASSUME NEW a \in Agents, StartCall(a) \/ StopCall(a)
        PROVE  call.op = "none" /\ call'.op # "shutdown" /\ call'.queue = {}
    BY <1>2, NewCallFields, SMT DEF StartCall, StopCall
  <1>3. CASE ShutdownCall
    <2>1. /\ call.op = "none" /\ UNCHANGED servers
          /\ \E a \in Agents :
                call' = NewCall("shutdown", a, {b \in Agents \ {a} : servers[b] # NoServer})
      BY <1>3 DEF ShutdownCall
    <2>2. PICK a \in Agents :
             call' = NewCall("shutdown", a, {b \in Agents \ {a} : servers[b] # NoServer})
      BY <2>1
    <2>3. {b \in Agents \ {a} : servers[b] # NoServer} \in SUBSET Agents
      OBVIOUS
    <2>4. /\ call'.op = "shutdown" /\ call'.pc = "lock" /\ call'.agent = a
          /\ call'.queue = {b \in Agents \ {a} : servers[b] # NoServer}
      BY <2>2, <2>3, NewCallFields, SMT
    <2>. QED
      BY <2>1, <2>4 DEF ShutdownSees
  <1>4. CASE StartExists \/ StartNoPort \/ (\E i \in Infos : StartBound(i))
             \/ StartLock \/ StartAllocate \/ StartRecord \/ StartBindFails \/ StartRetry
    <2>1. call.op = "start" /\ call.queue = {}
      BY <1>4, CallAt
         DEF StartExists, StartNoPort, StartBound, StartLock, StartAllocate, StartRecord,
             StartBindFails, StartRetry, Starting, AsmInv, ShutdownSees
    <2>2. call' = NoCall \/ (call'.op = "start" /\ call'.queue = {})
      BY <1>4, <2>1, ZenonT(30)
         DEF StartExists, StartNoPort, StartBound, StartLock, StartAllocate, StartRecord,
             StartBindFails, StartRetry, AsmInv, Consistent, AsmTypes, CallRecord
    <2>. QED
      BY <2>1, <2>2, NoCallFields DEF ShutdownSees
  <1>5. CASE StopTake \/ StopShutdown \/ StopClose \/ CallForget
    <2>1. call'.op = call.op /\ call'.queue = call.queue /\ call'.agent = call.agent
      BY <1>5, ZenonT(30)
      DEF StopTake, StopShutdown, StopClose, CallForget, AsmInv, Consistent, AsmTypes,
          CallRecord
    <2>2. /\ \A b \in Agents : servers'[b] # NoServer => servers[b] # NoServer
          /\ call.pc = "lock" => servers'[call.agent] = NoServer
      BY <1>5 DEF StopTake, StopShutdown, StopClose, CallForget, AsmInv, Consistent, AsmTypes,
                  CallConsistent
    <2>3. call.op # "none"
      BY <1>5 DEF StopTake, StopShutdown, StopClose, CallForget, AsmInv, Consistent,
                  CallConsistent
    <2>. QED
      BY <2>1, <2>2, <2>3 DEF ShutdownSees
  <1>6. ASSUME \/ \E i \in Infos : ServeStep(i) \/ ServeFails(i)
               \/ UNCHANGED vars
        PROVE  /\ UNCHANGED call
               /\ \A b \in Agents : servers'[b] # NoServer => servers[b] # NoServer
    BY <1>6, ZenonT(30)
    DEF ServeStep, ServeFails, ServeEnter, ServeClosed, CleanupTake, CleanupSkip,
        CleanupForget, CleanupReturn, vars, asmVars, AsmInv, Consistent, AsmTypes
  <1>7. CASE (\E i \in Infos : ServeStep(i) \/ ServeFails(i)) \/ UNCHANGED vars
    BY <1>6, <1>7, ZenonT(30) DEF ShutdownSees
  <1>8. CASE \E a \in Agents : StartCall(a) \/ StopCall(a)
    BY <1>2, <1>8 DEF ShutdownSees
  <1>. QED
    BY <1>1, <1>3, <1>4, <1>5, <1>7, <1>8 DEF Next, CallStep

\* When Shutdown returns, the map is empty.
THEOREM ShutdownEmptiesTheMap == Spec => ShutdownLeavesNoServer
  <1>1. Init => ShutdownSees
    BY NoCallFields DEF Init, ShutdownSees
  <1>2. ASSUME AsmInv, ShutdownSees, [Next]_vars
        PROVE  [call.op = "shutdown" /\ call'.op = "none"
                   => \A a \in Agents : servers'[a] = NoServer]_vars
    BY <1>2, ShutdownStep
  <1>. QED
    BY <1>1, <1>2, AsmInvariance, ShutdownStep, PTL DEF Spec, ShutdownLeavesNoServer

-----------------------------------------------------------------------------
\* The refinement of AgentServers.  The port of an agent's server is the one that
\* is allocated to the agent, before and after a step.
LEMMA ServerPortNow ==
    ASSUME OnePortPerAgent, NEW a \in Agents
    PROVE  /\ ServerPort[a] \in Ports \cup {NoPort}
           /\ PendingBind(a) \/ (\A p \in Ports : allocatedPorts[p] # a)
                 => ServerPort[a] = NoPort
           /\ \A p \in Ports :
                 allocatedPorts[p] = a /\ ~PendingBind(a) <=> ServerPort[a] = p
  BY Nulls DEF OnePortPerAgent, ServerPort, HasServer

\* The same after the step.
LEMMA ServerPortNext ==
    ASSUME OnePortPerAgent', NEW a \in Agents
    PROVE  /\ ServerPort'[a] \in Ports \cup {NoPort}
           /\ PendingBind(a)' \/ (\A p \in Ports : allocatedPorts'[p] # a)
                 => ServerPort'[a] = NoPort
           /\ \A p \in Ports :
                 allocatedPorts'[p] = a /\ ~PendingBind(a)' <=> ServerPort'[a] = p
  BY Nulls DEF OnePortPerAgent, ServerPort, HasServer

\* An agent keeps its port when neither the map nor its pending bind changes.
LEMMA KeepsPort ==
    ASSUME OnePortPerAgent, OnePortPerAgent', NEW a \in Agents,
           \A p \in Ports : allocatedPorts'[p] = a <=> allocatedPorts[p] = a,
           PendingBind(a)' <=> PendingBind(a)
    PROVE  ServerPort'[a] = ServerPort[a]
  BY ServerPortNow, ServerPortNext, SMT

\* A step that keeps every port is a stuttering step, and one that changes a single
\* agent's port updates the abstract map there.
LEMMA ServerPortUpdates ==
    /\ (\A b \in Agents : ServerPort'[b] = ServerPort[b]) => UNCHANGED ServerPort
    /\ \A a \in Agents :
          (\A b \in Agents : b # a => ServerPort'[b] = ServerPort[b])
             => ServerPort' = [ServerPort EXCEPT ![a] = ServerPort'[a]]
  <1>. DEFINE f == ServerPort
              g == ServerPort'
  <1>1. f = [b \in Agents |-> f[b]] /\ g = [b \in Agents |-> g[b]]
    BY SMT DEF ServerPort
  <1>. HIDE DEF f, g
  <1>2. (\A b \in Agents : g[b] = f[b]) => g = f
    BY <1>1
  <1>3. ASSUME NEW a \in Agents, \A b \in Agents : b # a => g[b] = f[b]
        PROVE  g = [f EXCEPT ![a] = g[a]]
    BY <1>1, <1>3
  <1>. QED
    BY <1>2, <1>3 DEF f, g

\* A port is forgotten: its agent has no server from now on.
LEMMA ForgetEndsServer ==
    ASSUME AsmInv, OnePortPerAgent, OnePortPerAgent',
           NEW a \in Agents, NEW p \in Ports, allocatedPorts[p] = a,
           allocatedPorts' = [allocatedPorts EXCEPT ![p] = NoAgent],
           ~PendingBind(a)', \A b \in Agents : b # a => (PendingBind(b)' <=> PendingBind(b))
    PROVE  IF PendingBind(a) THEN UNCHANGED ServerPort ELSE Abstract!EndServer(a)
  <1>1. /\ \A q \in Ports : allocatedPorts'[q] # a
        /\ \A b \in Agents, q \in Ports :
              b # a => (allocatedPorts'[q] = b <=> allocatedPorts[q] = b)
    BY Nulls DEF AsmInv, PMTypeOK, OnePortPerAgent
  <1>2. \A b \in Agents : b # a => ServerPort'[b] = ServerPort[b]
    BY <1>1, KeepsPort
  <1>3. ServerPort'[a] = NoPort
    BY <1>1, ServerPortNext
  <1>4. CASE PendingBind(a)
    <2>1. ServerPort[a] = NoPort
      BY <1>4, ServerPortNow
    <2>. QED
      BY <1>2, <1>3, <1>4, <2>1, ServerPortUpdates
  <1>5. CASE ~PendingBind(a)
    <2>1. ServerPort[a] = p
      BY <1>5, ServerPortNow
    <2>. QED
      BY <1>2, <1>3, <1>5, <2>1, ServerPortUpdates, Nulls DEF Abstract!EndServer
  <1>. QED
    BY <1>4, <1>5

\* The listener is bound: the agent has a server from now on.
LEMMA BoundStartsServer ==
    ASSUME AsmInv, OnePortPerAgent, OnePortPerAgent', NEW i \in Infos, StartBound(i),
           NEW a \in Agents, NEW p \in Ports, call.agent = a, call.port = p
    PROVE  Abstract!StartServer(a, p)
  <1>1. call.pc = "listen" /\ Starting /\ call' = NoCall /\ UNCHANGED allocatedPorts
    BY CallAt DEF StartBound, AsmInv, pmVars
  <1>2. allocatedPorts[p] = a
    BY <1>1, SMT DEF AsmInv, Consistent, OwnersConsistent, Owns
  <1>3. /\ PendingBind(a) /\ ~PendingBind(a)'
        /\ \A b \in Agents : b # a => (PendingBind(b)' <=> PendingBind(b))
    BY <1>1, NoCallFields DEF PendingBind, Starting
  <1>4. ServerPort[a] = NoPort /\ ServerPort'[a] = p
    BY <1>1, <1>2, <1>3, ServerPortNow, ServerPortNext
  <1>5. \A b \in Agents : ServerPort[b] # p
    BY <1>1, <1>2, <1>3, ServerPortNow, SMT
  <1>6. \A b \in Agents : b # a => ServerPort'[b] = ServerPort[b]
    BY <1>1, <1>3, KeepsPort
  <1>. QED
    BY <1>1, <1>4, <1>5, <1>6, ServerPortUpdates DEF Abstract!StartServer, Abstract!Unused

\* Every step of the manager starts a server, ends a server, or shows nothing.
LEMMA ServersStep ==
    ASSUME AsmInv, AsmInv', OnePortPerAgent, OnePortPerAgent', [Next]_vars
    PROVE  [Abstract!ServersNext]_ServerPort
  <1>. USE DEF pmVars
  <1>1. CASE \E i \in Infos : StartBound(i)
    <2>1. call.agent \in Agents /\ call.port \in Ports
      BY <1>1, CallAt, ZenonT(30) DEF StartBound, AsmInv, Consistent, CallConsistent
    <2>. QED
      BY <1>1, <2>1, BoundStartsServer DEF Abstract!ServersNext
  <1>2. CASE CallForget
    <2>1. PICK a \in Agents, p \in Ports : call.agent = a /\ call.port = p
      BY <1>2, CallAt DEF CallForget, AsmInv, Consistent, CallConsistent
    <2>2. /\ call.pc = "forget" /\ call'.pc = "return" /\ call'.op = call.op
          /\ call'.agent = a
      BY <1>2, <2>1 DEF CallForget, AsmInv, Consistent, AsmTypes, CallRecord
    <2>3. allocatedPorts[p] = a
      BY <2>1, <2>2, SMT DEF AsmInv, Consistent, OwnersConsistent, Owns
    <2>4. allocatedPorts' = [allocatedPorts EXCEPT ![p] = NoAgent]
      BY <1>2, <2>1, <2>3, Nulls DEF CallForget, ReleaseForget
    <2>5. ~PendingBind(a)' /\ \A b \in Agents : b # a => (PendingBind(b)' <=> PendingBind(b))
      BY <2>1, <2>2 DEF PendingBind
    <2>. QED
      BY <2>3, <2>4, <2>5, ForgetEndsServer DEF Abstract!ServersNext
  <1>3. ASSUME NEW i \in Infos, CleanupForget(i) PROVE [Abstract!ServersNext]_ServerPort
    <2>1. PICK a \in Agents, p \in Ports : info[i].agent = a /\ info[i].port = p
      BY <1>3, ZenonT(30) DEF CleanupForget, AsmInv, Consistent, ServersConsistent
    <2>2. serve[i] = "forget" /\ UNCHANGED call
      BY <1>3 DEF CleanupForget
    <2>3. allocatedPorts[p] = a
      BY <2>1, <2>2, SMT DEF AsmInv, Consistent, OwnersConsistent, Owns
    <2>4. allocatedPorts' = [allocatedPorts EXCEPT ![p] = NoAgent]
      BY <1>3, <2>1, <2>3, Nulls DEF CleanupForget, ReleaseForget
    <2>5. \A b \in Agents : ~PendingBind(b)' /\ ~PendingBind(b)
      BY <2>2, CleanerAlone DEF PendingBind, Starting
    <2>. QED
      BY <2>3, <2>4, <2>5, ForgetEndsServer DEF Abstract!ServersNext
  <1>4. CASE StartRecord
    <2>1. PICK a \in Agents, p \in Ports : call.agent = a /\ call.port = p
      BY <1>4, CallAt DEF StartRecord, AsmInv, Consistent, CallConsistent
    <2>2. /\ call.pc = "record" /\ Starting /\ call'.pc = "listen" /\ call'.op = "start"
          /\ call'.agent = a /\ servers[a] = NoServer
      BY <1>4, <2>1, CallAt
         DEF StartRecord, AsmInv, Consistent, AsmTypes, CallRecord, CallConsistent, Starting
    <2>3. hand[Caller] = [op |-> "allocate", port |-> p, agent |-> a]
      BY <2>1, <2>2 DEF AsmInv, Consistent, HandConsistent
    <2>4. /\ allocatedPorts[p] = NoAgent
          /\ allocatedPorts' = [allocatedPorts EXCEPT ![p] = a]
      BY <1>4, <2>3, ManagerAssumption, SMT
         DEF StartRecord, AllocateRecord, AsmInv, PortsConserved, NoPortTwice, InHand
    <2>5. \A q \in Ports : allocatedPorts[q] # a
      <3>1. \A i \in Infos : serve[i] # "forget"
        BY <2>2, CleanerAlone
      <3>2. \A q \in Ports : ~Owns(a, q)
        BY <2>1, <2>2, <3>1, ZenonT(30) DEF Owns
      <3>. QED
        BY <3>2 DEF AsmInv, Consistent, OwnersConsistent
    <2>6. ServerPort[a] = NoPort
      BY <2>5, ServerPortNow
    <2>7. PendingBind(a)' /\ \A b \in Agents : b # a => ~PendingBind(b)' /\ ~PendingBind(b)
      BY <2>1, <2>2 DEF PendingBind
    <2>8. ServerPort'[a] = NoPort
      BY <2>7, ServerPortNext
    <2>9. \A b \in Agents, q \in Ports :
             b # a => (allocatedPorts'[q] = b <=> allocatedPorts[q] = b)
      BY <2>4, Nulls DEF AsmInv, PMTypeOK
    <2>10. \A b \in Agents : b # a => ServerPort'[b] = ServerPort[b]
      BY <2>7, <2>9, KeepsPort, ZenonT(30)
    <2>. QED
      BY <2>6, <2>8, <2>10, ServerPortUpdates
  <1>5. ASSUME UNCHANGED allocatedPorts, \A a \in Agents : PendingBind(a)' <=> PendingBind(a)
        PROVE  UNCHANGED ServerPort
    BY <1>5, KeepsPort, ServerPortUpdates
  <1>6. CASE \/ \E a \in Agents : StartCall(a) \/ StopCall(a)
             \/ ShutdownCall \/ StartExists \/ StartNoPort \/ StopMissing \/ StopReturn
    <2>1. call.pc \notin {"listen", "forget"}
      BY <1>6 DEF StartCall, StopCall, ShutdownCall, StartExists, StartNoPort, StopMissing,
                  StopReturn, AsmInv, Consistent, CallConsistent
    <2>2. call'.pc \notin {"listen", "forget"}
      <3>1. \/ call' = NoCall
            \/ \E o \in {"start", "stop", "shutdown"}, a \in Agents, q \in SUBSET Agents :
                  call' = NewCall(o, a, q)
        BY <1>6, NextCall DEF AsmInv
      <3>2. call'.pc \in {"lock", "idle"}
        BY <3>1, NewCallFields, NoCallFields, SMT
      <3>. QED
        BY <3>2
    <2>3. UNCHANGED allocatedPorts
      BY <1>6, ZenonT(30)
      DEF StartCall, StopCall, ShutdownCall, StartExists, StartNoPort, StopMissing,
          StopReturn, ReleaseFinish, ReleaseReturn
    <2>. QED
      BY <1>5, <2>1, <2>2, <2>3 DEF PendingBind
  <1>7. CASE StartLock \/ StartAllocate \/ StartRetry
    <2>1. call.pc \notin {"listen", "forget"} /\ call'.pc \notin {"listen", "forget"}
      BY <1>7, NoCallFields, ZenonT(30)
         DEF StartLock, StartAllocate, StartRetry, AsmInv, Consistent, AsmTypes, CallRecord
    <2>2. UNCHANGED allocatedPorts
      BY <1>7 DEF StartLock, StartAllocate, StartRetry, AllocateReceive, ReleaseFinish,
                  ReleaseReturn
    <2>. QED
      BY <1>5, <2>1, <2>2 DEF PendingBind
  <1>8. CASE StartBindFails
    <2>1. /\ call.pc = "listen" /\ call'.pc = "forget" /\ call'.op = call.op
          /\ call'.agent = call.agent /\ UNCHANGED allocatedPorts
      BY <1>8 DEF StartBindFails, AsmInv, Consistent, AsmTypes, CallRecord
    <2>. QED
      BY <1>5, <2>1 DEF PendingBind
  <1>9. CASE StopTake \/ StopShutdown \/ StopClose
    <2>1. /\ call.op \in {"stop", "shutdown"} /\ UNCHANGED allocatedPorts
      BY <1>9, CallAt DEF StopTake, StopShutdown, StopClose, Stopping, AsmInv
    <2>2. call'.op = call.op
      BY <1>9, ZenonT(30)
      DEF StopTake, StopShutdown, StopClose, AsmInv, Consistent, AsmTypes, CallRecord
    <2>. QED
      BY <1>5, <2>1, <2>2 DEF PendingBind
  <1>10. ASSUME NEW i \in Infos,
                \/ ServeEnter(i) \/ ServeClosed(i) \/ ServeFails(i)
                \/ CleanupTake(i) \/ CleanupSkip(i) \/ CleanupReturn(i)
         PROVE  UNCHANGED ServerPort
    <2>1. UNCHANGED <<allocatedPorts, call>>
      BY <1>10, ZenonT(30) DEF ServeEnter, ServeClosed, ServeFails, CleanupTake, CleanupSkip,
                   CleanupReturn, ReleaseFinish, ReleaseReturn
    <2>. QED
      BY <1>5, <2>1 DEF PendingBind
  <1>11. CASE UNCHANGED vars
    BY <1>5, <1>11 DEF vars, asmVars, PendingBind
  <1>12. CASE \E i \in Infos : ServeStep(i) \/ ServeFails(i)
    BY <1>3, <1>10, <1>12 DEF ServeStep
  <1>. QED
    BY <1>1, <1>2, <1>4, <1>6, <1>7, <1>8, <1>9, <1>11, <1>12 DEF Next, CallStep

\* Starting, stopping, shutting down and failing servers look to the
\* ConnectionManager like atomic starts and ends of servers with distinct ports.
THEOREM ServersRefine == Spec => ImplementsAgentServers
  <1>1. Init => Abstract!NoServers
    <2>. SUFFICES ASSUME Init PROVE Abstract!NoServers
      OBVIOUS
    <2>1. \A a \in Agents : ~HasServer(a)
      BY Nulls DEF Init, PMInit, HasServer
    <2>. QED
      BY <2>1 DEF ServerPort, Abstract!NoServers
  <1>. QED
    BY <1>1, ServersStep, AsmInvariance, OnePort, PTL
       DEF Spec, ImplementsAgentServers, Abstract!ServersSpec
=============================================================================
