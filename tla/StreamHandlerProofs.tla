-------------------------- MODULE StreamHandlerProofs --------------------------
(***************************************************************************)
(* Proofs that the goroutines of StreamHandler use the registry as         *)
(* ConnectionManager describes it, and leave no connection behind, for any *)
(* sets of streams, requesters, agents and ports.  The inductive invariant *)
(* adds to that of the registry who is inside Register or Deregister, and  *)
(* under which agent a stream's connection is filed.                       *)
(***************************************************************************)
EXTENDS StreamHandler, ConnectionManagerProofs

\* The stages of HandleStream with a connection that it has to deregister.
Holding == {"seen", "process", "pong", "wait", "deregister", "deregistering"}

StreamRecord ==
    [id : Agents \cup {NoAgent}, alive : BOOLEAN,
     handler : {"none", "register", "registering", "returned"} \cup Holding,
     receiver : {"none", "recv", "process", "pong"},
     sender : {"none", "select"}, failed : BOOLEAN]

\* A stream that has begun has the agent id of its first message.
StreamTypes ==
    /\ stream \in [Streams -> StreamRecord]
    /\ \A s \in Streams : stream[s] = NoStream \/ stream[s].handler # "none"
    /\ \A s \in Streams : stream[s].handler # "none" => stream[s].id \in Agents

\* Register and Deregister are called by the handler that waits for them, for its
\* own agent.
CallersWait ==
    /\ op.kind = "register" =>
          /\ op.by \in Streams
          /\ stream[op.by].handler = "registering" /\ stream[op.by].id = op.agent
    /\ op.kind = "deregister" =>
          /\ op.by \in Streams
          /\ stream[op.by].handler = "deregistering" /\ stream[op.by].id = op.agent

\* A registered connection is that of a handler that has yet to deregister, filed
\* under the handler's agent.
HoldersRegistered ==
    \A a \in Registered :
        stream[agents[a]].handler \in Holding /\ stream[agents[a]].id = a

HandlersConsistent == StreamTypes /\ CallersWait /\ HoldersRegistered

\* The inductive invariant.
HandlerInv == CMInv /\ HandlersConsistent

-----------------------------------------------------------------------------
\* A stream moves while the registry stays: it may not move out of a call of the
\* registry, and stops holding only a connection that is not registered.
LEMMA StreamMoves ==
    ASSUME HandlerInv, StreamTypes', UNCHANGED <<agents, op>>, NEW s \in Streams,
           \A t \in Streams \ {s} : stream'[t] = stream[t],
           \/ stream'[s].handler = stream[s].handler /\ stream'[s].id = stream[s].id
           \/ /\ stream[s].handler \notin {"registering", "deregistering"}
              /\ \/ stream'[s].handler \in Holding /\ stream'[s].id = stream[s].id
                 \/ \A a \in Agents : agents[a] # s
    PROVE  HandlersConsistent'
  <1>1. agents \in [Agents -> Streams \cup {NoConn}] /\ NoConn \notin Streams
    BY RegistryAssumption DEF HandlerInv, CMInv, CMTypeOK
  <1>2. CallersWait'
    BY DEF HandlerInv, HandlersConsistent, CallersWait, Holding
  <1>3. HoldersRegistered'
    BY <1>1 DEF HandlerInv, HandlersConsistent, HoldersRegistered, Registered
  <1>. QED
    BY <1>2, <1>3 DEF HandlersConsistent

\* A stream's record is replaced.
LEMMA StreamReplaced ==
    ASSUME stream \in [Streams -> StreamRecord], NEW s \in Streams, NEW m \in StreamRecord,
           stream' = [stream EXCEPT ![s] = m]
    PROVE  /\ stream' \in [Streams -> StreamRecord] /\ stream'[s] = m
           /\ \A t \in Streams \ {s} : stream'[t] = stream[t]
  OBVIOUS

\* A record of a stream with another transport or other loops.
Beside(m, x) == m \in StreamRecord /\ m.handler = x.handler /\ m.id = x.id

LEMMA LoopRecords ==
    ASSUME NEW x \in StreamRecord
    PROVE  /\ \A r \in {"none", "recv", "process", "pong"} : Beside([x EXCEPT !.receiver = r], x)
           /\ Beside([x EXCEPT !.receiver = "none", !.failed = TRUE], x)
           /\ Beside([x EXCEPT !.receiver = "none", !.failed = FALSE], x)
           /\ Beside([x EXCEPT !.sender = "none", !.failed = TRUE], x)
           /\ Beside([x EXCEPT !.sender = "none", !.failed = FALSE], x)
           /\ Beside([x EXCEPT !.sender = "none"], x)
           /\ Beside([x EXCEPT !.alive = FALSE], x)
  <1>. USE DEF Beside, StreamRecord
  <1>1. \A r \in {"none", "recv", "process", "pong"} : Beside([x EXCEPT !.receiver = r], x)
    OBVIOUS
  <1>2. Beside([x EXCEPT !.receiver = "none", !.failed = TRUE], x)
    BY Zenon
  <1>3. Beside([x EXCEPT !.receiver = "none", !.failed = FALSE], x)
    BY Zenon
  <1>4. Beside([x EXCEPT !.sender = "none", !.failed = TRUE], x)
    BY Zenon
  <1>5. Beside([x EXCEPT !.sender = "none", !.failed = FALSE], x)
    BY Zenon
  <1>6. Beside([x EXCEPT !.sender = "none"], x) /\ Beside([x EXCEPT !.alive = FALSE], x)
    BY Zenon
  <1>. HIDE DEF Beside
  <1>. QED
    BY <1>1, <1>2, <1>3, <1>4, <1>5, <1>6

\* The loops and the transport of a stream leave its handler alone.
LEMMA LoopsMove ==
    ASSUME StreamTypes, NEW s \in Streams,
           ReceiverStep(s) \/ SenderStep(s) \/ Disconnect(s) \/ Receive(s)
    PROVE  /\ StreamTypes'
           /\ \A t \in Streams \ {s} : stream'[t] = stream[t]
           /\ stream'[s].handler = stream[s].handler /\ stream'[s].id = stream[s].id
  <1>. DEFINE x == stream[s]
  <1>1. stream \in [Streams -> StreamRecord] /\ x \in StreamRecord
    BY DEF StreamTypes
  <1>2. (~Done(s)) = TRUE \/ (~Done(s)) = FALSE
    OBVIOUS
  <1>3. \E m : /\ stream' = [stream EXCEPT ![s] = m]
               /\ \/ \E r \in {"none", "recv", "process", "pong"} :
                        m = [x EXCEPT !.receiver = r]
                  \/ m = [x EXCEPT !.receiver = "none", !.failed = TRUE]
                  \/ m = [x EXCEPT !.receiver = "none", !.failed = FALSE]
                  \/ m = [x EXCEPT !.sender = "none", !.failed = TRUE]
                  \/ m = [x EXCEPT !.sender = "none", !.failed = FALSE]
                  \/ m = [x EXCEPT !.sender = "none"]
                  \/ m = [x EXCEPT !.alive = FALSE]
    <2>1. \/ \E r \in {"none", "recv", "process", "pong"} :
                stream' = [stream EXCEPT ![s].receiver = r]
          \/ stream' = [stream EXCEPT ![s].receiver = "none", ![s].failed = TRUE]
          \/ stream' = [stream EXCEPT ![s].receiver = "none", ![s].failed = FALSE]
          \/ stream' = [stream EXCEPT ![s].sender = "none", ![s].failed = TRUE]
          \/ stream' = [stream EXCEPT ![s].sender = "none", ![s].failed = FALSE]
          \/ stream' = [stream EXCEPT ![s].sender = "none"]
          \/ stream' = [stream EXCEPT ![s].alive = FALSE]
      BY <1>2 DEF ReceiverStep, ReceivePing, ReceivePong, ReceiveNoPong, ReceiveEnds, Receive,
                  SenderStep, SendFails, SendEnds, Disconnect
    <2>2. CASE \E r \in {"none", "recv", "process", "pong"} :
                  stream' = [stream EXCEPT ![s].receiver = r]
      BY <2>2, Zenon
    <2>3. CASE \/ stream' = [stream EXCEPT ![s].receiver = "none", ![s].failed = TRUE]
               \/ stream' = [stream EXCEPT ![s].receiver = "none", ![s].failed = FALSE]
      <3>1. \A b : [stream EXCEPT ![s].receiver = "none", ![s].failed = b]
                      = [stream EXCEPT ![s] = [x EXCEPT !.receiver = "none", !.failed = b]]
        BY <1>1, Zenon
      <3>. QED
        BY <2>3, <3>1, Zenon
    <2>4. CASE \/ stream' = [stream EXCEPT ![s].sender = "none", ![s].failed = TRUE]
               \/ stream' = [stream EXCEPT ![s].sender = "none", ![s].failed = FALSE]
      <3>1. \A b : [stream EXCEPT ![s].sender = "none", ![s].failed = b]
                      = [stream EXCEPT ![s] = [x EXCEPT !.sender = "none", !.failed = b]]
        BY <1>1, Zenon
      <3>. QED
        BY <2>4, <3>1, Zenon
    <2>5. CASE \/ stream' = [stream EXCEPT ![s].sender = "none"]
               \/ stream' = [stream EXCEPT ![s].alive = FALSE]
      BY <2>5
    <2>. QED
      BY <2>1, <2>2, <2>3, <2>4, <2>5
  <1>4. PICK m : stream' = [stream EXCEPT ![s] = m] /\ Beside(m, x)
    BY <1>1, <1>3, LoopRecords, Zenon
  <1>5. /\ stream' \in [Streams -> StreamRecord]
        /\ \A t \in Streams \ {s} : stream'[t] = stream[t]
        /\ stream'[s].handler = stream[s].handler /\ stream'[s].id = stream[s].id
    BY <1>1, <1>4, StreamReplaced DEF Beside
  <1>6. stream[s] # NoStream
    BY DEF ReceiverStep, ReceivePing, ReceivePong, ReceiveNoPong, ReceiveEnds, Receive,
           SenderStep, SendFails, SendEnds, Disconnect, NoStream
  <1>. QED
    BY <1>5, <1>6 DEF StreamTypes

\* Where HandleStream goes.
LEMMA HandlerMoves ==
    ASSUME StreamTypes, NEW s \in Streams, HandlerStep(s)
    PROVE  /\ StreamTypes'
           /\ \A t \in Streams \ {s} : stream'[t] = stream[t]
           /\ stream'[s].id = stream[s].id /\ stream[s].id \in Agents
           /\ <<stream[s].handler, stream'[s].handler>> \in
                 {<<"register", "registering">>, <<"seen", "process">>, <<"process", "pong">>,
                  <<"pong", "wait">>, <<"process", "wait">>, <<"wait", "deregister">>,
                  <<"deregister", "deregistering">>, <<"deregister", "returned">>}
  <1>1. stream \in [Streams -> StreamRecord]
    BY DEF StreamTypes
  <1>2. \/ /\ stream[s].handler = "register"
           /\ stream' = [stream EXCEPT ![s].handler = "registering"]
        \/ stream[s].handler = "seen" /\ stream' = [stream EXCEPT ![s].handler = "process"]
        \/ stream[s].handler = "process" /\ stream' = [stream EXCEPT ![s].handler = "pong"]
        \/ stream[s].handler \in {"pong", "process"} /\ Spawn(s)
        \/ /\ stream[s].handler = "wait"
           /\ stream' = [stream EXCEPT ![s].handler = "deregister", ![s].failed = FALSE]
        \/ /\ stream[s].handler = "deregister"
           /\ stream' = [stream EXCEPT ![s].handler = "deregistering"]
        \/ stream[s].handler = "deregister" /\ Returned(s)
    BY DEF HandlerStep, HandleRegister, HandleSeen, HandlePing, HandlePong,
           HandleNoPong, HandleLeave, HandleDeregister, HandleGone
  <1>3. /\ stream' \in [Streams -> StreamRecord]
        /\ \A t \in Streams \ {s} : stream'[t] = stream[t]
        /\ stream'[s].id = stream[s].id
    BY <1>1, <1>2 DEF StreamRecord, Holding, Spawn, Returned
  <1>4. stream[s].handler # "none" /\ stream[s].id \in Agents
    BY <1>2 DEF StreamTypes
  <1>5. <<stream[s].handler, stream'[s].handler>> \in
                 {<<"register", "registering">>, <<"seen", "process">>, <<"process", "pong">>,
                  <<"pong", "wait">>, <<"process", "wait">>, <<"wait", "deregister">>,
                  <<"deregister", "deregistering">>, <<"deregister", "returned">>}
    BY <1>1, <1>2 DEF StreamRecord, Spawn, Returned
  <1>. QED
    BY <1>3, <1>4, <1>5 DEF StreamTypes

\* A stream begins, or its name is free again.
LEMMA StreamBegins ==
    ASSUME StreamTypes, NEW s \in Streams, Forget(s) \/ \E a \in Agents : Open(s, a)
    PROVE  /\ StreamTypes'
           /\ \A t \in Streams \ {s} : stream'[t] = stream[t]
           /\ stream[s].handler \in {"none", "returned"}
  <1>1. stream \in [Streams -> StreamRecord] /\ NoStream \in StreamRecord
    BY DEF StreamTypes, NoStream, StreamRecord
  <1>2. CASE Forget(s)
    <2>1. /\ stream[s].handler = "returned" /\ stream' = [stream EXCEPT ![s] = NoStream]
          /\ NoStream.handler = "none"
      BY <1>2 DEF Forget, NoStream
    <2>. QED
      BY <1>1, <2>1 DEF StreamTypes
  <1>3. ASSUME NEW a \in Agents, Open(s, a)
        PROVE  /\ StreamTypes'
               /\ \A t \in Streams \ {s} : stream'[t] = stream[t]
               /\ stream[s].handler = "none"
    <2>1. /\ stream[s].handler = "none"
          /\ stream' = [stream EXCEPT ![s].id = a, ![s].alive = TRUE,
                                      ![s].handler = "register"]
      <3>1. NoStream.handler = "none"
        BY DEF NoStream
      <3>. QED
        BY <1>3, <3>1, Zenon DEF Open
    <2>2. /\ stream' \in [Streams -> StreamRecord] /\ stream'[s].id = a
          /\ \A t \in Streams \ {s} : stream'[t] = stream[t]
      BY <1>1, <2>1 DEF StreamRecord
    <2>. QED
      BY <2>1, <2>2 DEF StreamTypes
  <1>. QED
    BY <1>2, <1>3

-----------------------------------------------------------------------------
\* The steps of HandleStream, and the calls of the registry that they make.
LEMMA HandlerStepInv ==
    ASSUME HandlerInv, NEW s \in Streams, HandlerStep(s)
    PROVE  [CMNext]_cmVars /\ HandlersConsistent'
  <1>. DEFINE a == stream[s].id
  <1>1. StreamTypes /\ CallersWait /\ HoldersRegistered
    BY DEF HandlerInv, HandlersConsistent
  <1>2. /\ StreamTypes' /\ a \in Agents
        /\ \A t \in Streams \ {s} : stream'[t] = stream[t]
        /\ stream'[s].id = a
    BY <1>1, HandlerMoves
  <1>3. [CMNext]_cmVars
    BY <1>2 DEF HandlerStep, HandleRegister, HandleSeen, HandlePing, HandlePong,
           HandleNoPong, HandleLeave, HandleDeregister, HandleGone, CMNext
  <1>4. agents \in [Agents -> Streams \cup {NoConn}] /\ NoConn \notin Streams
    BY RegistryAssumption DEF HandlerInv, CMInv, CMTypeOK
  <1>5. CASE HandleRegister(s)
    <2>1. /\ stream[s].handler = "register" /\ stream'[s].handler = "registering"
          /\ UNCHANGED agents
          /\ op'.kind = "register" /\ op'.by = s /\ op'.agent = a
      BY <1>1, <1>5 DEF HandleRegister, RegisterLock, StreamTypes, StreamRecord
    <2>2. \A b \in Agents : agents[b] # s
      BY <1>1, <1>4, <2>1 DEF HoldersRegistered, Registered, Holding
    <2>3. HoldersRegistered'
      BY <1>1, <1>2, <1>4, <2>1, <2>2 DEF HoldersRegistered, Registered
    <2>. QED
      BY <1>2, <1>3, <2>1, <2>3 DEF HandlersConsistent, CallersWait
  <1>6. CASE HandleDeregister(s)
    <2>1. /\ stream[s].handler = "deregister" /\ stream'[s].handler = "deregistering"
          /\ UNCHANGED agents
          /\ op'.kind = "deregister" /\ op'.by = s /\ op'.agent = a
      BY <1>1, <1>6 DEF HandleDeregister, DeregisterLock, StreamTypes, StreamRecord
    <2>2. HoldersRegistered'
      BY <1>1, <1>2, <1>4, <2>1 DEF HoldersRegistered, Registered, Holding
    <2>. QED
      BY <1>2, <1>3, <2>1, <2>2 DEF HandlersConsistent, CallersWait
  <1>7. CASE HandleGone(s)
    <2>1. /\ stream[s].handler = "deregister" /\ agents[a] = NoConn
          /\ UNCHANGED <<agents, op>>
      BY <1>7 DEF HandleGone, DeregisterAbsent, cmVars
    <2>2. \A b \in Agents : agents[b] # s
      BY <1>1, <1>4, <2>1 DEF HoldersRegistered, Registered
    <2>. QED
      BY <1>2, <1>3, <2>1, <2>2, StreamMoves
  <1>8. CASE ~HandleRegister(s) /\ ~HandleDeregister(s) /\ ~HandleGone(s)
    <2>1. /\ UNCHANGED <<agents, op>>
          /\ stream[s].handler \notin {"registering", "deregistering"}
          /\ stream[s].handler \in {"seen", "process", "pong", "wait"}
      BY <1>8 DEF HandlerStep, HandleSeen, HandlePing, HandlePong, HandleNoPong,
                  HandleLeave, UpdateLastSeen, cmVars
    <2>2. stream'[s].handler \in Holding
      BY <1>1, <2>1, HandlerMoves DEF Holding
    <2>. QED
      BY <1>2, <1>3, <2>1, <2>2, StreamMoves
  <1>. QED
    BY <1>5, <1>6, <1>7, <1>8

\* The loops and the transport, a new stream, and the end of one.
LEMMA StreamStepInv ==
    ASSUME HandlerInv, NEW s \in Streams,
           \/ ReceiverStep(s) \/ SenderStep(s) \/ Disconnect(s) \/ Receive(s)
           \/ Forget(s) \/ \E a \in Agents : Open(s, a)
    PROVE  [CMNext]_cmVars /\ HandlersConsistent'
  <1>1. StreamTypes /\ HoldersRegistered
    BY DEF HandlerInv, HandlersConsistent
  <1>2. CASE ReceiverStep(s) \/ SenderStep(s) \/ Disconnect(s) \/ Receive(s)
    <2>1. UNCHANGED cmVars \/ (stream[s].alive /\ UpdateLastSeen(stream[s].id) /\ Receive(s))
      BY <1>2 DEF ReceiverStep, ReceivePing, ReceivePong, ReceiveNoPong, ReceiveEnds,
                  SenderStep, SendFails, SendEnds, Disconnect, Receive
    <2>2. UNCHANGED <<agents, op>>
      BY <2>1 DEF cmVars, UpdateLastSeen
    <2>3. HandlersConsistent'
      BY <1>1, <1>2, <2>2, LoopsMove, StreamMoves
    <2>4. Receive(s) => stream[s].id \in Agents
      <3>1. Receive(s) => stream[s] # NoStream
        BY DEF Receive, NoStream
      <3>. QED
        BY <1>1, <3>1 DEF StreamTypes
    <2>5. [CMNext]_cmVars
      BY <2>1, <2>4 DEF CMNext
    <2>. QED
      BY <2>3, <2>5
  <1>3. CASE Forget(s) \/ \E a \in Agents : Open(s, a)
    <2>1. UNCHANGED cmVars \/ Collect(s)
      BY <1>3, Zenon DEF Forget, Open
    <2>2. UNCHANGED <<agents, op>>
      BY <2>1 DEF cmVars, Collect
    <2>3. /\ StreamTypes' /\ stream[s].handler \in {"none", "returned"}
          /\ \A t \in Streams \ {s} : stream'[t] = stream[t]
      BY <1>1, <1>3, StreamBegins
    <2>4. \A a \in Agents : agents[a] # s
      BY <1>1, <2>3, RegistryAssumption DEF HoldersRegistered, Registered, Holding
    <2>5. HandlersConsistent'
      BY <2>2, <2>3, <2>4, StreamMoves
    <2>. QED
      BY <2>1, <2>5 DEF CMNext
  <1>. QED
    BY <1>2, <1>3

-----------------------------------------------------------------------------
\* A handler comes back from Register or Deregister.
LEMMA CallReturnsTo ==
    ASSUME StreamTypes, NEW s \in Streams, stream[s].handler # "none",
           \/ stream' = [stream EXCEPT ![s].handler = "seen"]
           \/ Returned(s)
    PROVE  /\ StreamTypes'
           /\ \A t \in Streams \ {s} : stream'[t] = stream[t]
           /\ stream'[s].id = stream[s].id
           /\ stream' = [stream EXCEPT ![s].handler = "seen"] => stream'[s].handler = "seen"
  <1>1. stream \in [Streams -> StreamRecord]
    BY DEF StreamTypes
  <1>2. /\ stream' \in [Streams -> StreamRecord]
        /\ \A t \in Streams \ {s} : stream'[t] = stream[t]
        /\ stream'[s].id = stream[s].id /\ stream'[s].handler \in {"seen", "returned"}
    BY <1>1 DEF StreamRecord, Holding, Returned
  <1>3. stream' = [stream EXCEPT ![s].handler = "seen"] => stream'[s].handler = "seen"
    BY <1>1 DEF StreamRecord
  <1>. QED
    BY <1>2, <1>3 DEF StreamTypes

\* Register returns, with the connection in the map or an error.
LEMMA RegisterReturnsInv ==
    ASSUME HandlerInv,
           \/ RegisterStarted /\ stream' = [stream EXCEPT ![op.by].handler = "seen"]
           \/ RegisterFails /\ Returned(op.by)
    PROVE  HandlersConsistent'
  <1>1. StreamTypes /\ CallersWait /\ HoldersRegistered
    BY DEF HandlerInv, HandlersConsistent
  <1>2. op.pc = "start" /\ op.kind = "register" /\ op.agent \in Agents
    BY DEF HandlerInv, CMInv, OpConsistent, RegisterStarted, RegisterFails
  <1>3. PICK s \in Streams : /\ op.by = s /\ stream[s].handler = "registering"
                             /\ stream[s].id = op.agent
    BY <1>1, <1>2 DEF CallersWait
  <1>4. agents \in [Agents -> Streams \cup {NoConn}] /\ NoConn \notin Streams
    BY RegistryAssumption DEF HandlerInv, CMInv, CMTypeOK
  <1>5. \A a \in Agents : agents[a] # s
    BY <1>1, <1>3, <1>4 DEF HoldersRegistered, Registered, Holding
  <1>6. /\ StreamTypes'
        /\ \A t \in Streams \ {s} : stream'[t] = stream[t]
        /\ stream'[s].id = stream[s].id
    BY <1>1, <1>3, CallReturnsTo
  <1>7. op' = NoOp /\ op'.kind = "none"
    BY DEF RegisterStarted, RegisterFails, NoOp
  <1>8. CallersWait'
    BY <1>7 DEF CallersWait
  <1>9. CASE RegisterStarted /\ stream' = [stream EXCEPT ![op.by].handler = "seen"]
    <2>1. stream'[s].handler = "seen"
      BY <1>1, <1>3, <1>9, CallReturnsTo, Zenon
    <2>2. agents' = [agents EXCEPT ![op.agent] = s]
      BY <1>3, <1>9 DEF RegisterStarted
    <2>3. HoldersRegistered'
      BY <1>1, <1>2, <1>3, <1>4, <1>5, <1>6, <2>1, <2>2 DEF HoldersRegistered, Registered, Holding
    <2>. QED
      BY <1>6, <1>8, <2>3 DEF HandlersConsistent
  <1>10. CASE RegisterFails /\ Returned(op.by)
    <2>1. agents' = agents
      BY <1>10 DEF RegisterFails
    <2>2. HoldersRegistered'
      BY <1>1, <1>4, <1>5, <1>6, <2>1 DEF HoldersRegistered, Registered
    <2>. QED
      BY <1>6, <1>8, <2>2 DEF HandlersConsistent
  <1>. QED
    BY <1>9, <1>10

\* A connection is torn down; it is its own handler that called Deregister, or the
\* handler of another connection of the same agent, or neither.
LEMMA TearDownHandlers ==
    ASSUME HandlerInv, TearDown,
           \/ op.kind = "deregister" /\ Returned(op.by)
           \/ op.kind # "deregister" /\ UNCHANGED stream
    PROVE  HandlersConsistent'
  <1>1. StreamTypes /\ CallersWait /\ HoldersRegistered
    BY DEF HandlerInv, HandlersConsistent
  <1>2. op \in Operations /\ op.agent \in Agents
    BY Zenon DEF HandlerInv, CMInv, CMTypeOK, OpConsistent, Registered, TearDown
  <1>3. agents \in [Agents -> Streams \cup {NoConn}] /\ NoConn \notin Streams
    BY RegistryAssumption DEF HandlerInv, CMInv, CMTypeOK
  <1>4. agents' = [agents EXCEPT ![op.agent] = NoConn]
    BY Zenon DEF TearDown
  <1>5. NoOp.kind = "none"
    BY DEF NoOp
  <1>6. CASE op.kind = "deregister" /\ Returned(op.by)
    <2>1. PICK s \in Streams : /\ op.by = s /\ stream[s].handler = "deregistering"
                               /\ stream[s].id = op.agent
      BY <1>1, <1>6 DEF CallersWait
    <2>2. /\ StreamTypes'
          /\ \A t \in Streams \ {s} : stream'[t] = stream[t]
      BY <1>1, <1>6, <2>1, CallReturnsTo
    <2>3. op' = NoOp
      BY <1>6 DEF TearDown
    <2>4. HoldersRegistered'
      BY <1>1, <1>2, <1>3, <1>4, <2>1, <2>2 DEF HoldersRegistered, Registered
    <2>. QED
      BY <1>5, <2>2, <2>3, <2>4 DEF HandlersConsistent, CallersWait
  <1>7. CASE op.kind # "deregister" /\ UNCHANGED stream
    <2>1. HoldersRegistered' /\ StreamTypes'
      BY <1>1, <1>2, <1>3, <1>4, <1>7 DEF HoldersRegistered, Registered, StreamTypes
    <2>2. \/ op.kind = "register" /\ op'.kind = "register" /\ op'.by = op.by /\ op'.agent = op.agent
          \/ op'.kind \notin {"register", "deregister"}
      BY <1>2, <1>5, <1>7, Zenon DEF TearDown, Operations
    <2>. QED
      BY <1>1, <1>7, <2>1, <2>2 DEF HandlersConsistent, CallersWait
  <1>. QED
    BY <1>6, <1>7

\* The steps of the operation that has cm.mu.
LEMMA OpContinuesInv ==
    ASSUME HandlerInv, OpContinues
    PROVE  [CMNext]_cmVars /\ HandlersConsistent'
  <1>1. [CMNext]_cmVars
    BY DEF OpContinues, CMNext, OpStep
  <1>2. CASE (TearCancel \/ TearClose \/ StopShutdown) /\ UNCHANGED stream
    <2>1. op \in Operations
      BY DEF HandlerInv, CMInv, CMTypeOK
    <2>2. /\ UNCHANGED agents
          /\ \/ op'.kind = op.kind /\ op'.by = op.by /\ op'.agent = op.agent
             \/ op'.kind = "none"
      BY <1>2, <2>1 DEF TearCancel, TearClose, StopShutdown, Operations, NoOp
    <2>3. HandlersConsistent'
      BY <1>2, <2>2 DEF HandlerInv, HandlersConsistent, StreamTypes, CallersWait,
                        HoldersRegistered, Registered
    <2>. QED
      BY <1>1, <2>3
  <1>. QED
    BY <1>1, <1>2, RegisterReturnsInv, TearDownHandlers DEF OpContinues

\* The cleanup, the stop of the server and what the registry does by itself.
LEMMA ServerStepInv ==
    ASSUME HandlerInv, RemoveStale \/ StopGraceful \/ StopForced \/ StopRegistry \/ Environment
    PROVE  [CMNext]_cmVars /\ HandlersConsistent'
  <1>1. [CMNext]_cmVars
    BY DEF RemoveStale, StopGraceful, StopForced, StopRegistry, Environment, CMNext
  <1>2. /\ UNCHANGED agents
        /\ UNCHANGED op \/ op'.kind \in {"stale", "stop"}
    <2>1. StaleLock => UNCHANGED agents /\ op'.kind = "stale"
      BY DEF StaleLock
    <2>2. StopLock => UNCHANGED agents /\ op'.kind = "stop"
      <3>1. [NoOp EXCEPT !.kind = "stop", !.pc = "shutdown"].kind = "stop"
        BY DEF NoOp
      <3>2. ASSUME op' = [NoOp EXCEPT !.kind = "stop", !.pc = "shutdown"]
            PROVE  op'.kind = "stop"
        BY <3>1, <3>2, Zenon
      <3>3. ASSUME NEW a \in Registered,
                   op' = [kind |-> "stop", by |-> NoConn, agent |-> a,
                          todo |-> Registered \ {a}, pc |-> "cancel"]
            PROVE  op'.kind = "stop"
        BY <3>3
      <3>. QED
        BY <3>2, <3>3, Zenon DEF StopLock
    <2>3. StopClose \/ (\E a \in Agents : GrowStale(a) \/ ServerFails(a))
             => UNCHANGED <<agents, op>>
      BY DEF StopClose, GrowStale, ServerFails
    <2>. QED
      BY <2>1, <2>2, <2>3
      DEF RemoveStale, StopGraceful, StopForced, StopRegistry, Environment
  <1>3. /\ StreamTypes'
        /\ \A s \in Streams : /\ stream'[s].handler = stream[s].handler
                              /\ stream'[s].id = stream[s].id
    <2>1. StreamTypes
      BY DEF HandlerInv, HandlersConsistent
    <2>2. CASE UNCHANGED stream
      BY <2>1, <2>2 DEF StreamTypes
    <2>3. CASE stream' = [s \in Streams |-> [stream[s] EXCEPT !.alive = FALSE]]
      <3>1. \A s \in Streams : Beside([stream[s] EXCEPT !.alive = FALSE], stream[s])
        BY <2>1, LoopRecords, Zenon DEF StreamTypes
      <3>2. /\ stream' \in [Streams -> StreamRecord]
            /\ \A s \in Streams : /\ stream'[s].handler = stream[s].handler
                                  /\ stream'[s].id = stream[s].id
        BY <2>3, <3>1, Zenon DEF Beside
      <3>3. [NoStream EXCEPT !.alive = FALSE] = NoStream
        <4>1. NoStream.alive = FALSE
          BY DEF NoStream
        <4>2. [NoStream EXCEPT !.alive = NoStream.alive] = NoStream
          BY Zenon DEF NoStream
        <4>. QED
          BY <4>1, <4>2
      <3>4. \A s \in Streams : stream'[s] = NoStream \/ stream'[s].handler # "none"
        BY <2>1, <2>3, <3>2, <3>3 DEF StreamTypes
      <3>. QED
        BY <2>1, <3>2, <3>4 DEF StreamTypes
    <2>. QED
      BY <2>2, <2>3 DEF RemoveStale, StopGraceful, StopForced, StopRegistry, Environment
  <1>4. CallersWait'
    BY <1>2, <1>3 DEF HandlerInv, HandlersConsistent, CallersWait
  <1>5. HoldersRegistered'
    BY <1>2, <1>3, RegistryAssumption
    DEF HandlerInv, HandlersConsistent, HoldersRegistered, Registered, CMInv, CMTypeOK
  <1>. QED
    BY <1>1, <1>3, <1>4, <1>5 DEF HandlersConsistent

-----------------------------------------------------------------------------
\* The invariant holds when the server begins to serve...
LEMMA HandlerInvInit ==
    ASSUME Init
    PROVE  HandlerInv
  <1>1. NoStream \in StreamRecord /\ NoStream.handler = "none" /\ NoOp.kind = "none"
    BY DEF NoStream, StreamRecord, NoOp
  <1>2. HandlersConsistent
    BY <1>1 DEF Init, CMInit, HandlersConsistent, StreamTypes, CallersWait,
                HoldersRegistered, Registered
  <1>. QED
    BY <1>2, CMInvInit DEF Init, HandlerInv

\* ... and every step is one of the registry, or leaves it alone, and keeps it.
LEMMA HandlerInvStep ==
    ASSUME HandlerInv, [Next]_vars
    PROVE  [CMNext]_cmVars /\ HandlerInv'
  <1>1. [CMNext]_cmVars /\ HandlersConsistent'
    <2>1. ASSUME UNCHANGED <<cmVars, stream>> PROVE [CMNext]_cmVars /\ HandlersConsistent'
      BY <2>1 DEF cmVars, HandlerInv, HandlersConsistent, StreamTypes, CallersWait,
                  HoldersRegistered, Registered
    <2>2. ASSUME EnvironmentStep PROVE [CMNext]_cmVars /\ HandlersConsistent'
      <3>1. ASSUME NEW s \in Streams, SendMessage(s) \/ Panic(s)
            PROVE  UNCHANGED <<cmVars, stream>>
        BY <3>1 DEF SendMessage, Panic
      <3>2. ASSUME NEW r \in Requesters, (\E a \in Agents : Request(r, a)) \/ RequestEnds(r)
            PROVE  UNCHANGED <<cmVars, stream>>
        BY <3>2 DEF Request, RequestEnds
      <3>3. StopCall => UNCHANGED <<cmVars, stream>>
        BY DEF StopCall
      <3>. QED
        BY <2>1, <2>2, <3>1, <3>2, <3>3, StreamStepInv, ServerStepInv DEF EnvironmentStep
    <2>3. (\E g \in Senders : SelectParks(g)) \/ Terminated \/ UNCHANGED vars
             => UNCHANGED <<cmVars, stream>>
      BY DEF SelectParks, Park, Terminated, vars
    <2>. QED
      BY <2>1, <2>2, <2>3, HandlerStepInv, StreamStepInv, OpContinuesInv, ServerStepInv
      DEF Next, OpProceeds, CleanupStep, StopStep
  <1>. QED
    BY <1>1, CMInvStep DEF HandlerInv

LEMMA HandlerInvariance == Spec => []HandlerInv
  BY HandlerInvInit, HandlerInvStep, PTL DEF Spec

\* A connection in the registry always belongs to a HandleStream that has yet to
\* deregister, whichever stream, cleanup or stop tears connections down meanwhile.
THEOREM NoGhosts == Spec => []NoGhostConnections
  <1>1. HandlerInv => NoGhostConnections
    BY DEF HandlerInv, HandlersConsistent, HoldersRegistered, Holding, NoGhostConnections
  <1>. QED
    BY <1>1, HandlerInvariance, PTL

\* The goroutines of the streams, the cleanup and Stop drive the registry only as
\* ConnectionManager allows: every step is one of its operations or leaves it alone.
THEOREM HandlersUseRegistry == Spec => ImplementsConnectionManager
  <1>1. Init => CMInit
    BY DEF Init
  <1>. QED
    BY <1>1, HandlerInvariance, HandlerInvStep, PTL
    DEF Spec, ImplementsConnectionManager, CMSpec

\* So what ConnectionManagerProofs shows of any use of the registry holds under the
\* handlers' interleavings, the cleanup and Stop: an agent has one live connection, no
\* SendCh is closed twice or before its context is done, and no server is orphaned.
THEOREM RegistryUnderHandlers ==
    Spec => [](LiveAreRegistered /\ ClosedOnce /\ CancelledBeforeClosed
                /\ ServersHaveConnections /\ StartFindsNoServer)
  BY HandlersUseRegistry, OneLiveConnection, SendChClosedOnce, CancelPrecedesClose,
     NoOrphanServers, StartAlwaysClear, PTL
  DEF ImplementsConnectionManager
=============================================================================
