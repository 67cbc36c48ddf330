--------------------------- MODULE AgentClientProofs ---------------------------
(***************************************************************************)
(* When Stop of the agent has returned no stream is left open, for every   *)
(* number of sessions, channel capacity and backoff.                       *)
(*                                                                         *)
(* What Stop finds depends on where connectionLoop stands when stopCh is   *)
(* closed and when the context is cancelled.  ClientInv says when the      *)
(* loop has a stream, that only that one can work, and that a cancelled    *)
(* context leaves none working.                                            *)
(***************************************************************************)
EXTENDS AgentClient, TLAPS

ClientInv ==
    /\ stop \in {"none", "closed", "cancelled", "returned"}
    /\ loop \in {"top", "connect", "backoff", "stream", "disconnect", "sleep", "returned"}
    /\ loop \notin {"stream", "disconnect"} => stream = NoSession
    /\ up \subseteq {stream} \ {NoSession}
    /\ stop \in {"cancelled", "returned"} => up = {}
    /\ stop = "returned" => loop = "returned"

-----------------------------------------------------------------------------
LEMMA ClientInvInit == Init => ClientInv
  BY DEF Init, ClientInv

LEMMA LoopStepInv ==
    ASSUME ClientInv, LoopStep
    PROVE  ClientInv'
  <1>1. CASE LoopTop
    BY <1>1 DEF ClientInv, LoopTop, Disconnect, Stopped
  <1>2. CASE ConnectFails
    BY <1>2 DEF ClientInv, ConnectFails
  <1>3. ASSUME NEW s \in Sessions, Connect(s) PROVE ClientInv'
    BY <1>3, ClientAssumption DEF ClientInv, Connect
  <1>4. CASE Backoff
    BY <1>4 DEF ClientInv, Backoff, Stopped
  <1>5. ASSUME NEW s \in Sessions, StreamEnds(s) PROVE ClientInv'
    BY <1>5 DEF ClientInv, StreamEnds
  <1>6. CASE LoopDisconnects
    BY <1>6 DEF ClientInv, LoopDisconnects, Disconnect, Stopped
  <1>7. CASE SleepEnds
    BY <1>7 DEF ClientInv, SleepEnds
  <1>. QED
    BY <1>1, <1>2, <1>3, <1>4, <1>5, <1>6, <1>7 DEF LoopStep

\* Stop, and the end of a stream by the server or the network.
LEMMA StopStepInv ==
    ASSUME ClientInv, StopStep \/ StopClose \/ StreamBreaks
    PROVE  ClientInv'
  BY DEF ClientInv, StopStep, StopCancel, StopReturns, StopClose, StreamBreaks

\* The loops of the sessions and the requests work on sessions and the channel only.
LEMMA SessionStepInv ==
    ASSUME ClientInv,
           \/ \E s \in Sessions :
                 \/ ReceiverStep(s) \/ ReceiverGets(s)
                 \/ SenderStep(s) \/ SenderEnds(s) \/ SenderSends(s)
                 \/ PingerTicks(s) \/ PingerEnds(s) \/ Forget(s)
           \/ RequestEnds \/ Terminated \/ UNCHANGED vars
    PROVE  ClientInv'
  <1>1. UNCHANGED <<loop, stream, up, stop>>
    BY Zenon DEF ReceiverStep, ReceiverTop, ReceiverLoads, ReceiverFails, ReceiverGets,
           SenderStep, SenderTakes, SenderLoads, SenderFails, SenderEnds, SenderSends, PingerTicks, PingerEnds, Forget,
           RequestEnds, Terminated, vars
  <1>. QED
    BY <1>1 DEF ClientInv

LEMMA ClientInvAlways == Spec => []ClientInv
  <1>1. ClientInv /\ [Next]_vars => ClientInv'
    BY LoopStepInv, StopStepInv, SessionStepInv DEF Next
  <1>. QED
    BY <1>1, ClientInvInit, PTL DEF Spec

-----------------------------------------------------------------------------
\* When Stop returns no stream is open and the stream field is empty, wherever the
\* calls of close(stopCh) and cancel met connectionLoop.
THEOREM StopClosesStreams == Spec => []StopLeavesNoStream
  <1>1. ClientInv => StopLeavesNoStream
    BY DEF ClientInv, StopLeavesNoStream
  <1>. QED
    BY <1>1, ClientInvAlways, PTL
=============================================================================
