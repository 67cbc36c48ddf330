------------------------ MODULE RequestForwardingProofs ------------------------
(***************************************************************************)
(* pendingRequests does not leak, for every number of requests and of      *)
(* receive loops.                                                          *)
(*                                                                         *)
(* NoPendingLeak is not inductive without the type of `request'.  FwdInv   *)
(* says more than it: a request has an entry exactly while it is inside    *)
(* SendRequestToAgent, so that a response in time always finds its         *)
(* channel, too.                                                           *)
(***************************************************************************)
EXTENDS RequestForwarding, TLAPS

Inside == {"send", "select", "wait", "leave"}

FwdInv ==
    /\ request \in [Requests -> {"idle", "find", "body", "done"} \cup Inside]
    /\ pending = {r \in Requests : request[r] \in Inside}

-----------------------------------------------------------------------------
LEMMA FwdInvInit == Init => FwdInv
  BY DEF Init, FwdInv, Inside

\* The steps of a request before and after SendRequestToAgent.
LEMMA OutsideStepInv ==
    ASSUME FwdInv, NEW r \in Requests,
           \/ Arrive(r) \/ ArriveKept(r) \/ FindConnection(r) \/ ReadBodyFails(r) \/ Forget(r)
    PROVE  FwdInv'
  <1>1. /\ request[r] \notin Inside /\ pending' = pending
        /\ \E to \in {"idle", "find", "body", "done"} : request' = [request EXCEPT ![r] = to]
    BY DEF FwdInv, Inside, Arrive, ArriveKept, FindConnection, ReadBodyFails, Forget, Ends, Goes
  <1>. QED
    BY <1>1 DEF FwdInv, Inside

\* The steps inside SendRequestToAgent.
LEMMA InsideStepInv ==
    ASSUME FwdInv, NEW r \in Requests,
           \/ LookupAgent(r) \/ MessageQueued(r) \/ MessageRefused(r)
           \/ TakeResponse(r) \/ WaitEnds(r)
    PROVE  FwdInv'
  <1>1. /\ request[r] \in Inside /\ pending' = pending
        /\ \E to \in Inside : request' = [request EXCEPT ![r] = to]
    BY DEF FwdInv, Inside, LookupAgent, MessageQueued, MessageRefused, TakeResponse,
           WaitEnds, Goes
  <1>. QED
    BY <1>1 DEF FwdInv, Inside

\* SendRequestToAgent is entered and left: the request and the map change together.
LEMMA BoundaryStepInv ==
    ASSUME FwdInv, NEW r \in Requests, EnterPending(r) \/ LeavePending(r)
    PROVE  FwdInv'
  <1>1. CASE EnterPending(r)
    BY <1>1 DEF FwdInv, Inside, EnterPending, Goes
  <1>2. CASE LeavePending(r)
    BY <1>2 DEF FwdInv, Inside, LeavePending, Ends, Goes
  <1>. QED
    BY <1>1, <1>2

\* Everything else, teardowns, failures and late responses included, leaves both
\* alone.
LEMMA OtherStepInv ==
    ASSUME FwdInv,
           \/ \E r \in Requests : \/ ClientLeaves(r) \/ Lose(r)
                                  \/ \E v \in Receivers : Receive(v, r)
           \/ \E v \in Receivers : ReceiverStep(v)
           \/ TearStep \/ Register \/ TearLock \/ ServerFails
           \/ UNCHANGED vars
    PROVE  FwdInv'
  <1>1. request' = request /\ pending' = pending
    BY DEF ClientLeaves, Lose, Receive, ReceiverStep, LookupPending, DeliverResponse,
           TearStep, DrainEnds, DrainTimeout, TearDone, Register, TearLock, ServerFails, vars
  <1>. QED
    BY <1>1 DEF FwdInv

LEMMA FwdInvAlways == Spec => []FwdInv
  <1>1. FwdInv /\ [Next]_vars => FwdInv'
    <2>. SUFFICES ASSUME FwdInv, [Next]_vars PROVE FwdInv'
      OBVIOUS
    <2>1. ASSUME NEW r \in Requests, RequestStep(r) PROVE FwdInv'
      BY <2>1, OutsideStepInv, InsideStepInv, BoundaryStepInv DEF RequestStep
    <2>2. ASSUME NEW r \in Requests,
                 Arrive(r) \/ ArriveKept(r) \/ Forget(r) \/ EnterPending(r)
          PROVE  FwdInv'
      BY <2>2, OutsideStepInv, BoundaryStepInv
    <2>. QED
      BY <2>1, <2>2, OtherStepInv DEF Next
  <1>. QED
    BY <1>1, FwdInvInit, PTL DEF Spec

-----------------------------------------------------------------------------
\* pendingRequests does not leak: an entry belongs to a request that is still inside
\* SendRequestToAgent and will delete it, whatever responses, teardowns and failures
\* come in between.
THEOREM PendingNeverLeaks == Spec => []NoPendingLeak
  <1>1. FwdInv => NoPendingLeak
    BY DEF FwdInv, Inside, NoPendingLeak
  <1>. QED
    BY <1>1, FwdInvAlways, PTL
=============================================================================
