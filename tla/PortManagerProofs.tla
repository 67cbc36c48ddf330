--------------------------- MODULE PortManagerProofs ---------------------------
(***************************************************************************)
(* Ports are conserved, for every range, every set of agents and every set *)
(* of goroutines that use the PortManager concurrently.                    *)
(***************************************************************************)
EXTENDS PortManager, FunctionTheorems, TLAPS

\* The null values are no port and no agent.
LEMMA Nulls == NoPort \notin Ports /\ NoAgent \notin Agents
  BY NullAssumption DEF Ports

\* What a receive does to the channel: the head leaves, the rest moves up.
LEMMA TailFacts ==
    ASSUME NEW S, NEW s \in Seq(S), s # <<>>
    PROVE  /\ Head(s) \in S
           /\ Head(s) = s[1]
           /\ Tail(s) \in Seq(S)
           /\ Len(s) \in Nat /\ Len(s) >= 1
           /\ Len(Tail(s)) = Len(s) - 1
           /\ \A i \in 1..Len(Tail(s)) : Tail(s)[i] = s[i + 1]
  OBVIOUS

\* What a send does to the channel: the port is added at the end.
LEMMA AppendFacts ==
    ASSUME NEW S, NEW s \in Seq(S), NEW e \in S
    PROVE  /\ Append(s, e) \in Seq(S)
           /\ Len(s) \in Nat
           /\ Len(Append(s, e)) = Len(s) + 1
           /\ \A i \in 1..Len(s) : Append(s, e)[i] = s[i]
           /\ Append(s, e)[Len(s) + 1] = e
  OBVIOUS

\* The initial channel is a sequence that holds every port at one position.
LEMMA FullPool ==
    ASSUME PMInit
    PROVE  /\ availablePorts \in Seq(Ports)
           /\ Len(availablePorts) = PoolSize
           /\ \A i \in 1..PoolSize : availablePorts[i] = RangeStart + i - 1
           /\ \A p \in Ports : p - RangeStart + 1 \in 1..PoolSize
  <1>1. PoolSize \in Nat
    BY RangeAssumption DEF PoolSize
  <1>2. \A i \in 1..PoolSize : RangeStart + i - 1 \in Ports
    BY RangeAssumption DEF PoolSize, Ports
  <1>3. availablePorts \in Seq(Ports) /\ Len(availablePorts) = PoolSize
    BY <1>1, <1>2 DEF PMInit
  <1>4. \A p \in Ports : p - RangeStart + 1 \in 1..PoolSize
    BY RangeAssumption DEF PoolSize, Ports
  <1>5. \A i \in 1..PoolSize : availablePorts[i] = RangeStart + i - 1
    BY DEF PMInit
  <1> QED
    BY <1>3, <1>4, <1>5

\* A new pool has the shape the types give it.
LEMMA PMTypeInit ==
    ASSUME PMInit
    PROVE  PMTypeOK
  BY FullPool, Nulls DEF PMInit, PMTypeOK, HandRecord, NoHand

\* The types are inductive.
LEMMA PMTypeStep ==
    ASSUME PMTypeOK, [PMNext]_pmVars
    PROVE  PMTypeOK'
  <1> USE Nulls DEF PMTypeOK, HandRecord, NoHand
  <1>1. ASSUME NEW g \in Goroutines, NEW a \in Agents, AllocateReceive(g, a)
        PROVE  PMTypeOK'
    <2>1. Head(availablePorts) \in Ports /\ Tail(availablePorts) \in Seq(Ports)
      BY <1>1, TailFacts DEF AllocateReceive
    <2> QED
      BY <1>1, <2>1 DEF AllocateReceive
  <1>2. ASSUME NEW g \in Goroutines, AllocateRecord(g)
        PROVE  PMTypeOK'
    BY <1>2 DEF AllocateRecord
  <1>3. ASSUME NEW g \in Goroutines, NEW p \in Ports, ReleaseForget(g, p)
        PROVE  PMTypeOK'
    <2>1. CASE allocatedPorts[p] # NoAgent
      <3>. DEFINE h == [op |-> "release", port |-> p, agent |-> NoAgent]
      <3>1. h \in HandRecord /\ h.op = "release" /\ h.port = p /\ h.agent = NoAgent
        OBVIOUS
      <3>2. /\ allocatedPorts' = [allocatedPorts EXCEPT ![p] = NoAgent]
            /\ hand' = [hand EXCEPT ![g] = h]
            /\ UNCHANGED availablePorts
        BY <1>3, <2>1 DEF ReleaseForget
      <3>. HIDE DEF h
      <3>3. hand' \in [Goroutines -> HandRecord] /\ hand'[g] = h
        BY <3>1, <3>2
      <3>4. \A k \in Goroutines \ {g} : hand'[k] = hand[k]
        BY <3>2
      <3>5. allocatedPorts' \in [Ports -> Agents \cup {NoAgent}]
        BY <3>2
      <3>. QED
        BY <3>1, <3>2, <3>3, <3>4, <3>5
    <2>2. CASE allocatedPorts[p] = NoAgent
      BY <1>3, <2>2 DEF ReleaseForget
    <2> QED
      BY <2>1, <2>2
  <1>4. ASSUME NEW g \in Goroutines, ReleaseReturn(g)
        PROVE  PMTypeOK'
    <2>1. hand[g].port \in Ports
      BY <1>4 DEF ReleaseReturn
    <2>2. Append(availablePorts, hand[g].port) \in Seq(Ports)
      BY <2>1, AppendFacts
    <2> QED
      BY <1>4, <2>2 DEF ReleaseReturn
  <1>5. CASE UNCHANGED pmVars
    BY <1>5 DEF pmVars
  <1> QED
    BY <1>1, <1>2, <1>3, <1>4, <1>5 DEF PMNext

\* Type correctness: the Go types, and what a goroutine in the middle of
\* Allocate or Release has in hand.
THEOREM PMTypeCorrect == PMSpec => []PMTypeOK
  BY PMTypeInit, PMTypeStep, PTL DEF PMSpec

-----------------------------------------------------------------------------
\* Taking the head of a channel without duplicates: the head is in it no more, and
\* every other port that was in it still is.
LEMMA ReceiveKeepsPool ==
    ASSUME NEW s \in Seq(Ports), s # <<>>,
           \A i, j \in 1..Len(s) : s[i] = s[j] => i = j
    PROVE  /\ \A i, j \in 1..Len(Tail(s)) : Tail(s)[i] = Tail(s)[j] => i = j
           /\ \A p : (\E i \in 1..Len(Tail(s)) : Tail(s)[i] = p)
                      <=> p # Head(s) /\ \E i \in 1..Len(s) : s[i] = p
  <1> DEFINE t == Tail(s)
  <1>1. /\ Head(s) = s[1] /\ Len(s) \in Nat /\ Len(s) >= 1
        /\ Len(t) = Len(s) - 1
        /\ \A i \in 1..Len(t) : t[i] = s[i + 1]
    BY TailFacts
  <1> HIDE DEF t
  <1>2. ASSUME NEW i \in 1..Len(t), NEW j \in 1..Len(t), t[i] = t[j]
        PROVE  i = j
    BY <1>1, <1>2
  <1>3. ASSUME NEW p, NEW i \in 1..Len(t), t[i] = p
        PROVE  p # Head(s) /\ \E k \in 1..Len(s) : s[k] = p
    <2>1. i + 1 \in 1..Len(s) /\ s[i + 1] = p
      BY <1>1, <1>3
    <2>2. 1 \in 1..Len(s) /\ i + 1 # 1
      BY <1>1
    <2> QED
      BY <2>1, <2>2, <1>1
  <1>4. ASSUME NEW p, p # Head(s), NEW k \in 1..Len(s), s[k] = p
        PROVE  \E i \in 1..Len(t) : t[i] = p
    <2>1. k # 1
      BY <1>1, <1>4
    <2>2. k - 1 \in 1..Len(t) /\ t[k - 1] = s[k]
      BY <1>1, <2>1
    <2> QED
      BY <2>2, <1>4
  <1>5. \A i, j \in 1..Len(t) : t[i] = t[j] => i = j
    BY <1>2
  <1>6. \A p : (\E i \in 1..Len(t) : t[i] = p)
               <=> p # Head(s) /\ \E i \in 1..Len(s) : s[i] = p
    BY <1>3, <1>4, Zenon
  <1> QED
    BY <1>5, <1>6 DEF t

\* Sending a port that is not in the channel adds it and no duplicate.
LEMMA ReturnKeepsPool ==
    ASSUME NEW s \in Seq(Ports), NEW e \in Ports,
           \A i, j \in 1..Len(s) : s[i] = s[j] => i = j,
           \A i \in 1..Len(s) : s[i] # e
    PROVE  /\ \A i, j \in 1..Len(Append(s, e)) :
                 Append(s, e)[i] = Append(s, e)[j] => i = j
           /\ \A p : (\E i \in 1..Len(Append(s, e)) : Append(s, e)[i] = p)
                      <=> p = e \/ \E i \in 1..Len(s) : s[i] = p
  <1> DEFINE t == Append(s, e)
  <1>1. /\ Len(s) \in Nat
        /\ Len(t) = Len(s) + 1
        /\ \A i \in 1..Len(s) : t[i] = s[i]
        /\ t[Len(s) + 1] = e
    BY AppendFacts
  <1> HIDE DEF t
  <1>2. \A i \in 1..Len(t) : i \in 1..Len(s) \/ i = Len(s) + 1
    BY <1>1
  <1>3. ASSUME NEW i \in 1..Len(t), NEW j \in 1..Len(t), t[i] = t[j]
        PROVE  i = j
    <2>1. CASE i = Len(s) + 1
      BY <1>1, <1>2, <1>3, <2>1
    <2>2. CASE j = Len(s) + 1
      BY <1>1, <1>2, <1>3, <2>2
    <2>3. CASE i \in 1..Len(s) /\ j \in 1..Len(s)
      BY <1>1, <1>3, <2>3
    <2> QED
      BY <1>2, <2>1, <2>2, <2>3
  <1>4. ASSUME NEW p, NEW i \in 1..Len(t), t[i] = p
        PROVE  p = e \/ \E k \in 1..Len(s) : s[k] = p
    BY <1>1, <1>2, <1>4
  <1>5. \E i \in 1..Len(t) : t[i] = e
    <2>1. Len(s) + 1 \in 1..Len(t)
      BY <1>1
    <2> QED
      BY <1>1, <2>1
  <1>6. ASSUME NEW p, NEW k \in 1..Len(s), s[k] = p
        PROVE  \E i \in 1..Len(t) : t[i] = p
    <2>1. k \in 1..Len(t) /\ t[k] = p
      BY <1>1, <1>6
    <2> QED
      BY <2>1
  <1>7. \A i, j \in 1..Len(t) : t[i] = t[j] => i = j
    BY <1>3
  <1>8. \A p : (\E i \in 1..Len(t) : t[i] = p)
               <=> p = e \/ \E i \in 1..Len(s) : s[i] = p
    BY <1>4, <1>5, <1>6, Zenon
  <1> QED
    BY <1>7, <1>8 DEF t

\* Conservation is inductive together with the types.
LEMMA PortsConservedStep ==
    ASSUME PMTypeOK, PortsConserved, [PMNext]_pmVars
    PROVE  PortsConserved'
  <1> USE Nulls DEF PMTypeOK, HandRecord
  <1>1. ASSUME NEW g \in Goroutines, NEW a \in Agents, AllocateReceive(g, a)
        PROVE  PortsConserved'
    <2> DEFINE h == Head(availablePorts)
    <2>1. h \in Ports /\ h # NoPort /\ availablePorts[1] = h /\ 1 \in 1..Len(availablePorts)
      BY <1>1, TailFacts DEF AllocateReceive
    <2>2. /\ \A i, j \in 1..Len(availablePorts') :
                availablePorts'[i] = availablePorts'[j] => i = j
          /\ \A p : InPool(p)' <=> p # h /\ InPool(p)
      <3>1. availablePorts \in Seq(Ports) /\ availablePorts # <<>>
        BY <1>1 DEF AllocateReceive
      <3>2. \A i, j \in 1..Len(availablePorts) :
               availablePorts[i] = availablePorts[j] => i = j
        BY DEF PortsConserved, NoPortTwice
      <3>3. availablePorts' = Tail(availablePorts)
        BY <1>1 DEF AllocateReceive
      <3> QED
        BY ONLY <3>1, <3>2, <3>3, ReceiveKeepsPool DEF InPool
    <2>3. InPool(h)
      BY <2>1 DEF InPool
    <2>4. \A k \in Goroutines, p \in Ports :
             InHand(k, p)' <=> (k = g /\ p = h) \/ (k # g /\ InHand(k, p))
      BY <1>1, <2>1 DEF AllocateReceive, InHand
    <2>5. allocatedPorts' = allocatedPorts
      BY <1>1 DEF AllocateReceive
    <2>6. \A p \in Ports : ~InHand(g, p)
      BY <1>1 DEF AllocateReceive, InHand
    <2> HIDE DEF h
    <2> QED
      BY <2>1, <2>2, <2>3, <2>4, <2>5, <2>6 DEF PortsConserved, NoPortTwice, NoPortLost
  <1>2. ASSUME NEW g \in Goroutines, AllocateRecord(g)
        PROVE  PortsConserved'
    <2> DEFINE q == hand[g].port
    <2>1. q \in Ports /\ hand[g].agent # NoAgent
      BY <1>2 DEF AllocateRecord
    <2>2. availablePorts' = availablePorts /\ \A p : InPool(p)' <=> InPool(p)
      BY <1>2 DEF AllocateRecord, InPool
    <2>3. \A p \in Ports : (allocatedPorts'[p] # NoAgent) <=> (p = q \/ allocatedPorts[p] # NoAgent)
      BY <1>2, <2>1 DEF AllocateRecord
    <2>4. \A k \in Goroutines, p \in Ports : InHand(k, p)' <=> k # g /\ InHand(k, p)
      BY <1>2 DEF AllocateRecord, InHand, NoHand
    <2>5. InHand(g, q) /\ \A p \in Ports : InHand(g, p) => p = q
      BY DEF InHand
    <2> HIDE DEF q
    <2> QED
      BY <2>1, <2>2, <2>3, <2>4, <2>5 DEF PortsConserved, NoPortTwice, NoPortLost
  <1>3. ASSUME NEW g \in Goroutines, NEW q \in Ports, ReleaseForget(g, q)
        PROVE  PortsConserved'
    <2>1. CASE allocatedPorts[q] = NoAgent
      BY <1>3, <2>1 DEF ReleaseForget, PortsConserved, NoPortTwice, NoPortLost, InPool, InHand
    <2>2. CASE allocatedPorts[q] # NoAgent
      <3>1. availablePorts' = availablePorts /\ \A p : InPool(p)' <=> InPool(p)
        BY <1>3 DEF ReleaseForget, InPool
      <3>2. \A p \in Ports : (allocatedPorts'[p] # NoAgent) <=> (p # q /\ allocatedPorts[p] # NoAgent)
        BY <1>3, <2>2 DEF ReleaseForget
      <3>3. \A k \in Goroutines, p \in Ports :
               InHand(k, p)' <=> (k = g /\ p = q) \/ (k # g /\ InHand(k, p))
        BY <1>3, <2>2 DEF ReleaseForget, InHand
      <3>4. \A p \in Ports : ~InHand(g, p)
        BY <1>3 DEF ReleaseForget, InHand
      <3> QED
        BY <2>2, <3>1, <3>2, <3>3, <3>4 DEF PortsConserved, NoPortTwice, NoPortLost
    <2> QED
      BY <2>1, <2>2
  <1>4. ASSUME NEW g \in Goroutines, ReleaseReturn(g)
        PROVE  PortsConserved'
    <2> DEFINE q == hand[g].port
    <2>1. q \in Ports
      BY <1>4 DEF ReleaseReturn
    <2>2. InHand(g, q) /\ ~InPool(q) /\ \A p \in Ports : InHand(g, p) => p = q
      BY <2>1 DEF InHand, PortsConserved, NoPortTwice
    <2>3. /\ \A i, j \in 1..Len(availablePorts') :
                availablePorts'[i] = availablePorts'[j] => i = j
          /\ \A p : InPool(p)' <=> p = q \/ InPool(p)
      BY <1>4, <2>1, <2>2, ReturnKeepsPool DEF ReleaseReturn, PortsConserved, NoPortTwice, InPool
    <2>4. allocatedPorts' = allocatedPorts
      BY <1>4 DEF ReleaseReturn
    <2>5. \A k \in Goroutines, p \in Ports : InHand(k, p)' <=> k # g /\ InHand(k, p)
      BY <1>4 DEF ReleaseReturn, InHand, NoHand
    <2> HIDE DEF q
    <2> QED
      BY <2>1, <2>2, <2>3, <2>4, <2>5 DEF PortsConserved, NoPortTwice, NoPortLost
  <1>5. CASE UNCHANGED pmVars
    BY <1>5 DEF pmVars, PortsConserved, NoPortTwice, NoPortLost, InPool, InHand
  <1> QED
    BY <1>1, <1>2, <1>3, <1>4, <1>5 DEF PMNext

\* NewPortManager puts every port of the range in the channel, once.
LEMMA PortsConservedInit ==
    ASSUME PMInit
    PROVE  PortsConserved
  <1>1. \A p \in Ports : ~\E g \in Goroutines : InHand(g, p)
    BY Nulls DEF PMInit, NoHand, InHand
  <1>2. \A p \in Ports : allocatedPorts[p] = NoAgent
    BY DEF PMInit
  <1>3. \A p \in Ports : InPool(p)
    <2> SUFFICES ASSUME NEW p \in Ports PROVE InPool(p)
      OBVIOUS
    <2>1. p - RangeStart + 1 \in 1..Len(availablePorts)
      BY FullPool
    <2>2. availablePorts[p - RangeStart + 1] = p
      BY <2>1, FullPool, RangeAssumption DEF Ports
    <2> QED
      BY <2>1, <2>2 DEF InPool
  <1>4. \A i, j \in 1..Len(availablePorts) : availablePorts[i] = availablePorts[j] => i = j
    BY FullPool, RangeAssumption
  <1> QED
    BY <1>1, <1>2, <1>3, <1>4 DEF PortsConserved, NoPortTwice, NoPortLost

\* Ports are conserved: whatever Allocate and Release calls overlap, every port of
\* the range is in exactly one of the channel, the map and the goroutines' hands.
THEOREM PortConservation == PMSpec => []PortsConserved
  BY PortsConservedInit, PortsConservedStep, PMTypeCorrect, PTL DEF PMSpec

-----------------------------------------------------------------------------
\* A channel without duplicates that misses a port is not full: with the missing
\* port cut out of the range, positions map one-to-one into 1..PoolSize-1.
LEMMA RoomForMissingPort ==
    ASSUME NEW s \in Seq(Ports), NEW q \in Ports,
           \A i, j \in 1..Len(s) : s[i] = s[j] => i = j,
           \A i \in 1..Len(s) : s[i] # q
    PROVE  Len(s) < PoolSize
  <1> DEFINE n == Len(s)
             f == [i \in 1..n |-> IF s[i] < q THEN s[i] - RangeStart + 1
                                              ELSE s[i] - RangeStart]
  <1>1. n \in Nat /\ PoolSize - 1 \in Nat /\ PoolSize \in Int
    BY RangeAssumption DEF PoolSize
  <1>2. /\ RangeStart \in Int /\ RangeEnd \in Int /\ q \in Int
        /\ RangeStart <= q /\ q <= RangeEnd
        /\ \A i \in 1..n : s[i] \in Int /\ RangeStart <= s[i] /\ s[i] <= RangeEnd
    <2>1. \A i \in 1..n : s[i] \in Ports
      OBVIOUS
    <2> QED
      BY <2>1, RangeAssumption DEF Ports
  <1> HIDE DEF n
  <1>3. \A i \in 1..n : (IF s[i] < q THEN s[i] - RangeStart + 1
                                     ELSE s[i] - RangeStart) \in 1..(PoolSize - 1)
    <2> SUFFICES ASSUME NEW i \in 1..n
                 PROVE  (IF s[i] < q THEN s[i] - RangeStart + 1
                                     ELSE s[i] - RangeStart) \in 1..(PoolSize - 1)
      OBVIOUS
    <2>1. s[i] # q
      BY DEF n
    <2> QED
      BY <1>2, <2>1 DEF PoolSize
  <1>4. f \in [1..n -> 1..(PoolSize - 1)]
    BY <1>3
  <1>5. \A i, j \in 1..n : f[i] = f[j] => i = j
    <2> SUFFICES ASSUME NEW i \in 1..n, NEW j \in 1..n, f[i] = f[j]
                 PROVE  s[i] = s[j]
      BY DEF n
    <2>1. s[i] # q /\ s[j] # q
      BY DEF n
    <2>2. (IF s[i] < q THEN s[i] - RangeStart + 1 ELSE s[i] - RangeStart)
            = (IF s[j] < q THEN s[j] - RangeStart + 1 ELSE s[j] - RangeStart)
      OBVIOUS
    <2>3. /\ s[i] \in Int /\ s[j] \in Int /\ q \in Int /\ RangeStart \in Int
      BY <1>2
    <2> DEFINE x == s[i]
               y == s[j]
    <2> HIDE DEF x, y
    <2>4. /\ x \in Int /\ y \in Int /\ q \in Int /\ RangeStart \in Int
          /\ x # q /\ y # q
          /\ (IF x < q THEN x - RangeStart + 1 ELSE x - RangeStart)
               = (IF y < q THEN y - RangeStart + 1 ELSE y - RangeStart)
      BY ONLY <2>1, <2>2, <2>3 DEF x, y
    <2>5. x = y
      BY ONLY <2>4
    <2> QED
      BY ONLY <2>5 DEF x, y
  <1> HIDE DEF f
  <1>6. f \in Injection(1..n, 1..(PoolSize - 1))
    BY <1>4, <1>5 DEF Injection, IsInjective
  <1>7. n <= PoolSize - 1
    BY <1>1, <1>6, Fun_NatInjLeq DEF ExistsInjection
  <1> QED
    BY <1>1, <1>7 DEF n

\* The channel send of Release never blocks, whatever other calls are under way.
THEOREM ReturnNeverBlocksHolds == PMSpec => []ReturnNeverBlocks
  <1>1. PMTypeOK /\ PortsConserved => ReturnNeverBlocks
    <2> SUFFICES ASSUME PMTypeOK, PortsConserved,
                        NEW g \in Goroutines, hand[g].op = "release"
                 PROVE  Len(availablePorts) < PoolSize
      BY DEF ReturnNeverBlocks
    <2>1. hand[g].port \in Ports
      BY DEF PMTypeOK, HandRecord
    <2>2. ~InPool(hand[g].port)
      BY <2>1 DEF PortsConserved, NoPortTwice, InHand
    <2>3. /\ availablePorts \in Seq(Ports)
          /\ \A i, j \in 1..Len(availablePorts) :
                availablePorts[i] = availablePorts[j] => i = j
      BY DEF PMTypeOK, PortsConserved, NoPortTwice
    <2> QED
      BY <2>1, <2>2, <2>3, RoomForMissingPort, Zenon DEF InPool
  <1> QED
    BY <1>1, PMTypeCorrect, PortConservation, PTL
=============================================================================
