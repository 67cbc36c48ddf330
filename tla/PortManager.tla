------------------------------ MODULE PortManager ------------------------------
(***************************************************************************)
(* The pool of per-agent HTTP ports (internal/api/http/port_manager.go).   *)
(*                                                                         *)
(* A PortManager is a buffered channel of free ports and a map from        *)
(* allocated ports to agents; the map is guarded by a mutex, the channel   *)
(* is not.  Allocate and Release therefore take two steps each, and        *)
(* between the two steps the port is in neither structure: it is in the    *)
(* hand of the goroutine that runs the call.  Goroutines is the set of     *)
(* goroutines that may be inside the PortManager at the same time.         *)
(***************************************************************************)
EXTENDS Integers, Sequences

CONSTANTS
    Agents,       \* the agent ids that may ask for a port
    Goroutines,   \* the goroutines that may call the PortManager
    RangeStart,   \* first port of the configured range
    RangeEnd,     \* last port of the configured range (inclusive)
    NoAgent,      \* "the port is not in the allocation map"
    NoPort        \* "the goroutine has no port in hand"

\* What NewPortManager checks before it builds a pool.
ASSUME RangeAssumption ==
    /\ RangeStart \in Int /\ RangeEnd \in Int
    /\ RangeStart <= RangeEnd
    /\ RangeStart >= 1 /\ RangeEnd >= 1
    /\ RangeEnd <= 65535

ASSUME NullAssumption == NoAgent \notin Agents /\ NoPort \notin RangeStart..RangeEnd

Ports == RangeStart..RangeEnd

PoolSize == RangeEnd - RangeStart + 1

VARIABLES
    availablePorts,   \* the channel: free ports, oldest first
    allocatedPorts,   \* the map: port -> agent, NoAgent when absent
    hand              \* per goroutine: the port between the two steps of a call

pmVars == <<availablePorts, allocatedPorts, hand>>

NoHand == [op |-> "none", port |-> NoPort, agent |-> NoAgent]

HandRecord == [op : {"none", "allocate", "release"},
               port : Ports \cup {NoPort},
               agent : Agents \cup {NoAgent}]

-----------------------------------------------------------------------------
\* NewPortManager: every port of the range is in the channel, in order.
PMInit ==
    /\ availablePorts = [i \in 1..PoolSize |-> RangeStart + i - 1]
    /\ allocatedPorts = [p \in Ports |-> NoAgent]
    /\ hand = [g \in Goroutines |-> NoHand]

\* Mutant of AllocateReceive: the port is looked at and left in the channel.
AllocateReceivePeek(g, a) ==
    /\ hand[g].op = "none"
    /\ availablePorts # <<>>
    /\ hand' = [hand EXCEPT ![g] = [op |-> "allocate",
                                    port |-> Head(availablePorts),
                                    agent |-> a]]
    /\ UNCHANGED <<availablePorts, allocatedPorts>>

\* Allocate, first step: the non-blocking receive from the channel.
AllocateReceive(g, a) ==
    /\ hand[g].op = "none"
    /\ availablePorts # <<>>
    /\ hand' = [hand EXCEPT ![g] = [op |-> "allocate",
                                    port |-> Head(availablePorts),
                                    agent |-> a]]
    /\ availablePorts' = Tail(availablePorts)
    /\ UNCHANGED allocatedPorts

\* Allocate, the default branch: the pool is exhausted and nothing changes.
PoolExhausted == availablePorts = <<>>

\* Allocate, second step: record the port under the mutex.
AllocateRecord(g) ==
    /\ hand[g].op = "allocate"
    /\ allocatedPorts' = [allocatedPorts EXCEPT ![hand[g].port] = hand[g].agent]
    /\ hand' = [hand EXCEPT ![g] = NoHand]
    /\ UNCHANGED availablePorts

\* Release, first step: look the port up and forget it, under the mutex.  A port
\* that is not allocated is left alone and the call has nothing more to do.
ReleaseForget(g, p) ==
    /\ hand[g].op = "none"
    /\ IF allocatedPorts[p] # NoAgent
       THEN /\ allocatedPorts' = [allocatedPorts EXCEPT ![p] = NoAgent]
            /\ hand' = [hand EXCEPT ![g] = [op |-> "release", port |-> p,
                                            agent |-> NoAgent]]
       ELSE UNCHANGED <<allocatedPorts, hand>>
    /\ UNCHANGED availablePorts

\* Mutant of ReleaseReturn: the pool is a stack instead of a queue.
ReleaseReturnFirst(g) ==
    /\ hand[g].op = "release"
    /\ Len(availablePorts) < PoolSize
    /\ availablePorts' = <<hand[g].port>> \o availablePorts
    /\ hand' = [hand EXCEPT ![g] = NoHand]
    /\ UNCHANGED allocatedPorts

\* Release, second step: send the port to the channel, outside the mutex.  The
\* send blocks while the channel is full.
ReleaseReturn(g) ==
    /\ hand[g].op = "release"
    /\ Len(availablePorts) < PoolSize
    /\ availablePorts' = Append(availablePorts, hand[g].port)
    /\ hand' = [hand EXCEPT ![g] = NoHand]
    /\ UNCHANGED allocatedPorts

\* GetAllocations: the snapshot handed to an administrator.
GetAllocations == {p \in Ports : allocatedPorts[p] # NoAgent}

PMNext ==
    \E g \in Goroutines :
        \/ \E a \in Agents : AllocateReceive(g, a)
        \/ AllocateRecord(g)
        \/ \E p \in Ports : ReleaseForget(g, p)
        \/ ReleaseReturn(g)

PMSpec == PMInit /\ [][PMNext]_pmVars

-----------------------------------------------------------------------------
\* The state has the shape the Go types give it.
PMTypeOK ==
    /\ availablePorts \in Seq(Ports)
    /\ allocatedPorts \in [Ports -> Agents \cup {NoAgent}]
    /\ hand \in [Goroutines -> HandRecord]
    /\ \A g \in Goroutines :
          /\ (hand[g].op = "none") <=> (hand[g].port = NoPort)
          /\ (hand[g].op = "allocate") <=> (hand[g].agent # NoAgent)

InPool(p) == \E i \in 1..Len(availablePorts) : availablePorts[i] = p

InHand(g, p) == hand[g].port = p

\* No port is in two places: twice in the channel, in the channel and in the map,
\* in a hand and elsewhere, or in two hands.
NoPortTwice ==
    /\ \A i, j \in 1..Len(availablePorts) :
          availablePorts[i] = availablePorts[j] => i = j
    /\ \A p \in Ports : InPool(p) => allocatedPorts[p] = NoAgent
    /\ \A p \in Ports, g \in Goroutines :
          InHand(g, p) => ~InPool(p) /\ allocatedPorts[p] = NoAgent
    /\ \A p \in Ports, g, h \in Goroutines : InHand(g, p) /\ InHand(h, p) => g = h

\* No port is lost: it is in the channel, in the map, or in a goroutine's hand.
NoPortLost ==
    \A p \in Ports :
        InPool(p) \/ allocatedPorts[p] # NoAgent \/ \E g \in Goroutines : InHand(g, p)

\* Ports are conserved (NewPortManager, Allocate, Release): whatever calls
\* overlap, and however often a port is released, every port of the range is in
\* exactly one place.
PortsConserved == NoPortTwice /\ NoPortLost

\* The channel send of Release never blocks (port_manager.go:98): the channel's
\* capacity is the size of the range, and whoever returns a port finds room.
ReturnNeverBlocks ==
    \A g \in Goroutines : hand[g].op = "release" => Len(availablePorts) < PoolSize

=============================================================================
