# Silo Proxy: TLA+ verification

Silo Proxy lets a server on the public side forward HTTP requests to agents behind
firewalls. An agent opens a gRPC stream to the server, the server gives the agent an
HTTP port of its own, and a request that arrives there travels over the stream to the
agent, which asks its local service and sends the answer back.

This directory holds TLA+ models of the parts of server and agent that share state between
goroutines or keep it across crashes, TLC configurations that check them on small instances, and proofs, checked by
TLAPS, of properties that hold for every instance. `PROJECT.json` maps every definition
to the lines it models.

## The system

| Part | Source (`src/internal/...`) | State | Operations |
|---|---|---|---|
| Port manager | `api/http/port_manager.go` | channel of free ports, map port to agent | `Allocate`, `Release`, `GetAllocations` |
| Agent server manager | `api/http/agent_server_manager.go` | map agent to HTTP server, one serving goroutine each | `StartAgentServer` (with bind retries), `StopAgentServer`, `Shutdown`, cleanup of a failed server |
| Connection manager | `grpc/server/connection_manager.go` | map agent to connection (context, send channel, last seen, port) | `Register`, `Deregister`, `SendToAgent`, `UpdateLastSeen`, `removeStaleConnections`, `Stop` |
| Stream handler | `grpc/server/stream_handler.go` | three goroutines per stream | `HandleStream`, `receiveLoop`, `sendLoop`, `processMessage` |
| gRPC server | `grpc/server/server.go` | map of pending requests | `Start`, `Stop`, `SendRequestToAgent`, `HandleResponse` |
| Proxy handler | `api/http/handler/proxy.go` | none | forward a request, wait for the response |
| Agent client | `grpc/client/client.go` | stream, send channel, reconnect delay | connect, reconnect with backoff, receive, send, ping, stop |
| Request handler | `grpc/client/request_handler.go` | none | one HTTP call to the local service |
| Provisioning | `provision/key_store.go`, `api/http/handler/provision.go` | map of one-time keys | create, validate, use, revoke, clean up |
| Certificates | `cert/*.go`, `api/http/handler/cert.go` | files | generate at start-up, per agent, delete, list |
| Users, authentication, database | `users`, `auth`, `db`, `api/http/middleware/auth.go` | users table, tokens, connection pool | register, log in, delete, list |
| Server process | `cmd/silo-proxy-server/main.go` (outside `internal`) | two serving goroutines, error channel | start up, select, shut down |
| Admin, router, TLS, configuration | the rest | none | wiring |

How they interact: `HandleStream` registers the agent; `Register` calls
`StartAgentServer` with `cm.mu` held, which allocates a port and starts the HTTP server;
requests arriving there call `SendRequestToAgent` and `SendToAgent`, which puts the
message into the connection's channel; `sendLoop` sends it; the agent's answer arrives in
`receiveLoop`, and `HandleResponse` hands it to the waiting request. `Deregister`, a new
`Register` of the same agent, the stale-connection cleanup and `Stop` all tear a
connection down.

What makes it hard: the channel of the port manager is not guarded by its mutex; a
failing server and a stop release the same port; contexts and send channels are used
outside `cm.mu`, and closing a channel somebody sends on panics; a stream's goroutines
outlive its replacement; `grpcServer.Stop` does not wait for the handlers. `PROJECT.json`
lists these hazards with the properties that cover them.

## Modules

    PortManager            the pool of ports                         (code)
      AgentServerManager   EXTENDS PortManager: the HTTP servers     (code)
    AgentServers           what the registry relies on               (abstract)
      ConnectionManager    EXTENDS AgentServers: the registry        (code)
        StreamHandler      EXTENDS ConnectionManager: goroutines     (code)
    RequestForwarding      proxy requests, responses, one teardown   (code)
    AgentClient            the agent's side of the stream            (code)
    CertStore              certificate files, generation, crashes    (code)
      Provisioning         EXTENDS CertStore: keys and requests      (code)
    Accounts               users table, tokens, connection pool      (code)
      ServerProcess        EXTENDS Accounts: main and both servers   (code)

`XProofs` holds the theorems about module `X`: there is one for `PortManager`,
`AgentServerManager`, `ConnectionManager`, `StreamHandler`, `RequestForwarding`,
`AgentClient`, `Provisioning` (with `CertStore`) and `ServerProcess` (with `Accounts`).
The `MC...` modules only add symmetry sets for TLC.

`AgentServerManager` implements `AgentServers` under a refinement mapping (property
`ImplementsAgentServers`), so `ConnectionManager` may stand on the abstract module
instead of the two lower layers. In the same way `StreamHandler` implements the free use
of the registry that `ConnectionManager` describes (`ImplementsConnectionManager`). The
server manager takes its pool steps from `PortManager`, so its proofs get the pool's theorems
from a lemma (`UsesPortManager`).

**PortManager.** `availablePorts` is the channel, `allocatedPorts` the map,
`hand[g]` what goroutine `g` holds between the two halves of a call. `Allocate` is
`AllocateReceive` then `AllocateRecord`, and `Release` is `ReleaseForget` then
`ReleaseReturn`, because only the map is under the mutex.

**AgentServerManager.** One caller at a time starts or stops servers (the registry calls
with `cm.mu` held). A server instance has a listener and a serving goroutine; Serve
may not have been entered when the server is stopped, and it may fail at any time.
Every lock acquisition, retry and release is a step of its own.

**ConnectionManager.** A connection is named by the stream it was made for; `op` is the
operation that holds `cm.mu` and where it stands. The four operations that tear a
connection down do the same four things in the same order (cancel, close the channel,
stop the server, forget), modelled once, one step each, since contexts and channels are
visible without the lock. The clock is the set `stale`.

**StreamHandler.** `stream[s]` is a call of `HandleStream` with its two loops,
`send[g]` a `SendToAgent` call between its lookup and the end of its select, `grpc` the
progress of `Server.Stop`. Message contents do not matter; a message is a PING that is
answered or anything else. A send on a closed channel sets `panicked` when nothing
recovers from it (HTTP handlers run under gin's recovery).

**RequestForwarding.** A request is in one of the steps of `forwardRequest` and
`SendRequestToAgent` (look up, enter the pending map, send, wait, leave the map), a
receiver is a receive loop between finding a response's channel under the lock and
sending on it, and `op` is the teardown that holds `cm.mu` while the agent's HTTP server
drains its requests. It is the only module in which the two sides wait for each other: the teardown
for the requests, until `serverShutdownTimeout`, and the requests for `cm.mu`. Responses
may come late, twice or never. A server whose Serve failed accepts no connection any more,
but nobody closes the ones it has, and requests still arrive on them (`ArriveKept`).

**AgentClient.** `loop` is the connection loop with its reconnect delay, a session is the
stream of one connection with its receive, send and ping loop, and `queued` counts the
messages in `sendCh`, the one channel all sessions share. A loop of an old session may outlive it and read the new
`stream` field, as it may in the code; a receive loop that starts, or starts over, after its
session is done returns without reading it. `Stop` may come at any step.

**CertStore, Provisioning.** The files of the CA, the server and the agents; a file is
absent, torn (`os.WriteFile` truncates before it writes) or whole, and names the key pair
it was made from and the CA that signed it. Boot, `CreateAgentCertificate`,
`GenerateAgentCertIfNotExists` and `DeleteAgentCertificate` go file by file; any of them
may fail or be cut off by a crash, after which the server boots again with the files it
finds and without its in-memory provision keys. `disturbed` is a history variable that only
properties read. `fileExists` is taken to be exact: in the code it says no after any error of
`os.Stat`, so a CA whose files cannot be looked at for a moment would be made anew, and
`CertificatesVerify` does not speak of that.

**Accounts, ServerProcess.** A request holds a connection of the pool for one statement
at a time; a statement is atomic, and between the two statements of a list, or between the
lookup of a login and its token, anything may happen. A token is the claims it was signed
with. `main` goes through the steps of the server's `main()`; `http` and `grpc` are the two
serving goroutines, `httpStop` and `grpcStop` the two that shut them down, `pool` the
connection pool whose `Close` is deferred. `errChan` counts the errors sent while `main`
selects; nobody reads it later. The process may fail in every step of its
start-up, be killed and be started again; table and tokens stay. When `GracefulStop`
returns is left open here, since the streams are in `StreamHandler`.

`Stop` shows a defect of the code: `Server.Stop` uses `s.grpcServer`, which `Start` has
not set yet when a signal comes early, and never sets when it cannot listen or load its
credentials. `GracefulStop` on nil then panics, and the process ends without waiting for
its HTTP requests and without closing the pool, although `README.md:160` of the repository
promises "Coordinated cleanup on termination". `ProcessEnds` counts that exit as an end.

## Runs

| Run | Instance | What it shows |
|---|---|---|
| `agent_servers` | 2 ports, 3 agents, 2 server instances, 2 retries | no port is lost or in two places and returning one never blocks; no port leaks, no port that is still listened on is given out, `Shutdown` leaves no server, a retry sees a failed port again only when there is no other; the whole looks like atomic starts and ends; every call returns and a failed server leaves the map |
| `bind_retry` | 1 agent, 2 ports, 3 retries | *violation*: the third attempt to bind takes a port that has failed already |
| `registry` | 2 agents, 3 streams, 2 ports | consistency of connections, contexts, channels and servers under any calls |
| `streams` | 1 agent, 2 streams, no pings | goroutines of a stream and its replacement use the registry as intended and leave no connection without a handler; a cancelled connection takes its handler down; after `Stop` nothing stays registered |
| `ping_live` | 1 agent, 1 stream, 1 requester, pings | dead streams take their goroutines down, also with a full send channel; stale connections go |
| `replacement` | 2 streams | *violation*: the deferred `Deregister` of a replaced stream removes its successor |
| `send_after_close` | 1 stream | *violation*: a send on a channel closed by the shutdown panics |
| `forwarding` | 2 requests, 1 receiver | every request returns, the teardown ends, the receive loop is never held up by a response nobody waits for, and no entry stays in the pending map |
| `agent_client` | 2 sessions, buffer 1, delays 1 to 2 | a broken stream leads to a new one, the loops of an old session end, `Stop` ends and leaves no stream open |
| `provisioning` | 1 agent, 1 key, 2 requests, 4 key pairs | whole certificates verify against the CA on disk; a server that is up has both its files, and they match unless a write was cut short; an agent's pair matches, and once it is complete nothing writes over it |
| `key_reuse` | as `provisioning` | *violation*: a request that validated a key makes a certificate after another request has used the key |
| `server_process` | 1 name, 2 requests, 1 connection, 1 token, 2 ids | every request ends; a failed server or a signal ends the process; the pool is closed after the requests unless `Shutdown` timed out; an old token removes no account but its own |

The violations disagree with sentences of the design documents, quoted under "findings".
What the code guarantees in their place: a retry sees a failed port again only when no other
is free (`RetryReusesOnlyWhenExhausted`), and a used key never writes over a complete pair
(`CompletePairIsKept`): it takes a deletion in between to make a second certificate with it.

One more sentence of the documents is not what the code does and has no run:
`docs/per-agent-ports/overview.md:247`, "Agent disconnect during server startup" with
"Context cancellation aborts startup". `Register` never looks at the stream's context, so the
server is started and the connection registered; `DeadStreamReturns` shows that the handler
then returns, and its deferred `Deregister` removes both.

`AgentPairMatches` and `CompletePairIsKept` have two exceptions, recorded in `disturbed`: `CreateAgentCertificate`
takes no lock and may write beside another request, and a deletion may stop between the
two files. Torn files are in the model and outside the properties: the code checks only
that a file exists, so a crash inside `os.WriteFile` leaves a torn file that counts.

**Bounds.** Two agents are what it takes for one to get the port of the other. With a
third agent and two server instances, a failed server's cleanup meets successors on its
port and for its agent, and the pool is empty at times. Two retries instead of three are
enough for a failed port to come back. Three streams are a connection, its replacement
and the other agent's. `sendChannelBuffer` is 1 instead of 100: a full channel and an
empty one are the cases the code tells apart. Delays 1 and 2 are the initial and
the greatest delay. Two requests are what it takes to race for a key, a file or a
teardown. Names of streams, instances, sessions and key pairs are reused after nothing refers
to them, so behaviours are not bounded in length.

In `server_process` two requests contend for one connection, so the pool is at its limit
whenever one of them runs a statement, and the other has to get the connection that is given
back. One name is enough for an account to be deleted and its name to be registered
again while an old token is about. When no id is left the insert fails, as any statement may.

Pings multiply with the second stream beyond what liveness checking can take: `streams` has
two streams without pings, `ping_live` pings on one stream. The safety proofs of
`StreamHandler` cover both together.

**Fairness.** A goroutine that can take a step takes it (weak fairness). Getting a mutex
is strongly fair, because Go's mutex turns to handing over in order once a waiter has
waited for a millisecond. Tickers and timeouts fire; in `RequestForwarding` these are the
request timeout and `serverShutdownTimeout`, in `ServerProcess` the ten seconds of both
shutdowns, in `AgentClient` the sleeps of the backoff.
In `ServerProcess` getting a connection is strongly fair for each request, since the pool
serves its queue in order, and a step after that weakly fair. That a statement ends is
an assumption about the database: `db.go` sets no statement timeout. Nothing is assumed about
servers coming up or failing. Nothing is assumed of agents, clients, the network or the operator, nor that
`stream.Send` gets through on a working stream. `Provisioning` is checked without
fairness, for safety only.

## Proofs

Every safety invariant, action property and refinement that a passing run checks is also
proved, for every value of the constants that the assumptions allow: any number of agents,
ports, streams, sessions, requests, goroutines, names and tokens, and any buffer size and
retry limit. Each proof module defines an inductive invariant, has one lemma per action or
group of actions that preserve it, and derives the theorems from it. The two longest modules leave
their leaves to Zenon unless a leaf names the SMT solver (`USE Zenon`): the time `tlapm` takes
to encode an obligation for the solver grows along a module.

| Module | Inductive invariant | Theorems |
|---|---|---|
| `PortManagerProofs` | `PMTypeOK /\ PortsConserved` | `PMTypeCorrect`, `PortConservation`, `ReturnNeverBlocksHolds` |
| `AgentServerManagerProofs` | `AsmInv`, then `RetriesInOrder`, `ShutdownSees` | `TypeCorrect`, `ManagerConservesPorts`, `ManagerNeverBlocks`, `OnePort`, `ListenersOwn`, `PortsNeverLeak`, `RetriesWalkThePool`, `ShutdownEmptiesTheMap`, `ServersRefine` |
| `ConnectionManagerProofs` | `CMInv` | `CMTypeCorrect`, `RegistryLive`, `OneLiveConnection`, `SendChClosedOnce`, `CancelPrecedesClose`, `NoOrphanServers`, `StartAlwaysClear` |
| `StreamHandlerProofs` | `HandlerInv` | `NoGhosts`, `HandlersUseRegistry`, `RegistryUnderHandlers` |
| `RequestForwardingProofs` | `FwdInv` | `PendingNeverLeaks` |
| `AgentClientProofs` | `ClientInv` | `StopClosesStreams` |
| `ProvisioningProofs` | `ProvInv` | `CertificatesStayValid`, `ServerPairMatches`, `CompletePairsStay`, `AgentPairsMatch` |
| `ServerProcessProofs` | `ProcessInv`, `AccountsInv` | `PoolClosedUnused`, `TokenDeletesOwnAccount` |

**The pool.** A port is in the channel once, in the map, or in one hand; with the types this
is inductive. That the channel has room for a port in a hand does not follow by counting,
which would need induction; with the port in the hand cut out of the range, the positions
of the channel map one-to-one into `1..PoolSize - 1`, so they are fewer than `PoolSize`.
`PMSpec` allows any call at any time, releases of free ports included.

**The server manager.** What `NoPortLeak` says of a state at rest has to be said of every
state on the way. `AsmInv` does so with one sentence, `OwnersConsistent`: the allocation map
gives port `p` to agent `a` exactly when `a` owns it through its server in the map, through
the call that is binding or stopping its server, or through the cleanup of its server. The
other parts say who has which lock and what in hand (`LockConsistent`, `HandConsistent`),
that a server in the map was not shut down and has a live goroutine (`ServersConsistent`),
and whose every open listener is (`ListenersConsistent`: a listener whose goroutine has not
entered Serve yet may be shut down and still open, which is what the invariant first missed).
`RetriesInOrder` says that ports which failed to bind are at the end of the channel;
`ShutdownSees` that a server `Shutdown` has still to stop is in the rest of its snapshot. For
`ServersRefine` the start of a server is the step in which its port is bound, and its end the
one in which the port leaves the allocation map.

**The registry.** None of its properties is inductive alone, since each is disturbed in the
middle of a teardown. `CMInv` adds to the types what each value of `op.pc` says of the
connection being torn down (`OpConsistent`), that all other registered connections are live,
open and filed under their agent (`RegisteredConsistent`), and that a live connection is
registered (`LiveConsistent`). `CancelPrecedesClose` and `StartAlwaysClear` are stated only by
the proofs.

**The stream handlers.** `HandlerInv` adds to `CMInv` that the operation with `cm.mu` was
called by a handler that waits for it (`CallersWait`), and that a registered connection is
that of a handler that has yet to deregister, filed under that handler's agent
(`HoldersRegistered`). The second half matters: the deferred `Deregister` removes whatever
is filed under its agent, so a handler that returns leaves nothing behind exactly because
its own connection can only be there. Every step is then a step of `ConnectionManager` or
leaves it alone, and the registry's theorems hold for the handlers
(`RegistryUnderHandlers`).

**Requests and the agent.** `FwdInv` says that the pending map holds exactly the requests
between the two places in `SendRequestToAgent` that enter and remove them. `ClientInv` says
that only the stream in the client's `stream` field may be open, that the field is empty
unless the loop uses or disconnects it, and that nothing is open once `Stop` has cancelled
the context.

**Certificates.** `ProvInv` rests on the order of the writes. A key's file is written last
and a file that was opened is torn until it is written, so a whole key vouches for the
certificate beside it, through any crash. The CA is made anew only while there is no whole CA
key, and then nothing has been signed yet (`SignedConsistent`). The files of an agent that is
not disturbed have one writer at a time, and whoever is about to write a file of theirs finds no
whole key (`PairConsistent`, `MutexConsistent`, lemma `WritesIncomplete`); a complete pair
is thus never written over.

**The process.** `ProcessInv` says that the pool is closed only after the shutdown of the
HTTP server is done or timed out, and that no request is left when it is done. `AccountsInv`
says that an id names one account, in the table, in every token and in every request under
way, so that the id in an old token finds its own account or none; `MigratedFirst`, that
nobody serves before the table is there.

The assumptions: what `NewPortManager` checks of its range, bounds that are positive, and
null values that are no agents, streams, ports or requests.

**Only model-checked.** Liveness under fairness, which the prover does not handle: that calls,
requests, teardowns, loops, sessions, `Stop` and the process end, that a failed server and a
stale connection go, that the agent reconnects, and that `Stop` leaves nothing registered for
good. `RegistryUnderHandlers` and `NoGhosts` are their safety part. The four
violations are found by TLC.

## Not modelled

Routing, configuration, logging, TLS set-up and generated protocol code have no state
shared between goroutines that a model would add to. The agent's `main` and its provision
command run their steps one after the other. Of the users, the API-key check, hashing and
signing are external or stateless, and the page arithmetic of the list is left out. What
gRPC does when the agent's `disconnect` calls `CloseSend` during a `Send` is the library's
matter: in the model that `Send` fails or gets through. See "components" for each.

## Plan

1. `Provisioning` with liveness (every request returns, spent keys go), on an instance
   small enough for it.
2. The page arithmetic of the user list as an operator with a reference definition.
3. The agent's `main` around `AgentClient`.
4. Proofs of what the liveness properties rest on: that a request in a select, a loop and a
   handler always have a step of their own to take, as far as it can be said without ENABLED.
