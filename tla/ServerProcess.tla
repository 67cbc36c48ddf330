---------------------------- MODULE ServerProcess ----------------------------
(***************************************************************************)
(* The proxy server as a process: cmd/silo-proxy-server/main.go with the   *)
(* Start and Stop of internal/grpc/server/server.go.  main starts up step  *)
(* by step, runs the HTTP server (whose requests are those of Accounts)    *)
(* and the gRPC server each in a goroutine, waits for an error or a        *)
(* signal, shuts both down side by side and closes the connection pool.    *)
(* The process may be killed at any time and started again; the database   *)
(* stays.                                                                  *)
(*                                                                         *)
(* The streams that GracefulStop waits for are those of StreamHandler;     *)
(* here it ends or is overtaken by the timeout.                            *)
(***************************************************************************)
EXTENDS Accounts

VARIABLES
    main,       \* where main() stands
    http,       \* the goroutine in ListenAndServe
    httpStop,   \* the goroutine in httpServer.Shutdown
    grpc,       \* the goroutine in Server.Start
    grpcServer, \* s.grpcServer is set
    grpcStop,   \* the goroutine in StopWithTimeout
    errChan     \* number of errors in the channel while main selects on it, then 0

processVars == <<main, http, httpStop, grpc, grpcServer, grpcStop, errChan>>

vars == <<accountVars, processVars>>

serverVars == <<http, httpStop, grpc, grpcServer, grpcStop, errChan>>

\* errChan <- err: the channel has room for the one error of each server, and nobody
\* receives from it once main has left its select.
SendError == errChan' = IF main = "select" THEN errChan + 1 ELSE errChan

Busy == {r \in Requests : request[r] # Idle}

-----------------------------------------------------------------------------
\* The process is gone, with its memory and its connections.
Exit ==
    /\ main' = "down"
    /\ http' = "none" /\ httpStop' = "none"
    /\ grpc' = "none" /\ grpcServer' = FALSE /\ grpcStop' = "none"
    /\ errChan' = 0
    /\ pool' = "none" /\ conns' = {}
    /\ request' = [r \in Requests |-> Idle]
    /\ UNCHANGED <<dbVars, tokens>>

Init ==
    /\ AccountsInit
    /\ main = "down"
    /\ http = "none" /\ httpStop = "none"
    /\ grpc = "none" /\ grpcServer = FALSE /\ grpcStop = "none"
    /\ errChan = 0

Start ==
    /\ main = "down"
    /\ main' = "migrations"
    /\ UNCHANGED <<accountVars, serverVars>>

Migrate ==
    /\ main = "migrations"
    /\ RunMigrations
    /\ main' = "database"
    /\ UNCHANGED <<tokens, pool, conns, request, serverVars>>

InitDB ==
    /\ main = "database"
    /\ pool' = "open"
    /\ main' = "services"
    /\ UNCHANGED <<dbVars, tokens, conns, request, serverVars>>

\* Certificates, port manager and key store are made and the two servers started.
StartServers ==
    /\ main = "services"
    /\ http' = "starting" /\ grpc' = "listen"
    /\ main' = "select"
    /\ UNCHANGED <<accountVars, httpStop, grpcServer, grpcStop, errChan>>

\* Each of these steps may fail, and main calls os.Exit(1).
StartUpFails == main \in {"migrations", "database", "services"} /\ Exit

-----------------------------------------------------------------------------
\* The HTTP goroutine.
ListenAndServe ==
    /\ http = "starting" /\ httpStop = "none"
    /\ http' = "serving"
    /\ UNCHANGED <<accountVars, main, httpStop, grpc, grpcServer, grpcStop, errChan>>

\* The port is taken, or accepting fails, which leaves the accepted connections: the
\* error goes to main.
HttpFails ==
    /\ http \in {"starting", "serving"} /\ httpStop = "none"
    /\ http' = (IF http = "starting" THEN "failed" ELSE "broken")
    /\ SendError
    /\ UNCHANGED <<accountVars, main, httpStop, grpc, grpcServer, grpcStop>>

\* The gRPC goroutine: Start listens, loads the credentials and sets s.grpcServer...
GrpcCreate ==
    /\ grpc = "listen"
    /\ grpc' = "created" /\ grpcServer' = TRUE
    /\ UNCHANGED <<accountVars, main, http, httpStop, grpcStop, errChan>>

\* ... and serves.
GrpcServe ==
    /\ grpc = "created" /\ grpcStop = "none"
    /\ grpc' = "serving"
    /\ UNCHANGED <<accountVars, main, http, httpStop, grpcServer, grpcStop, errChan>>

\* Mutant of GrpcFails: the error is logged and not sent.
GrpcFailsQuietly ==
    /\ grpc \in {"listen", "serving"} /\ grpcStop = "none"
    /\ grpc' = "failed"
    /\ UNCHANGED <<accountVars, main, http, httpStop, grpcServer, grpcStop, errChan>>

\* No port, no credentials, or accepting fails: the error goes to main.
GrpcFails ==
    /\ grpc \in {"listen", "serving"} /\ grpcStop = "none"
    /\ grpc' = "failed" /\ SendError
    /\ UNCHANGED <<accountVars, main, http, httpStop, grpcServer, grpcStop>>

-----------------------------------------------------------------------------
\* main's select: a signal, or an error of one of the servers.
Signal ==
    /\ main = "select"
    /\ main' = "wait" /\ errChan' = 0
    /\ UNCHANGED <<accountVars, http, httpStop, grpc, grpcServer, grpcStop>>

ServerError ==
    /\ main = "select" /\ errChan > 0
    /\ main' = "wait" /\ errChan' = 0
    /\ UNCHANGED <<accountVars, http, httpStop, grpc, grpcServer, grpcStop>>

\* Shutdown closes the listener, or keeps one from being opened, so that ListenAndServe
\* returns ErrServerClosed; it waits for the requests, for 10 seconds.
Shutdown ==
    /\ main = "wait" /\ httpStop = "none"
    /\ httpStop' = "waiting"
    /\ http' = IF http = "starting" THEN "ended" ELSE http
    /\ UNCHANGED <<accountVars, main, grpc, grpcServer, grpcStop, errChan>>

ShutdownReturns ==
    /\ httpStop = "waiting"
    /\ httpStop' \in {"timeout"} \cup (IF Busy = {} THEN {"done"} ELSE {})
    /\ UNCHANGED <<accountVars, main, http, grpc, grpcServer, grpcStop, errChan>>

\* Stop calls s.grpcServer.GracefulStop, which makes Serve return and panics on nil.
\* A Serve not yet called returns ErrServerStopped, an error nobody receives.
Stop ==
    /\ main = "wait" /\ grpcStop = "none"
    /\ IF grpcServer
         THEN /\ grpcStop' = "graceful"
              /\ grpc' = IF grpc = "failed" THEN grpc ELSE "ended"
              /\ UNCHANGED <<accountVars, main, http, httpStop, grpcServer, errChan>>
         ELSE Exit

\* GracefulStop has returned or its time is up; then the registry is stopped.
StopReturns ==
    /\ grpcStop = "graceful"
    /\ grpcStop' = "done"
    /\ UNCHANGED <<accountVars, main, http, httpStop, grpc, grpcServer, errChan>>

\* Mutant of ShutDown: main does not wait for the HTTP server.
ShutDownEarly ==
    /\ main = "wait" /\ grpcStop = "done"
    /\ pool' = "closing" /\ main' = "close"
    /\ UNCHANGED <<dbVars, tokens, conns, request, serverVars>>

\* wg.Wait is over and the deferred dbPool.Close begins.
ShutDown ==
    /\ main = "wait" /\ httpStop \in {"done", "timeout"} /\ grpcStop = "done"
    /\ pool' = "closing" /\ main' = "close"
    /\ UNCHANGED <<dbVars, tokens, conns, request, serverVars>>

\* Close waits until every connection is back; then main returns.
PoolClosed == main = "close" /\ conns = {} /\ Exit

\* The process is killed.
Crash == main # "down" /\ Exit

-----------------------------------------------------------------------------
\* A request arrives on a connection, until Shutdown has found all of them idle.
Serve(r) ==
    /\ http \in {"serving", "broken"} /\ httpStop # "done"
    /\ NewRequest(r)
    /\ UNCHANGED processVars

RequestGoesOn(r) == RequestStep(r) /\ UNCHANGED processVars

GetsConnection(r) == Acquire(r) /\ UNCHANGED processVars

RequestFails(r) == QueryFails(r) /\ UNCHANGED processVars

TokenExpires == \E t \in tokens : Expire(t) /\ UNCHANGED processVars

Servers ==
    \/ ListenAndServe
    \/ GrpcCreate \/ GrpcServe

MainStep ==
    \/ Migrate \/ InitDB \/ StartServers
    \/ ServerError \/ ShutDown \/ PoolClosed

Stopping == Shutdown \/ ShutdownReturns \/ Stop \/ StopReturns

Next ==
    \/ Start \/ MainStep \/ StartUpFails \/ Signal
    \/ Servers \/ HttpFails \/ GrpcFails
    \/ Stopping
    \/ Crash
    \/ \E r \in Requests : Serve(r) \/ RequestGoesOn(r) \/ RequestFails(r)
    \/ TokenExpires

\* main and the goroutines that stop the servers are scheduled (whether a server ever
\* comes up is left open), and every statement ends: db.go sets no statement timeout, so
\* this is an assumption about the database.  The pool serves its queue in order, so a
\* request that waits for a connection is not passed over for ever.
Fairness ==
    /\ WF_vars(MainStep)
    /\ WF_vars(Shutdown \/ ShutdownReturns)
    /\ WF_vars(Stop \/ StopReturns)
    /\ \A r \in Requests : /\ WF_vars(RequestGoesOn(r))
                           /\ SF_vars(GetsConnection(r))

Spec == Init /\ [][Next]_vars /\ Fairness

-----------------------------------------------------------------------------
\* DeletesOwnAccount: a step that removes a row removes the account the request's
\* token was issued for.  A token outlives its account (middleware/auth.go looks at the
\* claims only), and its name may have been registered again by someone else.
DeletesOwnAccount ==
    [][\A u \in users \ users' :
          \E r \in Requests : request[r].op = "delete" /\ request[r].user = u]_vars

\* PoolClosesUnused: when main closes the pool no request is under way, unless the HTTP
\* server's Shutdown has run into its timeout (main.go:44, 160-184).
PoolClosesUnused == pool = "closing" => Busy = {} \/ httpStop = "timeout"

\* RequestEnds: every request is answered or dies with its process, as long as the
\* statements end: also when another request holds the pool's last connection
\* (db.go:24), and while the pool is being closed.  A request that kept its connection
\* while it waits for a second one would wait for ever.
RequestEnds == \A r \in Requests : request[r] # Idle ~> request[r] = Idle

\* ProcessEnds: a server that has failed takes the process down, so that no half of it
\* goes on alone, and a shutdown that has begun ends (main.go:135-184).
ProcessEnds == (http \in {"failed", "broken"} \/ grpc = "failed" \/ main = "wait") ~> main = "down"
=============================================================================
