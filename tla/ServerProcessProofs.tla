-------------------------- MODULE ServerProcessProofs --------------------------
(***************************************************************************)
(* What the pool and the users table rely on, for every number of          *)
(* requests, names, accounts and tokens, and for every size of the pool.   *)
(*                                                                         *)
(* PoolClosesUnused needs to know where main and Shutdown stand when the   *)
(* pool is closed (ProcessInv).  DeletesOwnAccount needs that an id never  *)
(* means two accounts, wherever it is kept: in the table, in a token or in *)
(* a request (AccountsInv).                                                *)
(***************************************************************************)
EXTENDS ServerProcess, TLAPS

Users == [id : Ids \cup {0}, name : Names, role : {"Admin", "User"}]

RequestRecord ==
    [op : {"none", "register", "login", "delete", "list"},
     pc : {"none", "acquire", "acquireCount", "query", "count", "password"},
     user : Users]

\* Everything that names an account: its row, tokens, and requests that have found
\* the row or were let in with a token.
Known ==
    users \cup tokens \cup {request[r].user : r \in {q \in Requests : request[q].user.id # 0}}

AccountsInv ==
    /\ users \subseteq Users /\ tokens \subseteq Users
    /\ migrated \in BOOLEAN
    /\ request \in [Requests -> RequestRecord]
    /\ \A u \in users \cup tokens : u.id # 0
    /\ \A r \in Requests :
          request[r].pc = "password" \/ request[r].op = "delete" => request[r].user.id # 0
    /\ \A u, v \in Known : u.id = v.id => u = v

\* Nothing is served, and nothing names an account, before the table is there.
MigratedFirst ==
    ~migrated =>
        /\ main \in {"down", "migrations"} /\ http = "none"
        /\ users = {} /\ tokens = {}
        /\ \A r \in Requests : request[r] = Idle

\* The pool is closed by main after Shutdown, and Shutdown has ended well only if no
\* request was under way; from then on none comes in.
ProcessInv ==
    /\ pool = "closing" => main = "close"
    /\ main = "close" => httpStop \in {"done", "timeout"}
    /\ httpStop = "done" => Busy = {}

-----------------------------------------------------------------------------
LEMMA ProcessInvInit == Init => ProcessInv
  BY DEF Init, AccountsInit, ProcessInv, Busy

LEMMA ExitInv ==
    ASSUME Exit
    PROVE  ProcessInv'
  BY DEF Exit, ProcessInv, Busy

\* A step of a request, while there is one, leaves main and Shutdown alone.
LEMMA RequestProcessInv ==
    ASSUME ProcessInv, NEW r \in Requests, Serve(r) \/ RequestGoesOn(r) \/ RequestFails(r)
    PROVE  ProcessInv'
  <1>1. UNCHANGED <<main, httpStop, pool>>
    BY DEF Serve, RequestGoesOn, RequestFails, processVars, NewRequest, Register, Login,
           DeleteMe, List, Accept, RequestStep, Acquire, AcquireRefused, Statement, CreateUser,
           GetUserByUsername, GenerateToken, DeleteUser, ListUsersPaginated, CountUsers,
           QueryFails
  <1>2. httpStop # "done"
    <2>1. CASE Serve(r)
      BY <2>1 DEF Serve
    <2>2. CASE RequestGoesOn(r) \/ RequestFails(r)
      <3>1. request[r].pc # "none"
        BY <2>2 DEF RequestGoesOn, RequestFails, RequestStep, Acquire, AcquireRefused,
                    Statement, CreateUser, GetUserByUsername, GenerateToken, DeleteUser,
                    ListUsersPaginated, CountUsers, QueryFails
      <3>. QED
        BY <3>1 DEF ProcessInv, Busy, Idle
    <2>. QED
      BY <2>1, <2>2
  <1>. QED
    BY <1>1, <1>2 DEF ProcessInv

LEMMA ProcessInvStep == ProcessInv /\ [Next]_vars => ProcessInv'
  <1>. SUFFICES ASSUME ProcessInv, [Next]_vars PROVE ProcessInv'
    OBVIOUS
  <1>1. CASE Start \/ Migrate \/ InitDB \/ StartServers \/ Signal \/ ServerError
    BY <1>1 DEF ProcessInv, Busy, Start, Migrate, InitDB, StartServers, Signal, ServerError,
                accountVars, serverVars
  <1>2. CASE ShutDown
    BY <1>2 DEF ProcessInv, Busy, ShutDown, serverVars
  <1>3. CASE Servers \/ HttpFails \/ GrpcFails
    BY <1>3 DEF ProcessInv, Busy, Servers, ListenAndServe, GrpcCreate, GrpcServe, HttpFails,
                GrpcFails, accountVars
  <1>4. CASE Shutdown \/ ShutdownReturns \/ StopReturns
    BY <1>4 DEF ProcessInv, Busy, Shutdown, ShutdownReturns, StopReturns, accountVars
  <1>5. CASE Stop
    BY <1>5, ExitInv DEF ProcessInv, Busy, Stop, accountVars
  <1>6. CASE StartUpFails \/ PoolClosed \/ Crash
    BY <1>6, ExitInv DEF StartUpFails, PoolClosed, Crash
  <1>7. ASSUME NEW r \in Requests, Serve(r) \/ RequestGoesOn(r) \/ RequestFails(r)
        PROVE  ProcessInv'
    BY <1>7, RequestProcessInv
  <1>8. CASE TokenExpires \/ UNCHANGED vars
    BY <1>8 DEF ProcessInv, Busy, TokenExpires, Expire, processVars, accountVars, vars
  <1>. QED
    BY <1>1, <1>2, <1>3, <1>4, <1>5, <1>6, <1>7, <1>8 DEF Next, MainStep, Stopping

\* When main closes the pool no request is under way, unless Shutdown of the HTTP
\* server ran into its timeout.
THEOREM PoolClosedUnused == Spec => []PoolClosesUnused
  <1>1. ProcessInv => PoolClosesUnused
    BY DEF ProcessInv, PoolClosesUnused
  <1>. QED
    BY <1>1, ProcessInvInit, ProcessInvStep, PTL DEF Spec

-----------------------------------------------------------------------------
\* A request that is over names nobody.
LEMMA IdleNamesNobody == Idle \in RequestRecord /\ Idle.user.id = 0
                         /\ Idle.pc = "none" /\ Idle.op = "none"
  BY AccountsAssumption DEF Idle, RequestRecord, Users, User

LEMMA AccountsInvInit == Init => AccountsInv
  <1>. SUFFICES ASSUME Init PROVE AccountsInv
    OBVIOUS
  <1>1. \A r \in Requests : request[r] = Idle
    BY DEF Init, AccountsInit
  <1>2. Known = {}
    BY <1>1, IdleNamesNobody DEF Init, AccountsInit, Known
  <1>3. request \in [Requests -> RequestRecord]
    BY IdleNamesNobody DEF Init, AccountsInit
  <1>. QED
    BY <1>1, <1>2, <1>3, IdleNamesNobody, Zenon DEF Init, AccountsInit, AccountsInv

\* A step of request r keeps the invariant when what it leaves of r, of the table and
\* of the tokens names only accounts that were named before.
LEMMA KeepsKnown ==
    ASSUME AccountsInv, NEW r \in Requests, NEW q \in RequestRecord,
           request' = [request EXCEPT ![r] = q],
           q.pc = "password" \/ q.op = "delete" => q.user.id # 0,
           q.user.id # 0 => q.user \in Known,
           users' \subseteq users, tokens' \subseteq Known, tokens' \subseteq Users,
           \A u \in tokens' : u.id # 0,
           migrated' = migrated
    PROVE  AccountsInv'
  <1>1. request' \in [Requests -> RequestRecord] /\ request'[r] = q
        /\ \A p \in Requests \ {r} : request'[p] = request[p]
    BY DEF AccountsInv
  <1>2. Known' \subseteq Known
    <2>. SUFFICES ASSUME NEW u \in Known' PROVE u \in Known
      OBVIOUS
    <2>1. CASE u \in users' \cup tokens'
      BY <2>1 DEF Known
    <2>2. ASSUME NEW p \in Requests, request'[p].user.id # 0, u = request'[p].user
          PROVE  u \in Known
      BY <1>1, <2>2 DEF Known
    <2>. QED
      BY <2>1, <2>2 DEF Known
  <1>. QED
    BY <1>1, <1>2 DEF AccountsInv

LEMMA AcceptInv ==
    ASSUME AccountsInv, NEW r \in Requests, NewRequest(r)
    PROVE  AccountsInv'
  <1>. DEFINE accepted(op, u) == [op |-> op, pc |-> "acquire", user |-> u]
  <1>1. ASSUME NEW n \in Names, NEW op \in {"register", "login"},
               Accept(r, op, User(0, n, "User"))
        PROVE  AccountsInv'
    <2>1. accepted(op, User(0, n, "User")) \in RequestRecord
      BY DEF RequestRecord, Users, User
    <2>2. User(0, n, "User").id = 0 /\ tokens \subseteq Known
      BY DEF User, Known
    <2>. QED
      BY <1>1, <2>1, <2>2, KeepsKnown, Zenon DEF Accept, AccountsInv, dbVars
  <1>2. ASSUME NEW t \in tokens, NEW op \in {"delete", "list"}, Accept(r, op, t)
        PROVE  AccountsInv'
    <2>1. accepted(op, t) \in RequestRecord /\ t.id # 0 /\ t \in Known
      BY DEF RequestRecord, AccountsInv, Known
    <2>. QED
      BY <1>2, <2>1, KeepsKnown DEF Accept, AccountsInv, Known, dbVars
  <1>. QED
    BY <1>1, <1>2 DEF NewRequest, Register, Login, DeleteMe, List

\* A request ends, or goes on, and changes nothing but itself.
LEMMA RequestMovesInv ==
    ASSUME AccountsInv, NEW r \in Requests,
           \/ Acquire(r) \/ AcquireRefused(r) \/ GetUserByUsername(r)
           \/ ListUsersPaginated(r) \/ CountUsers(r) \/ QueryFails(r)
    PROVE  AccountsInv'
  <1>1. UNCHANGED <<users, migrated, tokens>>
    BY DEF Acquire, AcquireRefused, GetUserByUsername, ListUsersPaginated, CountUsers,
           QueryFails, Statement, dbVars
  <1>2. request[r] \in RequestRecord /\ tokens \subseteq Known /\ users \subseteq Known
    BY DEF AccountsInv, Known
  <1>3. CASE request' = [request EXCEPT ![r] = Idle]
    BY <1>1, <1>2, <1>3, KeepsKnown, IdleNamesNobody, Zenon DEF AccountsInv
  <1>4. ASSUME NEW pc \in {"query", "count", "acquireCount"},
               request' = [request EXCEPT ![r].pc = pc]
        PROVE  AccountsInv'
    <2>. DEFINE q == [request[r] EXCEPT !.pc = pc]
    <2>1. /\ q \in RequestRecord /\ q.pc = pc /\ q.op = request[r].op
          /\ q.user = request[r].user
      BY <1>2 DEF RequestRecord
    <2>2. request' = [request EXCEPT ![r] = q]
      BY <1>4
    <2>3. q.user.id # 0 => q.user \in Known
      BY <2>1 DEF Known
    <2>. HIDE DEF q
    <2>. QED
      BY <1>1, <1>2, <2>1, <2>2, <2>3, KeepsKnown, Zenon DEF AccountsInv
  <1>5. ASSUME NEW u \in users,
               request' = [request EXCEPT ![r].pc = "password", ![r].user = u]
        PROVE  AccountsInv'
    <2>. DEFINE q == [request[r] EXCEPT !.pc = "password", !.user = u]
    <2>1. u \in Users /\ u.id # 0
      BY DEF AccountsInv
    <2>2. q \in RequestRecord /\ q.user = u
      BY <1>2, <2>1, Zenon DEF RequestRecord
    <2>3. request' = [request EXCEPT ![r] = q]
      BY <1>5, Zenon
    <2>. HIDE DEF q
    <2>. QED
      BY <1>1, <1>2, <2>1, <2>2, <2>3, KeepsKnown, Zenon DEF AccountsInv
  <1>. QED
    BY <1>3, <1>4, <1>5
       DEF Acquire, AcquireRefused, GetUserByUsername, ListUsersPaginated, CountUsers,
           QueryFails, Statement, Answered, Named

\* GenerateToken gives out the claims of the row that the request found.
LEMMA GenerateTokenInv ==
    ASSUME AccountsInv, NEW r \in Requests, GenerateToken(r)
    PROVE  AccountsInv'
  <1>1. request[r].user \in Users /\ request[r].user.id # 0 /\ request[r].user \in Known
    BY DEF GenerateToken, AccountsInv, RequestRecord, Known
  <1>2. tokens' \subseteq tokens \cup {request[r].user}
    BY DEF GenerateToken
  <1>3. /\ tokens' \subseteq Known /\ tokens' \subseteq Users
        /\ \A u \in tokens' : u.id # 0
    BY <1>1, <1>2 DEF AccountsInv, Known
  <1>4. request' = [request EXCEPT ![r] = Idle] /\ UNCHANGED <<users, migrated>>
    BY DEF GenerateToken, Answered, dbVars
  <1>. QED
    BY <1>3, <1>4, KeepsKnown, IdleNamesNobody, Zenon

LEMMA DeleteUserInv ==
    ASSUME AccountsInv, NEW r \in Requests, DeleteUser(r)
    PROVE  AccountsInv'
  <1>1. /\ request' = [request EXCEPT ![r] = Idle] /\ UNCHANGED <<tokens, migrated>>
        /\ users' \subseteq users
    BY DEF DeleteUser, Statement, Answered
  <1>2. tokens \subseteq Known
    BY DEF Known
  <1>. QED
    BY <1>1, <1>2, KeepsKnown, IdleNamesNobody, Zenon DEF AccountsInv

\* CreateUser: the id is in nobody's hands, so that no old token means the new row.
LEMMA CreateUserInv ==
    ASSUME AccountsInv, NEW r \in Requests, CreateUser(r)
    PROVE  AccountsInv'
  <1>1. /\ request' = [request EXCEPT ![r] = Idle] /\ UNCHANGED <<tokens, migrated>>
        /\ tokens \subseteq Known
    BY DEF CreateUser, Statement, Answered, Known
  <1>2. CASE UNCHANGED users
    BY <1>1, <1>2, KeepsKnown, IdleNamesNobody, Zenon DEF AccountsInv
  <1>3. CASE Named(request[r].user.name) = {}
             /\ \E i \in Ids : /\ NewId(i)
                               /\ users' = users \cup {User(i, request[r].user.name, "User")}
    <2>1. PICK i \in Ids : NewId(i) /\ users' = users \cup {User(i, request[r].user.name, "User")}
      BY <1>3
    <2>. DEFINE new == User(i, request[r].user.name, "User")
    <2>2. new \in Users /\ new.id = i /\ i # 0
      BY DEF AccountsInv, RequestRecord, Users, User, Ids
    <2>3. \A u \in Known : u.id # i
      BY <2>1 DEF NewId, Known
    <2>. HIDE DEF new
    <2>4. /\ request' \in [Requests -> RequestRecord] /\ request'[r] = Idle
          /\ \A p \in Requests \ {r} : request'[p] = request[p]
      BY <1>1, IdleNamesNobody DEF AccountsInv
    <2>5. Known' \subseteq Known \cup {new}
      <3>. SUFFICES ASSUME NEW u \in Known' PROVE u \in Known \cup {new}
        OBVIOUS
      <3>1. CASE u \in users' \cup tokens'
        BY <1>1, <2>1, <3>1 DEF Known, new
      <3>2. ASSUME NEW p \in Requests, request'[p].user.id # 0, u = request'[p].user
            PROVE  u \in Known
        BY <2>4, <3>2, IdleNamesNobody DEF Known
      <3>. QED
        BY <3>1, <3>2 DEF Known
    <2>6. \A u, v \in Known' : u.id = v.id => u = v
      BY <2>2, <2>3, <2>5 DEF AccountsInv
    <2>. QED
      BY <1>1, <2>1, <2>2, <2>4, <2>6, IdleNamesNobody DEF AccountsInv, new
  <1>. QED
    BY <1>2, <1>3 DEF CreateUser

\* RunMigrations inserts the root user only where nothing names an account yet.
LEMMA MigrateInv ==
    ASSUME AccountsInv, MigratedFirst, Migrate
    PROVE  AccountsInv'
  <1>1. UNCHANGED <<tokens, request>> /\ migrated' = TRUE
    BY DEF Migrate, RunMigrations
  <1>2. CASE migrated
    BY <1>1, <1>2 DEF Migrate, RunMigrations, AccountsInv, Known
  <1>3. CASE ~migrated
    <2>. DEFINE root == User(1, Root, "Admin")
    <2>1. root \in Users /\ root.id # 0
      BY AccountsAssumption DEF User, Users, Ids
    <2>2. users' = {root} /\ tokens = {} /\ \A r \in Requests : request[r].user.id = 0
      BY <1>3, IdleNamesNobody DEF Migrate, RunMigrations, MigratedFirst
    <2>. HIDE DEF root
    <2>3. Known' = {root}
      BY <1>1, <2>2 DEF Known
    <2>. QED
      BY <1>1, <2>1, <2>2, <2>3 DEF AccountsInv
  <1>. QED
    BY <1>2, <1>3 DEF AccountsInv

\* The end of a process forgets its requests; the rows and the tokens stay.
LEMMA ExitAccountsInv ==
    ASSUME AccountsInv, Exit
    PROVE  AccountsInv'
  <1>1. UNCHANGED <<users, migrated, tokens>> /\ \A r \in Requests : request'[r] = Idle
    BY DEF Exit, dbVars
  <1>2. request' \in [Requests -> RequestRecord]
    BY IdleNamesNobody DEF Exit
  <1>3. Known' \subseteq Known
    BY <1>1, IdleNamesNobody DEF Known
  <1>. QED
    BY <1>1, <1>2, <1>3, IdleNamesNobody DEF AccountsInv

LEMMA ExpireInv ==
    ASSUME AccountsInv, TokenExpires
    PROVE  AccountsInv'
  <1>1. UNCHANGED <<users, migrated, request>> /\ tokens' \subseteq tokens
    BY DEF TokenExpires, Expire, dbVars
  <1>2. Known' \subseteq Known
    BY <1>1 DEF Known
  <1>. QED
    BY <1>1, <1>2 DEF AccountsInv

LEMMA AccountsInvStep == AccountsInv /\ MigratedFirst /\ [Next]_vars => AccountsInv'
  <1>. SUFFICES ASSUME AccountsInv, MigratedFirst, [Next]_vars PROVE AccountsInv'
    OBVIOUS
  <1>1. ASSUME NEW r \in Requests, Serve(r) \/ RequestGoesOn(r) \/ RequestFails(r)
        PROVE  AccountsInv'
    BY <1>1, AcceptInv, RequestMovesInv, GenerateTokenInv, DeleteUserInv, CreateUserInv
       DEF Serve, RequestGoesOn, RequestFails, RequestStep
  <1>2. CASE Exit
    BY <1>2, ExitAccountsInv
  <1>3. CASE Migrate \/ TokenExpires
    BY <1>3, MigrateInv, ExpireInv
  <1>4. CASE UNCHANGED <<users, migrated, tokens, request>>
    BY <1>4 DEF AccountsInv, Known
  <1>5. CASE \/ Start \/ InitDB \/ StartServers \/ Signal \/ ServerError \/ ShutDown
             \/ Servers \/ HttpFails \/ GrpcFails
             \/ Shutdown \/ ShutdownReturns \/ StopReturns \/ UNCHANGED vars
    BY <1>4, <1>5
       DEF Start, InitDB, StartServers, Signal, ServerError, ShutDown, Servers,
           ListenAndServe, GrpcCreate, GrpcServe, HttpFails, GrpcFails, Shutdown,
           ShutdownReturns, StopReturns, vars, accountVars, dbVars
  <1>6. CASE Stop \/ StartUpFails \/ PoolClosed \/ Crash
    BY <1>2, <1>4, <1>6 DEF Stop, StartUpFails, PoolClosed, Crash, accountVars, dbVars
  <1>. QED
    BY <1>1, <1>3, <1>5, <1>6 DEF Next, MainStep, Stopping

LEMMA MigratedFirstStep == AccountsInv /\ MigratedFirst /\ [Next]_vars => MigratedFirst'
  <1>. SUFFICES ASSUME MigratedFirst, [Next]_vars, ~migrated', migrated \in BOOLEAN
                PROVE  MigratedFirst'
    BY DEF MigratedFirst, AccountsInv
  <1>1. ASSUME NEW r \in Requests, Serve(r) \/ RequestGoesOn(r) \/ RequestFails(r)
        PROVE  MigratedFirst'
    <2>1. migrated' = migrated
      BY <1>1
         DEF Serve, RequestGoesOn, RequestFails, NewRequest, Register, Login,
             DeleteMe, List, Accept, RequestStep, Acquire, AcquireRefused, Statement,
             CreateUser, GetUserByUsername, GenerateToken, DeleteUser, ListUsersPaginated,
             CountUsers, QueryFails, dbVars
    <2>2. request[r].pc = "none" /\ http = "none"
      BY <2>1 DEF MigratedFirst, Idle
    <2>. QED
      BY <1>1, <2>2
         DEF Serve, RequestGoesOn, RequestFails, RequestStep, Acquire, AcquireRefused,
             Statement, CreateUser, GetUserByUsername, GenerateToken, DeleteUser,
             ListUsersPaginated, CountUsers, QueryFails
  <1>2. CASE Exit
    BY <1>2 DEF Exit, dbVars, MigratedFirst
  <1>3. CASE Migrate \/ TokenExpires
    BY <1>3 DEF Migrate, RunMigrations, TokenExpires, Expire, MigratedFirst, dbVars,
                processVars
  <1>4. CASE Start \/ UNCHANGED vars
    BY <1>4 DEF Start, MigratedFirst, vars, accountVars, dbVars, serverVars, processVars
  <1>5. CASE \/ InitDB \/ StartServers \/ Signal \/ ServerError \/ ShutDown
             \/ ListenAndServe \/ HttpFails \/ Shutdown \/ StartUpFails \/ PoolClosed \/ Crash
    BY <1>2, <1>5
       DEF InitDB, StartServers, Signal, ServerError, ShutDown, ListenAndServe, HttpFails,
           Shutdown, StartUpFails, PoolClosed, Crash, MigratedFirst, accountVars, dbVars
  <1>6. CASE GrpcCreate \/ GrpcServe \/ GrpcFails \/ ShutdownReturns \/ Stop \/ StopReturns
    BY <1>2, <1>6
       DEF GrpcCreate, GrpcServe, GrpcFails, ShutdownReturns, Stop, StopReturns,
           MigratedFirst, accountVars, dbVars
  <1>. QED
    BY <1>1, <1>3, <1>4, <1>5, <1>6 DEF Next, MainStep, Stopping, Servers

\* A row leaves the table only by DeleteUser, and it is the row whose id the request
\* has, which is the account that the request's token was issued for.
LEMMA RowsLeaveByDelete ==
    ASSUME AccountsInv, MigratedFirst, [Next]_vars, NEW u \in users \ users'
    PROVE  \E r \in Requests : request[r].op = "delete" /\ request[r].user = u
  <1>1. \E r \in Requests : DeleteUser(r)
    BY Zenon DEF Next, MainStep, Stopping, Servers, Start, Migrate, RunMigrations, MigratedFirst,
           InitDB, StartServers, StartUpFails, Signal, ServerError, ShutDown, PoolClosed,
           Crash, Exit, ListenAndServe, GrpcCreate, GrpcServe, HttpFails, GrpcFails, Shutdown,
           ShutdownReturns, Stop, StopReturns, Serve, RequestGoesOn, RequestFails,
           TokenExpires, Expire, NewRequest, Register, Login, DeleteMe, List, Accept,
           RequestStep, Acquire, AcquireRefused, CreateUser, GetUserByUsername,
           GenerateToken, ListUsersPaginated, CountUsers, QueryFails, Statement, vars,
           accountVars, dbVars
  <1>2. PICK r \in Requests : DeleteUser(r)
    BY <1>1
  <1>3. request[r].op = "delete" /\ u.id = request[r].user.id
    BY <1>2 DEF DeleteUser, Statement
  <1>4. u \in Known /\ request[r].user \in Known
    BY <1>3 DEF AccountsInv, Known
  <1>. QED
    BY <1>3, <1>4 DEF AccountsInv

\* A token removes no account but the one it was issued for, however long it outlives
\* that account and whoever has its name by then.
THEOREM TokenDeletesOwnAccount == Spec => DeletesOwnAccount
  <1>1. Init => AccountsInv /\ MigratedFirst
    BY AccountsInvInit DEF Init, AccountsInit, MigratedFirst
  <1>2. AccountsInv /\ MigratedFirst /\ [Next]_vars =>
           [\A u \in users \ users' :
               \E r \in Requests : request[r].op = "delete" /\ request[r].user = u]_vars
    BY RowsLeaveByDelete
  <1>. QED
    BY <1>1, <1>2, AccountsInvStep, MigratedFirstStep, PTL DEF Spec, DeletesOwnAccount
=============================================================================
