------------------------------- MODULE Accounts -------------------------------
(***************************************************************************)
(* The HTTP requests that work on the users table: register and login      *)
(* (internal/auth), delete and list (internal/users), behind the token     *)
(* check of internal/api/http/middleware/auth.go, over the pool of         *)
(* database connections (internal/db) and the generated statements.        *)
(*                                                                         *)
(* A statement is atomic in the database; between two statements of a      *)
(* request anything may happen.  A token is what its claims say and is     *)
(* good until it expires: no request looks whether its user still exists.  *)
(***************************************************************************)
EXTENDS Integers, FiniteSets

CONSTANTS
    Names, Root,        \* usernames, and the one the migration inserts
    Requests,           \* the goroutines of HTTP requests
    maxId,              \* how many accounts can be told apart at a time
    maxTokens,          \* how many tokens clients hold at a time
    MaxConns            \* size of the connection pool (10 in the source)

ASSUME AccountsAssumption ==
    /\ Root \in Names
    /\ {maxId, maxTokens, MaxConns} \subseteq Nat \ {0}

VARIABLES
    users,      \* the table: its rows
    migrated,   \* goose's version table has the migration
    tokens,     \* the claims of the tokens that clients hold and that have not expired
    pool,       \* the connection pool: "none", "open" or "closing"
    conns,      \* the requests that hold a connection
    request     \* per goroutine: what it does, where it stands, and for whom

dbVars == <<users, migrated>>

accountVars == <<dbVars, tokens, pool, conns, request>>

Ids == 1..maxId

\* A row of the table without the password, which is also what a token claims.
User(i, n, role) == [id |-> i, name |-> n, role |-> role]

Idle == [op |-> "none", pc |-> "none", user |-> User(0, Root, "User")]

Named(n) == {u \in users : u.name = n}

\* gen_random_uuid: an id that no row, token or request has.
NewId(i) ==
    LET inUse == {u.id : u \in users \cup tokens \cup {request[r].user : r \in Requests}} IN
    i \in Ids \ inUse /\ \A j \in Ids \ inUse : i <= j

AccountsInit ==
    /\ users = {} /\ migrated = FALSE
    /\ tokens = {}
    /\ pool = "none" /\ conns = {}
    /\ request = [r \in Requests |-> Idle]

-----------------------------------------------------------------------------
\* RunMigrations: goose applies the migration that creates the table and its root
\* user unless the version table has it, all in one transaction.
RunMigrations ==
    /\ migrated' = TRUE
    /\ users' = IF migrated THEN users ELSE {User(1, Root, "Admin")}

-----------------------------------------------------------------------------
\* A request has passed the middleware and its handler is about to run its first
\* statement.
Accept(r, op, u) ==
    /\ request[r] = Idle
    /\ request' = [request EXCEPT ![r] = [op |-> op, pc |-> "acquire", user |-> u]]
    /\ UNCHANGED <<dbVars, tokens, pool, conns>>

Register(r) == \E n \in Names : Accept(r, "register", User(0, n, "User"))

Login(r) == \E n \in Names : Accept(r, "login", User(0, n, "User"))

\* JWTAuth takes the user from the token's claims.
DeleteMe(r) == \E t \in tokens : Accept(r, "delete", t)

\* RequireRole("Admin") looks at the claims, too.
List(r) == \E t \in tokens : t.role = "Admin" /\ Accept(r, "list", t)

\* The request is over, with whatever answer.
Answered(r) == request' = [request EXCEPT ![r] = Idle]

\* The pool hands out a connection for the next statement...
Acquire(r) ==
    /\ request[r].pc \in {"acquire", "acquireCount"}
    /\ pool = "open" /\ Cardinality(conns) < MaxConns
    /\ conns' = conns \cup {r}
    /\ request' = [request EXCEPT ![r].pc = IF @ = "acquire" THEN "query" ELSE "count"]
    /\ UNCHANGED <<dbVars, tokens, pool>>

\* ... or refuses when it is being closed.
AcquireRefused(r) ==
    /\ request[r].pc \in {"acquire", "acquireCount"}
    /\ pool = "closing"
    /\ Answered(r)
    /\ UNCHANGED <<dbVars, tokens, pool, conns>>

\* A statement is run and its connection goes back to the pool.
Statement(r, op) ==
    /\ request[r].pc = "query" /\ request[r].op = op
    /\ conns' = conns \ {r}
    /\ UNCHANGED <<pool, migrated>>

\* CreateUser: the table's constraint refuses a name that is taken.  When the bound maxId
\* leaves no id the statement fails, as any statement may.
CreateUser(r) ==
    LET n == request[r].user.name IN
    /\ Statement(r, "register")
    /\ \/ Named(n) # {} /\ UNCHANGED users
       \/ /\ Named(n) = {}
          /\ \E i \in Ids : NewId(i) /\ users' = users \cup {User(i, n, "User")}
       \/ ~(\E i \in Ids : NewId(i)) /\ UNCHANGED users
    /\ Answered(r)
    /\ UNCHANGED tokens

\* GetUserByUsername: the row is what Login goes on with.
GetUserByUsername(r) ==
    /\ Statement(r, "login")
    /\ \/ Named(request[r].user.name) = {} /\ Answered(r)
       \/ \E u \in Named(request[r].user.name) :
             request' = [request EXCEPT ![r].pc = "password", ![r].user = u]
    /\ UNCHANGED <<users, tokens>>

\* CheckPassword fails, or GenerateToken signs the row's claims.
GenerateToken(r) ==
    /\ request[r].pc = "password"
    /\ \/ UNCHANGED tokens
       \/ Cardinality(tokens) < maxTokens /\ tokens' = tokens \cup {request[r].user}
    /\ Answered(r)
    /\ UNCHANGED <<dbVars, pool, conns>>

\* Mutant of DeleteUser: the row is found by the username in the claims.
DeleteUserByName(r) ==
    /\ Statement(r, "delete")
    /\ users' = {u \in users : u.name # request[r].user.name}
    /\ Answered(r)
    /\ UNCHANGED tokens

\* DeleteUser: no row with that id is no error.
DeleteUser(r) ==
    /\ Statement(r, "delete")
    /\ users' = {u \in users : u.id # request[r].user.id}
    /\ Answered(r)
    /\ UNCHANGED tokens

\* Mutant of ListUsersPaginated: the rows are not closed before the count.
ListUsersPaginatedOpen(r) ==
    /\ request[r].pc = "query" /\ request[r].op = "list"
    /\ request' = [request EXCEPT ![r].pc = "acquireCount"]
    /\ UNCHANGED <<dbVars, tokens, pool, conns>>

\* ListUsers reads the page and then, in a statement of its own, the count.
ListUsersPaginated(r) ==
    /\ Statement(r, "list")
    /\ request' = [request EXCEPT ![r].pc = "acquireCount"]
    /\ UNCHANGED <<users, tokens>>

CountUsers(r) ==
    /\ request[r].pc = "count"
    /\ conns' = conns \ {r}
    /\ Answered(r)
    /\ UNCHANGED <<dbVars, tokens, pool>>

\* The database or the client is gone: the statement is given up.
QueryFails(r) ==
    /\ request[r].pc \in {"acquire", "acquireCount", "query", "count"}
    /\ conns' = conns \ {r}
    /\ Answered(r)
    /\ UNCHANGED <<dbVars, tokens, pool>>

\* A token's time runs out, or its client forgets it.
Expire(t) ==
    /\ tokens' = tokens \ {t}
    /\ UNCHANGED <<dbVars, pool, conns, request>>

-----------------------------------------------------------------------------
NewRequest(r) == Register(r) \/ Login(r) \/ DeleteMe(r) \/ List(r)

\* What a request does by itself as long as the database answers.
RequestStep(r) ==
    \/ Acquire(r) \/ AcquireRefused(r)
    \/ CreateUser(r) \/ GetUserByUsername(r) \/ GenerateToken(r) \/ DeleteUser(r)
    \/ ListUsersPaginated(r) \/ CountUsers(r)

=============================================================================
