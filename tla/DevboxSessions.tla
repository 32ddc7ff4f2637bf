--------------------------- MODULE DevboxSessions ---------------------------
(***************************************************************************)
(* The devbox sessions of one user: the CLI's connection loop              *)
(* (crates/cli/src/devbox/commands/connect.rs), the RPC websocket of the   *)
(* API (crates/api/src/devbox.rs), the session row in the database, the    *)
(* choice of the active environment, and the tasks that push or clear the  *)
(* routes of an environment in its cluster.                                *)
(*                                                                         *)
(* The user has one session row, which every connection takes over.  A new *)
(* connection tells the ones it finds that they are displaced; the end of  *)
(* any connection revokes the row.  Pushing and clearing routes runs in    *)
(* spawned tasks, in any order.  The environments have bases of their own, *)
(* so that the routes of one do not touch those of another; DevboxRoutes   *)
(* models environments that share a base.                                  *)
(***************************************************************************)
EXTENDS Naturals, FiniteSets

CONSTANTS
    Devices,       \* devices the user runs the CLI on, each with its token
    Envs,          \* environments the user may work in
    NoDevice, NoEnv,
    MaxConns,      \* bound on connections
    MaxSwitches,   \* bound on changes of the active environment
    MaxFaults,     \* bound on lost connections, failures and revocations
    MaxLoad        \* bound on connections, changes and faults together

ASSUME NoDeviceAssumption == NoDevice \notin Devices
ASSUME NoEnvAssumption == NoEnv \notin Envs
ASSUME BoundsAssumption == /\ MaxConns \in Nat /\ MaxSwitches \in Nat
                           /\ MaxFaults \in Nat /\ MaxLoad \in Nat

None == 0
Conns == 1 .. MaxConns
Requests == 1 .. MaxSwitches

VARIABLES
    row,        \* the session: the connection that stored it, revoked_at, active_environment_id
    conn,       \* conn[c]: how far the API has come with connection c
    device,     \* device[c]: the device c comes from
    found,      \* found[c]: the environment c's cleanup read from the row
    told,       \* connections with a displacement to deliver
    cli,        \* cli[d]: how far the CLI of d is
    line,       \* line[d]: the connection whose end at d is open
    request,    \* request[r]: a change of the active environment
    jobs,       \* spawned tasks: pairs of "push" or "clear" and an environment
    routes,     \* environments whose routes to the user are in place
    faults,     \* faults so far
    crossing,   \* history: environments whose pending tasks met another
    stray,      \* history: environments whose routes nobody answers for
    together    \* history: pairs of connections that did not find each other

sessionVars == <<row, conn, device, found, told>>
cliVars == <<cli, line>>
routeVars == <<jobs, routes, crossing>>
vars == <<row, conn, device, found, told, cli, line, request, jobs, routes, faults,
          crossing, stray, together>>

\* get_active_devbox_session: the environment of the row, if it is not revoked.
Active == ~row.revoked
ActiveEnv == IF Active THEN row.env ELSE NoEnv

\* CoreState.active_devbox_sessions: the handles of the user.
Handles == {c \in Conns : conn[c] \in {"registered", "greeted"}}

Free == [op |-> "new", env |-> NoEnv, prev |-> NoEnv]

Init ==
    /\ row = [by |-> None, revoked |-> TRUE, env |-> NoEnv]
    /\ conn = [c \in Conns |-> "new"]
    /\ device = [c \in Conns |-> NoDevice]
    /\ found = [c \in Conns |-> NoEnv]
    /\ told = {}
    /\ cli = [d \in Devices |-> "off"]
    /\ line = [d \in Devices |-> None]
    /\ request = [r \in Requests |-> Free]
    /\ jobs = {} /\ routes = {}
    /\ faults = 0
    /\ crossing = {} /\ stray = {} /\ together = {}

\* tokio::spawn of pushes to P and clears of C.
Spawn(P, C) ==
    LET new == ({"push"} \X P) \cup ({"clear"} \X C)
        met == {e \in Envs : \E j \in jobs, k \in new : j[2] = e /\ k[2] = e}
    IN /\ jobs' = jobs \cup new
       /\ crossing' = crossing \cup met
       /\ UNCHANGED routes

Room == faults + Cardinality({c \in Conns : conn[c] # "new"})
               + Cardinality({r \in Requests : request[r] # Free}) < MaxLoad
Fault == Room /\ faults < MaxFaults /\ faults' = faults + 1
Some(e) == {e} \ {NoEnv}

----------------------------------------------------------------------------
\* The CLI.

\* execute and connect_and_run_rpc: the first connection, or a retry.
Connect(c, d) ==
    /\ Room
    /\ cli[d] \in {"off", "retry"}
    /\ conn[c] = "new"
    /\ \A b \in Conns : conn[b] = "new" => c <= b
    /\ conn' = [conn EXCEPT ![c] = "accepted"]
    /\ device' = [device EXCEPT ![c] = d]
    /\ cli' = [cli EXCEPT ![d] = IF @ = "off" THEN "first" ELSE "again"]
    /\ line' = [line EXCEPT ![d] = c]
    /\ UNCHANGED <<row, found, told, request, routeVars, faults, stray, together>>

\* The end at the CLI closes, and the CLI goes on in state s.
Hangup(d, s) ==
    /\ cli' = [cli EXCEPT ![d] = s]
    /\ line' = [line EXCEPT ![d] = None]

\* Mutant: routes are pushed although no environment is active.
WhoamiAlways(c) ==
    LET d == device[c] IN
    /\ conn[c] = "registered" /\ line[d] = c
    /\ Active
    /\ cli' = [cli EXCEPT ![d] = "up"]
    /\ conn' = [conn EXCEPT ![c] = "greeted"]
    /\ Spawn({row.env}, {})
    /\ UNCHANGED <<line, row, device, found, told, request, faults, stray, together>>

\* whoami: the answer is the active session, whoever stored it; routes of its
\* environment are pushed.  An error ends a first connection attempt for good.
Whoami(c) ==
    LET d == device[c] IN
    /\ conn[c] = "registered"
    /\ line[d] = c
    /\ IF Active
       THEN /\ cli' = [cli EXCEPT ![d] = "up"]
            /\ conn' = [conn EXCEPT ![c] = "greeted"]
            /\ Spawn(Some(row.env), {})
            /\ UNCHANGED line
       ELSE /\ Hangup(d, IF cli[d] = "first" THEN "exited" ELSE "retry")
            /\ UNCHANGED <<conn, routeVars>>
    /\ UNCHANGED <<row, device, found, told, request, faults, stray, together>>

\* A heartbeat is lost, or the RPC server of the CLI ends: it will reconnect.
LoseConnection(d) ==
    /\ Fault
    /\ cli[d] \in {"first", "again", "up"}
    /\ Hangup(d, IF cli[d] = "first" THEN "exited" ELSE "retry")
    /\ UNCHANGED <<sessionVars, request, routeVars, stray, together>>

\* Ctrl+C.
Quit(d) ==
    /\ cli[d] \in {"up", "retry"}
    /\ Hangup(d, "exited")
    /\ UNCHANGED <<sessionVars, request, routeVars, faults, stray, together>>

\* session_displaced reaches the CLI, whose RPC server runs once it was greeted.
Displaced(c) ==
    /\ c \in told
    /\ line[device[c]] = c
    /\ cli[device[c]] = "up"
    /\ told' = told \ {c}
    /\ Hangup(device[c], "exited")
    /\ UNCHANGED <<row, conn, device, found, request, routeVars, faults, stray, together>>

----------------------------------------------------------------------------
\* devbox_rpc_websocket and handle_devbox_rpc.

\* Mutant: only the last handle is told.
DisplaceLast(c) ==
    /\ conn[c] = "accepted"
    /\ conn' = [conn EXCEPT ![c] = "alone"]
    /\ told' = told \cup {b \in Handles : \A x \in Handles : x <= b}
    /\ together' = together \cup {{b, c} : b \in {x \in Conns : conn[x] \in {"alone", "stored"}}}
    /\ UNCHANGED <<row, device, found, cliVars, request, routeVars, faults, stray>>

\* Handles that are registered are told; those still on their way are missed.
Displace(c) ==
    /\ conn[c] = "accepted"
    /\ conn' = [conn EXCEPT ![c] = "alone"]
    /\ told' = told \cup Handles
    /\ together' = together \cup {{b, c} : b \in {x \in Conns : conn[x] \in {"alone", "stored"}}}
    /\ UNCHANGED <<row, device, found, cliVars, request, routeVars, faults, stray>>

\* create_or_update_devbox_session: the row is taken over, its environment kept.
Store(c) ==
    /\ conn[c] = "alone"
    /\ conn' = [conn EXCEPT ![c] = "stored"]
    /\ row' = [row EXCEPT !.by = c, !.revoked = FALSE]
    /\ UNCHANGED <<device, found, told, cliVars, request, routeVars, faults, stray, together>>

Register(c) ==
    /\ conn[c] = "stored"
    /\ conn' = [conn EXCEPT ![c] = "registered"]
    /\ UNCHANGED <<row, device, found, told, cliVars, request, routeVars, faults, stray, together>>

\* The client is gone before the websocket is up: the request is dropped where
\* it is, or on_failed_upgrade logs; a row that was stored stays.
UpgradeFails(c) ==
    /\ conn[c] \in {"accepted", "alone", "stored"}
    /\ line[device[c]] # c
    /\ conn' = [conn EXCEPT ![c] = "gone"]
    /\ UNCHANGED <<row, device, found, told, cliVars, request, routeVars, faults, stray, together>>

\* The RPC server has stopped: the handle is removed and notifications end.
Unlist(c) ==
    /\ c \in Handles
    /\ line[device[c]] # c
    /\ conn' = [conn EXCEPT ![c] = "unlisted"]
    /\ told' = told \ {c}
    /\ UNCHANGED <<row, device, found, cliVars, request, routeVars, faults, stray, together>>

\* Mutant: the session is read after it was revoked.
ReadRevoked(c) ==
    /\ conn[c] = "unlisted"
    /\ conn' = [conn EXCEPT ![c] = "read"]
    /\ found' = [found EXCEPT ![c] = ActiveEnv]
    /\ stray' = stray \ {ActiveEnv}
    /\ UNCHANGED <<row, device, told, cliVars, request, routeVars, faults, together>>

\* The user's active session is read, and the routes of its environment go.
ReadRow(c) ==
    /\ conn[c] = "unlisted"
    /\ conn' = [conn EXCEPT ![c] = "read"]
    /\ found' = [found EXCEPT ![c] = ActiveEnv]
    /\ Spawn({}, Some(ActiveEnv))
    /\ stray' = stray \ {ActiveEnv}
    /\ UNCHANGED <<row, device, told, cliVars, request, faults, together>>

Others(c) == {b \in Conns \ {c} : conn[b] \in {"stored", "registered", "greeted", "unlisted"}}

\* revoke_active_devbox_session revokes the row of the user, also when another
\* connection has taken it over.
Revoke(c) ==
    /\ conn[c] = "read"
    /\ conn' = [conn EXCEPT ![c] = "gone"]
    /\ stray' = stray \cup (Some(ActiveEnv) \ IF Others(c) = {} THEN {found[c]} ELSE {})
    /\ row' = [row EXCEPT !.revoked = TRUE]
    /\ found' = [found EXCEPT ![c] = NoEnv]
    /\ UNCHANGED <<device, told, cliVars, request, routeVars, faults, together>>

\* devbox_session_revoke_session: by the id of the row.  Handles carry the id in
\* the token, which the CLI drew at login, so none is found and none is told.
DashboardRevoke ==
    /\ Active
    /\ Fault
    /\ stray' = stray \cup Some(row.env)
    /\ row' = [row EXCEPT !.revoked = TRUE]
    /\ UNCHANGED <<conn, device, found, told, cliVars, request, routeVars, together>>

----------------------------------------------------------------------------
\* The active environment: set_active_environment of the session, and
\* devbox_session_set_active_environment of the dashboard.

\* The session is read; only the dashboard insists that there is one.
StartSwitch(r, e, via) ==
    /\ Room
    /\ request[r] = Free
    /\ \A q \in Requests : request[q] = Free => r <= q
    /\ IF via = "dashboard" THEN Active ELSE \E c \in Handles : conn[c] = "greeted"
    /\ request' = [request EXCEPT ![r] = [op |-> "write", env |-> e, prev |-> ActiveEnv]]
    /\ UNCHANGED <<sessionVars, cliVars, routeVars, faults, stray, together>>

\* update_devbox_session_active_environment: only a row that is not revoked.
UpdateEnv(e) == row' = IF Active THEN [row EXCEPT !.env = e] ELSE row

\* What the row said when it was read is out of date, or it is revoked, or no
\* connection is there whose end would clear the routes.
Overtaken(r) ==
    (Some(ActiveEnv) \ {request[r].prev, request[r].env})
      \cup (IF Active /\ Handles # {} THEN {} ELSE {request[r].env})

\* History: the environment of a revoked row is no less stray for being cleared, as
\* the next connection to store the row makes it active again, for whoever is
\* still connected.
Dormant == IF Active THEN {} ELSE {row.env}

\* The row is written, and tasks push the new environment and clear the one read.
FinishSwitch(r) ==
    /\ request[r].op = "write"
    /\ UpdateEnv(request[r].env)
    /\ Spawn({request[r].env}, Some(request[r].prev) \ {request[r].env})
    /\ stray' = (stray \ ({request[r].prev} \ Dormant)) \cup Overtaken(r)
    /\ request' = [request EXCEPT ![r] = [Free EXCEPT !.op = "done"]]
    /\ UNCHANGED <<conn, device, found, told, cliVars, faults, together>>

\* A query after the update fails, and nothing is pushed or cleared.
SwitchFails(r) ==
    /\ request[r].op = "write"
    /\ Fault
    /\ UpdateEnv(request[r].env)
    /\ stray' = stray \cup Overtaken(r) \cup Some(request[r].prev) \cup {request[r].env}
    /\ request' = [request EXCEPT ![r] = [Free EXCEPT !.op = "done"]]
    /\ UNCHANGED <<conn, device, found, told, cliVars, routeVars, together>>

----------------------------------------------------------------------------
\* push_devbox_routes and clear_devbox_routes_for_environment, to their end.

Uncross(j) == IF \E k \in jobs \ {j} : k[2] = j[2] THEN crossing ELSE crossing \ {j[2]}

RunJob(j) ==
    /\ j \in jobs
    /\ jobs' = jobs \ {j}
    /\ routes' = IF j[1] = "push" THEN routes \cup {j[2]} ELSE routes \ {j[2]}
    /\ crossing' = Uncross(j)
    /\ stray' = IF j[2] \in crossing THEN stray \cup {j[2]} ELSE stray
    /\ UNCHANGED <<sessionVars, cliVars, request, faults, together>>

\* No server of the cluster answers: a warning.
JobFails(j) ==
    /\ j \in jobs
    /\ Fault
    /\ jobs' = jobs \ {j}
    /\ crossing' = Uncross(j)
    /\ stray' = stray \cup {j[2]}
    /\ UNCHANGED <<routes, sessionVars, cliVars, request, together>>

----------------------------------------------------------------------------
Serve(c) ==
    \/ Displace(c) \/ Store(c) \/ Register(c) \/ UpgradeFails(c)
    \/ Unlist(c) \/ ReadRow(c) \/ Revoke(c)

Jobs == {"push", "clear"} \X Envs

Next ==
    \/ \E c \in Conns : Serve(c) \/ Whoami(c) \/ Displaced(c)
    \/ \E c \in Conns, d \in Devices : Connect(c, d)
    \/ \E d \in Devices : LoseConnection(d) \/ Quit(d)
    \/ DashboardRevoke
    \/ \E r \in Requests, e \in Envs, via \in {"dashboard", "rpc"} : StartSwitch(r, e, via)
    \/ \E r \in Requests : FinishSwitch(r) \/ SwitchFails(r)
    \/ \E j \in Jobs : RunJob(j) \/ JobFails(j)

Spec == Init /\ [][Next]_vars

----------------------------------------------------------------------------
TypeOK ==
    /\ row \in [by: Conns \cup {None}, revoked: BOOLEAN, env: Envs \cup {NoEnv}]
    /\ conn \in [Conns -> {"new", "accepted", "alone", "stored", "registered", "greeted",
                           "unlisted", "read", "gone"}]
    /\ device \in [Conns -> Devices \cup {NoDevice}]
    /\ found \in [Conns -> Envs \cup {NoEnv}]
    /\ told \subseteq Conns
    /\ cli \in [Devices -> {"off", "first", "again", "up", "retry", "exited"}]
    /\ line \in [Devices -> Conns \cup {None}]
    /\ request \in [Requests -> [op: {"new", "write", "done"}, env: Envs \cup {NoEnv},
                                 prev: Envs \cup {NoEnv}]]
    /\ jobs \subseteq Jobs
    /\ routes \subseteq Envs /\ crossing \subseteq Envs /\ stray \subseteq Envs
    /\ faults \in 0 .. MaxFaults
    /\ together \subseteq SUBSET Conns

Settled ==
    /\ \A c \in Conns : conn[c] \in {"new", "greeted", "gone"}
    /\ \A r \in Requests : request[r].op # "write"
    /\ jobs = {}

\* Once everything spawned has run, the cluster routes the user's traffic for
\* exactly the environment of the session a connection keeps alive.
RoutesFollowSession ==
    Settled => routes \ stray = (IF Handles = {} THEN {} ELSE Some(ActiveEnv)) \ stray

Open(c) == c \in Handles /\ line[device[c]] = c

\* At most one of the user's connections stays up: the others were told to
\* leave, unless the two connected at once and neither found the other.
OneSession ==
    Settled => \A b, c \in Conns :
      b # c /\ Open(b) /\ Open(c) => b \in told \/ c \in told \/ {b, c} \in together
=============================================================================
