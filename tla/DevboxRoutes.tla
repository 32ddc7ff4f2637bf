---------------------------- MODULE DevboxRoutes ----------------------------
(***************************************************************************)
(* The devbox routes of one workload of a shared environment: the tasks of *)
(* the API that set, push and clear them (crates/api/src/state.rs), the    *)
(* kube-manager's SidecarProxyManager, which remembers the last route and  *)
(* replays it when a sidecar registers, and the sidecar's routing table    *)
(* with the streams it proxies (crates/kube-sidecar-proxy).                *)
(*                                                                         *)
(* Several branch environments share the workload and its sidecar.  Each   *)
(* belongs to one user, who may intercept it.  The kube-manager remembers  *)
(* one route per workload, whatever branch it is of, and sends to the      *)
(* newest sidecar that registered.  The sidecar changes its table under a  *)
(* lock and ends the streams of the branch after it let go of it.          *)
(*                                                                         *)
(* The connection between API and kube-manager is that of ClusterWatches;  *)
(* here a call over it arrives or fails.  The races of a session's row are *)
(* those of DevboxSessions; here a user has one session at a time, with    *)
(* the branch or another environment active.  The workload has one replica.*)
(***************************************************************************)
EXTENDS Naturals, FiniteSets

CONSTANTS
    Branches,      \* branch environments of the base environment
    NoBranch,
    MaxTasks,      \* bound on API tasks at one time
    MaxOps,        \* bound on what users, clients and administrators do
    MaxConns,      \* bound on connections the sidecar makes
    MaxFaults,     \* bound on failures, lost connections and restarts
    MaxLoad        \* bound on operations, connections and faults together

ASSUME NoBranchAssumption == NoBranch \notin Branches
ASSUME BoundsAssumption == /\ MaxTasks \in Nat /\ MaxOps \in Nat
                           /\ MaxConns \in Nat /\ MaxFaults \in Nat /\ MaxLoad \in Nat

None == 0
Conns == 1 .. MaxConns
Tasks == MaxConns + 1 .. MaxConns + MaxTasks
Callers == Conns \cup Tasks      \* a registration calls the sidecar as a task does

VARIABLES
    branched,    \* branches with a row of their own for the workload
    exposed,     \* some service of the base selects the workload
    intercept,   \* intercept[b]: the active intercept of b's user
    session,     \* session[b]: the connection of b's user; "elsewhere" when the
                 \* active environment of its session is another than b
    job,         \* job[x]: what caller x is doing
    snap,        \* devbox_route_snapshots: the branch of the remembered route
    conn,        \* conn[k]: how far the kube-manager has come with connection k
    entries,     \* sidecar_proxies: the generation of each connection entered
    counter,     \* generation_counter: the last generation drawn
    side,        \* the connection whose end at the sidecar is open
    table,       \* RoutingTable.branch_routes: the mode of each branch
    stream,      \* one stream of a client through the sidecar
    ops, faults, \* bounded counters
    outside,     \* history: branches with a route their user started from elsewhere
    met,         \* history: callers that ran beside another for their branch
    unsure,      \* history: branches whose last change may not have arrived
    raced        \* history: the stream missed the end of its branch's streams

apiVars == <<branched, exposed, intercept, session, outside>>
registry == <<entries, counter>>
sidecarVars == <<conn, entries, counter, side>>
streamVars == <<stream, raced>>
vars == <<branched, exposed, intercept, session, outside, job, snap, conn, entries,
          counter, side, table, stream, ops, faults, met, unsure, raced>>

Idle == [op |-> "idle", branch |-> NoBranch, stage |-> "idle", routes |-> {},
         on |-> NoBranch, via |-> None, keys |-> {}]
NoStream == [stage |-> "none", branch |-> NoBranch, mode |-> "none"]

DevboxOps == {"push", "set", "remove", "clear"}
RouteOps == {"upsert", "drop", "list", "replay"}

\* latest_clients_for_environment: the entry with the highest generation.
Newest(k) == entries[k] # None /\ \A i \in Conns : entries[i] <= entries[k]
NoEntry == \A k \in Conns : entries[k] = None
Registering == {k \in Conns : conn[k] \in {"open", "inserted", "listing", "replay"}}
Some(b) == {b} \ {NoBranch}

Init ==
    /\ branched \in SUBSET Branches
    /\ exposed = TRUE
    /\ intercept \in [Branches -> BOOLEAN]
    /\ \A b \in Branches : intercept[b] => b \in branched
    /\ session \in [Branches -> {"off", "elsewhere"}]
    /\ job = [x \in Callers |-> Idle]
    /\ snap = NoBranch
    /\ conn = [k \in Conns |-> "new"]
    /\ entries = [k \in Conns |-> None] /\ counter = 0
    /\ side = None
    /\ table = [b \in Branches |-> "none"]
    /\ stream = NoStream
    /\ ops = 0 /\ faults = 0
    /\ met = {} /\ unsure = {} /\ outside = {} /\ raced = FALSE

Room == ops + faults + Cardinality({k \in Conns : conn[k] # "new"}) < MaxLoad
Op == Room /\ ops < MaxOps /\ ops' = ops + 1
Fault == Room /\ faults < MaxFaults /\ faults' = faults + 1

----------------------------------------------------------------------------
\* The API: users, sessions and workloads.

\* Only a push and an upsert read the database for what they send.
First(op) == CASE op \in {"push", "upsert"} -> "build"
               [] op \in {"set", "remove", "clear"} -> "manager"
               [] OTHER -> "pick"

\* tokio::spawn of a task for b, in the first free slot.
Spawn(op, b) == \E t \in Tasks :
    LET others == {x \in Tasks : job[x].branch = b /\ job[x].op \in DevboxOps} IN
    /\ job[t] = Idle
    /\ \A s \in Tasks : job[s] = Idle => t <= s
    /\ job' = [job EXCEPT ![t] = [Idle EXCEPT !.op = op, !.branch = b, !.stage = First(op)]]
    /\ met' = IF op \in DevboxOps /\ others \cup Registering # {}
              THEN met \cup others \cup {t} ELSE met

Online(b) == session[b] \in {"listed", "up"}
Connected(b) == Online(b) \/ session[b] = "elsewhere"

\* devbox_intercept_start: the row, then a task if the user has a connection,
\* whatever the active environment of its session.
StartIntercept(b) ==
    /\ Op
    /\ b \in branched
    /\ intercept' = [intercept EXCEPT ![b] = TRUE]
    /\ IF Connected(b) THEN Spawn("set", b) ELSE UNCHANGED <<job, met>>
    /\ outside' = IF session[b] = "elsewhere" THEN outside \cup {b} ELSE outside
    /\ UNCHANGED <<branched, exposed, session, snap, sidecarVars, table, streamVars,
                   faults, unsure>>

\* devbox_intercept_stop.
StopIntercept(b) ==
    /\ Op
    /\ intercept[b]
    /\ intercept' = [intercept EXCEPT ![b] = FALSE]
    /\ IF Connected(b) THEN Spawn("remove", b) /\ outside' = outside \ {b}
       ELSE UNCHANGED <<job, met, outside>>
    /\ UNCHANGED <<branched, exposed, session, snap, sidecarVars, table, streamVars,
                   faults, unsure>>

\* The session is registered, with b or another environment active; greeted
\* (whoami pushes the routes of the active one); and it ends: the handle goes
\* first, then a task clears the routes of the active environment, and of no other.
ListSession(b) ==
    /\ Op
    /\ session[b] = "off"
    /\ session' \in {[session EXCEPT ![b] = s] : s \in {"listed", "elsewhere"}}
    /\ UNCHANGED <<branched, exposed, intercept, outside, job, snap, sidecarVars, table,
                   streamVars, faults, met, unsure>>

Greet(b) ==
    /\ session[b] = "listed"
    /\ session' = [session EXCEPT ![b] = "up"]
    /\ outside' = outside \ {b}
    /\ Spawn("push", b)
    /\ UNCHANGED <<branched, exposed, intercept, snap, sidecarVars, table, streamVars, ops,
                   faults, unsure>>

UnlistSession(b) ==
    /\ Connected(b)
    /\ session' = [session EXCEPT ![b] = IF Online(b) THEN "leaving" ELSE "off"]
    /\ UNCHANGED <<branched, exposed, intercept, outside, job, snap, sidecarVars, table,
                   streamVars, ops, faults, met, unsure>>

ClearSession(b) ==
    /\ session[b] = "leaving"
    /\ session' = [session EXCEPT ![b] = "off"]
    /\ outside' = outside \ {b}
    /\ Spawn("clear", b)
    /\ UNCHANGED <<branched, exposed, intercept, snap, sidecarVars, table, streamVars, ops,
                   faults, unsure>>

\* set_active_environment: the new environment is pushed, the one before cleared.
SwitchTo(b) ==
    /\ Op
    /\ session[b] = "elsewhere"
    /\ session' = [session EXCEPT ![b] = "up"]
    /\ outside' = outside \ {b}
    /\ Spawn("push", b)
    /\ UNCHANGED <<branched, exposed, intercept, snap, sidecarVars, table, streamVars,
                   faults, unsure>>

SwitchAway(b) ==
    /\ Op
    /\ Online(b)
    /\ session' = [session EXCEPT ![b] = "elsewhere"]
    /\ outside' = outside \ {b}
    /\ Spawn("clear", b)
    /\ UNCHANGED <<branched, exposed, intercept, snap, sidecarVars, table, streamVars,
                   faults, unsure>>

\* update_environment_workload and the rebase of a branch: the branch gets a row
\* if it has none, and the sidecar its route.
UpdateWorkload(b) ==
    /\ Op
    /\ branched' = branched \cup {b}
    /\ Spawn("upsert", b)
    /\ UNCHANGED <<exposed, intercept, session, outside, snap, sidecarVars, table, streamVars,
                   faults, unsure>>

\* delete_environment_workload: the route first, the row when the call is over.
DeleteWorkload(b) ==
    /\ Op
    /\ b \in branched
    /\ Spawn("drop", b)
    /\ UNCHANGED <<apiVars, snap, sidecarVars, table, streamVars, faults, unsure>>

\* A service of the base appears or disappears; no sidecar is told.
ChangeServices ==
    /\ Op
    /\ exposed' = ~exposed
    /\ UNCHANGED <<branched, intercept, session, outside, job, snap, sidecarVars, table,
                   streamVars, faults, met, unsure>>

----------------------------------------------------------------------------
\* Tasks of the API and registrations, up to their call of a sidecar.

\* The caller is done.  A registration goes on with its next step, or has failed;
\* the row of a deleted workload goes whatever became of its route.
End(x, ok) ==
    /\ job' = [job EXCEPT ![x] = Idle]
    /\ met' = met \ {x}
    /\ conn' = IF x \notin Conns THEN conn ELSE
               [conn EXCEPT ![x] = CASE job[x].op = "replay" -> "served"
                                     [] job[x].op = "list" /\ ok -> "replay"
                                     [] OTHER -> "failed"]
    /\ branched' = IF job[x].op = "drop" THEN branched \ {job[x].branch} ELSE branched

\* What is known of the branch once x is done: sure when it ran alone and did what
\* it was for, unsure when it failed or met another.
Known(x, done) ==
    LET b == job[x].branch IN
    unsure' = CASE x \in met -> unsure \cup {b}
                [] x \notin met /\ done /\ job[x].op \in DevboxOps -> unsure \ {b}
                [] OTHER -> unsure

Failed(x) == IF job[x].op \in DevboxOps \cup {"replay"} THEN Some(job[x].branch) ELSE {}

\* A registration that fails does not replay the remembered route.
Unreplayed(x) == IF x = side /\ job[x].op = "list"
                 THEN {b \in Branches : b = snap /\ table[b] # "devbox"} ELSE {}

\* The branches of B lost their route, and what their tasks do now is no help.
Doubt(B) ==
    /\ unsure' = unsure \cup B
    /\ met' = met \cup {x \in Callers : job[x].branch \in B /\ job[x].op \in DevboxOps}

\* route_workload_id_for_intercept: the workload of the intercept is gone.
Missing(t) ==
    LET b == job[t].branch IN
    /\ b \notin branched
    /\ \/ job[t].op = "push" /\ job[t].stage = "build" /\ intercept[b]
       \/ job[t].op \in {"set", "remove"} /\ job[t].stage = "manager"

LookupFails(t) ==
    /\ Missing(t)
    /\ End(t, FALSE)
    /\ unsure' = unsure \cup Failed(t)
    /\ UNCHANGED <<exposed, intercept, session, outside, snap, registry, side, table, streamVars,
                   ops, faults>>

\* build_devbox_route_snapshot and build_branch_service_route_config.
Build(t) ==
    LET b == job[t].branch
        found == IF job[t].op = "push" THEN intercept[b] ELSE exposed
    IN
    /\ job[t].stage = "build" /\ ~Missing(t)
    /\ job' = [job EXCEPT ![t].routes = IF found THEN {b} ELSE {},
                          ![t].stage = IF job[t].op = "push" THEN "manager" ELSE "pick"]
    /\ UNCHANGED <<apiVars, snap, sidecarVars, table, streamVars, ops, faults, met, unsure>>

\* A query of an upsert fails: it falls back to refresh_branch_service_routes.
FallBack(t) ==
    /\ Fault
    /\ job[t].stage = "build" /\ job[t].op = "upsert"
    /\ job' = [job EXCEPT ![t].op = "list", ![t].stage = "pick"]
    /\ UNCHANGED <<apiVars, snap, sidecarVars, table, streamVars, ops, met, unsure>>

\* No kube-manager answers, or a query fails: a warning.
TaskFails(t) ==
    /\ Fault
    /\ job[t].stage \in {"build", "manager"} \/ (job[t].op = "drop" /\ job[t].stage = "pick")
    /\ End(t, FALSE)
    /\ unsure' = unsure \cup Failed(t)
    /\ UNCHANGED <<exposed, intercept, session, outside, snap, registry, side, table, streamVars,
                   ops>>

\* Mutant: a removal forgets the route and does not stop it at the sidecar.
RemoveForgets(t) ==
    LET b == job[t].branch IN
    /\ job[t].stage = "manager"
    /\ job[t].op = "remove" /\ ~Missing(t)
    /\ snap' = IF snap = b THEN NoBranch ELSE snap
    /\ End(t, TRUE) /\ Known(t, snap = b)
    /\ UNCHANGED <<exposed, intercept, session, outside, registry, side, table, streamVars, ops,
                   faults>>

\* remove_devbox_route: only the remembered route is stopped.
Remove(t) ==
    LET b == job[t].branch IN
    /\ job[t].stage = "manager"
    /\ job[t].op = "remove" /\ ~Missing(t)
    /\ IF snap = b
       THEN /\ snap' = NoBranch
            /\ job' = [job EXCEPT ![t].stage = "pick", ![t].on = b]
            /\ UNCHANGED <<met, conn, branched, unsure>>
       ELSE /\ End(t, TRUE) /\ Known(t, FALSE)
            /\ UNCHANGED snap
    /\ UNCHANGED <<exposed, intercept, session, outside, registry, side, table, streamVars, ops,
                   faults>>

\* set_devbox_routes, set_devbox_route and clear_devbox_routes: what is remembered
\* changes.  A push without a route stops the branch remembered before, whose ever
\* it is; routes of other branches are forgotten.
Remember(t) ==
    LET b == job[t].branch
        op == job[t].op
        kept == CASE op = "clear" -> IF snap = b THEN NoBranch ELSE snap
                  [] op = "push" /\ job[t].routes = {} -> NoBranch
                  [] OTHER -> b
        target == IF op = "push" /\ job[t].routes = {} THEN snap ELSE b
    IN
    /\ job[t].stage = "manager"
    /\ op \in DevboxOps \ {"remove"} /\ ~Missing(t)
    /\ snap' = kept
    /\ job' = [job EXCEPT ![t].stage = "pick", ![t].on = target,
                          ![t].routes = IF op = "set" THEN {b} ELSE @]
    /\ Doubt(IF kept # snap THEN Some(snap) \ {b} ELSE {})
    /\ UNCHANGED <<apiVars, sidecarVars, table, streamVars, ops, faults>>

\* The newest sidecar is called, a list with what list_branch_service_routes
\* returns; without a sidecar there is nothing to do.
Pick(x) ==
    LET stopping == job[x].op \in DevboxOps /\ job[x].routes = {} IN
    /\ job[x].stage = "pick"
    /\ IF NoEntry
       THEN /\ End(x, TRUE)
            /\ unsure' = IF stopping \/ x \in met THEN unsure \cup {job[x].branch} ELSE unsure
       ELSE /\ \E k \in Conns :
                 /\ Newest(k)
                 /\ job' = [job EXCEPT ![x].stage = "call", ![x].via = k,
                                       ![x].routes = IF job[x].op # "list" THEN @
                                                     ELSE IF exposed THEN branched ELSE {}]
            /\ UNCHANGED <<met, conn, branched, unsure>>
    /\ UNCHANGED <<exposed, intercept, session, outside, snap, registry, side, table, streamVars,
                   ops, faults>>

\* The API does not answer, or rejects the request.
ListFails(x) ==
    /\ Fault
    /\ job[x].stage = "pick" /\ job[x].op = "list"
    /\ End(x, FALSE)
    /\ unsure' = unsure \cup Unreplayed(x)
    /\ UNCHANGED <<exposed, intercept, session, outside, snap, registry, side, table, streamVars,
                   ops>>

----------------------------------------------------------------------------
\* The sidecar: SidecarProxyRpcServer and RoutingTable.

\* replace_branch_routes: listed branches keep their mode, others go.
Replace(x) ==
    [b \in Branches |-> IF b \notin job[x].routes THEN "none"
                        ELSE IF table[b] = "none" THEN "service" ELSE table[b]]

\* set_branch_devbox and remove_branch_devbox, which pass over a branch that is
\* not in the table; upsert_branch_service_route and remove_branch_service_route.
Written(x) ==
    LET b == job[x].on
        routes == job[x].routes
        to(m) == [c \in Branches |-> IF c = b /\ table[b] # "none" THEN m ELSE table[c]]
    IN CASE job[x].op \in DevboxOps /\ routes # {} -> to("devbox")
         [] job[x].op = "replay" -> to("devbox")
         [] job[x].op \in DevboxOps /\ routes = {} -> to("service")
         [] job[x].op = "list" -> Replace(x)
         [] job[x].op = "upsert" /\ routes # {} ->
              [table EXCEPT ![job[x].branch] = IF @ = "none" THEN "service" ELSE @]
         [] OTHER -> [table EXCEPT ![job[x].branch] = "none"]

\* Mutant: a call without a branch ends the streams of one.
KeysDefault(x) ==
    CASE job[x].op = "list" -> job[x].routes \cup {b \in Branches : table[b] # "none"}
      [] job[x].op \in DevboxOps \cup {"replay"} -> {job[x].on}
      [] OTHER -> {job[x].branch}

\* The branches whose streams end: those of the call, and for a list also those
\* that were in the table.
Keys(x) ==
    CASE job[x].op = "list" -> job[x].routes \cup {b \in Branches : table[b] # "none"}
      [] job[x].op \in DevboxOps \cup {"replay"} -> Some(job[x].on)
      [] OTHER -> {job[x].branch}

\* Under the write lock of the routing table.
Write(x) ==
    LET lost == {b \in Branches : table[b] = "devbox" /\ table'[b] = "none"}
        stopped == Some(job[x].on) \ {job[x].branch}
        unknown == IF job[x].op \in {"set", "replay", "push"} /\ job[x].routes # {}
                   THEN {b \in {job[x].on} : table[b] = "none"} ELSE {}
    IN
    /\ job[x].stage = "call"
    /\ job[x].via = side
    /\ table' = Written(x)
    /\ job' = [job EXCEPT ![x].stage = "shut", ![x].keys = Keys(x)]
    /\ Doubt(lost \cup stopped \cup unknown)
    /\ UNCHANGED <<apiVars, snap, sidecarVars, streamVars, ops, faults>>

\* Streams of K end; one that has chosen its way and not subscribed does not.
EndStreams(K) ==
    /\ stream' = IF stream.stage = "open" /\ stream.branch \in K THEN NoStream ELSE stream
    /\ raced' = CASE stream' = NoStream -> FALSE
                  [] stream.stage = "chosen" /\ stream.branch \in K -> TRUE
                  [] OTHER -> raced

\* Mutant: the streams of a branch live on when its devbox comes or goes.
AnswerDevbox(x) ==
    /\ job[x].stage = "shut" /\ job[x].via = side
    /\ IF job[x].op \in DevboxOps THEN UNCHANGED streamVars ELSE EndStreams(job[x].keys)
    /\ End(x, TRUE)
    /\ Known(x, job[x].on = job[x].branch)
    /\ UNCHANGED <<exposed, intercept, session, outside, snap, registry, side, table, ops, faults>>

\* ConnectionRegistry::shutdown_branch, after the routing table is unlocked.
Answer(x) ==
    /\ job[x].stage = "shut" /\ job[x].via = side
    /\ EndStreams(job[x].keys)
    /\ End(x, TRUE)
    /\ Known(x, job[x].on = job[x].branch)
    /\ UNCHANGED <<exposed, intercept, session, outside, snap, registry, side, table, ops, faults>>

\* The handler is aborted where it is, and the streams it had to end live on.
Abort(X) ==
    raced' = (raced \/ \E x \in X : stream.stage # "none" /\ stream.branch \in job[x].keys)

\* The sidecar is no longer at the other end.
CallFails(x) ==
    /\ job[x].stage \in {"call", "shut"}
    /\ job[x].via # side
    /\ End(x, FALSE)
    /\ unsure' = unsure \cup Failed(x) \cup Unreplayed(x)
    /\ Abort({x})
    /\ UNCHANGED <<exposed, intercept, session, outside, snap, registry, side, table, stream, ops,
                   faults>>

----------------------------------------------------------------------------
\* Connections of the sidecar.

\* handle_rpc_connection_cycle: connect, and call register_sidecar_proxy.
Open(k) ==
    /\ Room
    /\ side = None
    /\ conn[k] = "new"
    /\ \A i \in Conns : conn[i] = "new" => k <= i
    /\ conn' = [conn EXCEPT ![k] = "open"]
    /\ side' = k
    /\ met' = met \cup {x \in Tasks : job[x].op \in DevboxOps}
    /\ UNCHANGED <<apiVars, job, snap, registry, table, streamVars, ops, faults, unsure>>

\* register_sidecar: generation and entry under one lock.
Insert(k) ==
    /\ conn[k] = "open"
    /\ conn' = [conn EXCEPT ![k] = "inserted"]
    /\ counter' = counter + 1
    /\ entries' = [entries EXCEPT ![k] = counter']
    /\ UNCHANGED <<apiVars, job, snap, side, table, streamVars, ops, faults, met, unsure>>

\* The generation is kept for handle_disconnect; the routes are listed next.
\* Without a connection to the API the list is left out.
KeepGeneration(k) ==
    /\ conn[k] = "inserted"
    /\ \/ /\ conn' = [conn EXCEPT ![k] = "listing"]
          /\ job' = [job EXCEPT ![k] = [Idle EXCEPT !.op = "list", !.stage = "pick"]]
          /\ UNCHANGED faults
       \/ /\ Fault
          /\ conn' = [conn EXCEPT ![k] = "replay"]
          /\ UNCHANGED job
    /\ UNCHANGED <<apiVars, snap, registry, side, table, streamVars, ops, met, unsure>>

\* replay_devbox_route reads the remembered route and sends it again.
Replay(k) ==
    /\ conn[k] = "replay" /\ job[k] = Idle
    /\ IF snap = NoBranch
       THEN conn' = [conn EXCEPT ![k] = "served"] /\ UNCHANGED job
       ELSE /\ job' = [job EXCEPT ![k] = [Idle EXCEPT !.op = "replay", !.stage = "pick",
                                           !.branch = snap, !.on = snap, !.routes = {snap}]]
            /\ UNCHANGED conn
    /\ UNCHANGED <<apiVars, snap, registry, side, table, streamVars, ops, faults, met,
                   unsure>>

\* A heartbeat is lost, or a registration is not answered in time.  Nothing else makes
\* the sidecar connect again: an open connection has its entry, and when its
\* registration was refused, what it answered is thrown away and the sidecar stays,
\* entered, with the table it has.
LoseConnection ==
    /\ Fault
    /\ side # None
    /\ side' = None
    /\ UNCHANGED <<apiVars, job, snap, conn, registry, table, streamVars, ops, met, unsure>>

Live(k) == conn[k] \notin {"new", "gone", "leaked"}

\* Mutant: the entries of the workload go with any of its connections.
DisconnectAll(k) ==
    /\ Live(k) /\ side # k
    /\ conn' = [conn EXCEPT ![k] = IF @ = "inserted" THEN "leaked" ELSE "gone"]
    /\ entries' = IF conn[k] = "inserted" THEN entries ELSE [i \in Conns |-> None]
    /\ job' = [job EXCEPT ![k] = Idle]
    /\ Abort({k})
    /\ unsure' = unsure \cup Failed(k)
    /\ met' = met \ {k}
    /\ UNCHANGED <<apiVars, snap, counter, side, table, stream, ops, faults>>

\* The kube-manager notices: the handler of the registration is aborted, and
\* handle_disconnect removes the entry if the generation was kept.
Disconnect(k) ==
    /\ Live(k) /\ side # k
    /\ conn' = [conn EXCEPT ![k] = IF @ = "inserted" THEN "leaked" ELSE "gone"]
    /\ entries' = IF conn[k] = "inserted" THEN entries ELSE [entries EXCEPT ![k] = None]
    /\ job' = [job EXCEPT ![k] = Idle]
    /\ Abort({k})
    /\ unsure' = unsure \cup Failed(k)
    /\ met' = met \ {k}
    /\ UNCHANGED <<apiVars, snap, counter, side, table, stream, ops, faults>>

\* The sidecar starts anew, with an empty table and no streams.
RestartSidecar ==
    /\ Fault
    /\ side' = None
    /\ table' = [b \in Branches |-> "none"]
    /\ stream' = NoStream /\ raced' = FALSE
    /\ UNCHANGED <<apiVars, job, snap, conn, registry, ops, met, unsure>>

\* The kube-manager starts anew: nothing is remembered and nobody is entered.
RestartManager ==
    LET hit == {x \in Callers : job[x].stage \in {"pick", "call", "shut"}}
        rows == {job[x].branch : x \in {y \in hit : job[y].op = "drop"}}
    IN
    /\ Fault
    /\ snap' = NoBranch
    /\ conn' = [k \in Conns |-> IF conn[k] = "new" THEN "new" ELSE "gone"]
    /\ entries' = [k \in Conns |-> None] /\ counter' = 0 /\ side' = None
    /\ job' = [x \in Callers |-> IF x \in hit THEN Idle ELSE job[x]]
    /\ met' = met \ hit
    /\ branched' = branched \ rows
    /\ Abort(hit)
    /\ unsure' = unsure \cup Some(snap) \cup UNION {Failed(x) : x \in hit}
    /\ UNCHANGED <<exposed, intercept, session, outside, table, stream, ops>>

----------------------------------------------------------------------------
\* A client's stream: handle_http_proxy.

\* resolve_http under the read lock; branches not in the table go elsewhere.
Choose(b) ==
    /\ Op
    /\ stream = NoStream
    /\ table[b] # "none"
    /\ stream' = [stage |-> "chosen", branch |-> b, mode |-> table[b]]
    /\ UNCHANGED <<apiVars, job, snap, sidecarVars, table, faults, met, unsure, raced>>

\* ConnectionRegistry::subscribe; proxying begins.
Subscribe ==
    /\ stream.stage = "chosen"
    /\ stream' = [stream EXCEPT !.stage = "open"]
    /\ UNCHANGED <<apiVars, job, snap, sidecarVars, table, ops, faults, met, unsure, raced>>

Finish ==
    /\ stream.stage # "none"
    /\ stream' = NoStream /\ raced' = FALSE
    /\ UNCHANGED <<apiVars, job, snap, sidecarVars, table, ops, faults, met, unsure>>

----------------------------------------------------------------------------
Next ==
    \/ \E b \in Branches :
         \/ StartIntercept(b) \/ StopIntercept(b)
         \/ ListSession(b) \/ Greet(b) \/ UnlistSession(b) \/ ClearSession(b)
         \/ SwitchTo(b) \/ SwitchAway(b)
         \/ UpdateWorkload(b) \/ DeleteWorkload(b)
         \/ Choose(b)
    \/ ChangeServices
    \/ \E t \in Tasks : \/ Build(t) \/ LookupFails(t) \/ FallBack(t) \/ TaskFails(t)
                        \/ Remove(t) \/ Remember(t)
    \/ \E x \in Callers : \/ Pick(x) \/ ListFails(x)
                          \/ Write(x) \/ Answer(x) \/ CallFails(x)
    \/ \E k \in Conns : Open(k) \/ Insert(k) \/ KeepGeneration(k) \/ Replay(k) \/ Disconnect(k)
    \/ LoseConnection \/ RestartSidecar \/ RestartManager
    \/ Subscribe \/ Finish

Spec == Init /\ [][Next]_vars

----------------------------------------------------------------------------
Modes == {"none", "service", "devbox"}
Jobs == [op: {"idle"} \cup DevboxOps \cup RouteOps,
         branch: Branches \cup {NoBranch},
         stage: {"idle", "build", "manager", "pick", "call", "shut"},
         routes: SUBSET Branches, on: Branches \cup {NoBranch},
         via: Conns \cup {None}, keys: SUBSET Branches]

TypeOK ==
    /\ branched \subseteq Branches /\ exposed \in BOOLEAN
    /\ intercept \in [Branches -> BOOLEAN]
    /\ session \in [Branches -> {"off", "listed", "up", "leaving", "elsewhere"}]
    /\ outside \subseteq Branches
    /\ job \in [Callers -> Jobs]
    /\ snap \in Branches \cup {NoBranch}
    /\ conn \in [Conns -> {"new", "open", "inserted", "listing", "replay", "served", "failed",
                           "gone", "leaked"}]
    /\ entries \in [Conns -> Nat] /\ counter \in Nat
    /\ side \in Conns \cup {None}
    /\ table \in [Branches -> Modes]
    /\ stream \in [stage: {"none", "chosen", "open"}, branch: Branches \cup {NoBranch},
                   mode: Modes]
    /\ ops \in 0 .. MaxOps /\ faults \in 0 .. MaxFaults
    /\ met \subseteq Callers /\ unsure \subseteq Branches /\ raced \in BOOLEAN

Settled ==
    /\ \A x \in Callers : job[x] = Idle
    /\ \A b \in Branches : session[b] \in {"off", "up", "elsewhere"}
    /\ \A k \in Conns : Live(k) => k = side
    /\ side # None /\ conn[side] \in {"served", "failed"}

\* Once every task and registration is done, the sidecar's table sends the traffic
\* of a branch to the devbox exactly when the branch's user works in it and
\* intercepts the workload, or started the intercept from another environment and
\* neither stopped it while connected nor worked in the branch since: that route
\* outlives the session.  Also after the sidecar lost its connection or its table.
\* Branches that another branch's route displaced are excepted, and those whose last
\* change failed, met another, found no sidecar to stop, or was not replayed.
RoutesMatchIntercepts ==
    Settled => \A b \in Branches \ unsure :
                 table[b] = "devbox" <=>
                   (session[b] = "up" /\ intercept[b]) \/ b \in outside

\* A stream goes where the table sends its branch now, or is about to be ended;
\* except one that subscribed after the streams of its branch were ended.
StreamsFollowTable ==
    stream.stage = "open" /\ ~raced =>
      \/ stream.mode = table[stream.branch]
      \/ \E x \in Callers : stream.branch \in job[x].keys

\* The kube-manager talks to the sidecar that is connected, and not to an older
\* connection of it, unless the entry of an older one was leaked.
NewestSidecarIsLive ==
    Settled /\ (\A k \in Conns : conn[k] # "leaked") => Newest(side)
=============================================================================
