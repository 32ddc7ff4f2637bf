--------------------------- MODULE ClusterWatches ---------------------------
(***************************************************************************)
(* The connections of one cluster's kube-manager to the API and the        *)
(* namespaces it watches: handle_cluster_rpc (crates/api/src/kube.rs),     *)
(* KubeClusterServer::register and unregister (crates/kube/src/server.rs), *)
(* the requests that change what is watched (kube_controller), and the     *)
(* kube-manager's connection loop and WatchManager.                        *)
(*                                                                         *)
(* The wanted namespaces are rows in the database.  A new connection sends *)
(* the whole list, a catalog edit sends it to every registered connection, *)
(* and creating or deleting an environment sends one namespace.  Calls run *)
(* concurrently in the kube-manager, one lock at a time, and are aborted   *)
(* between two of their steps when its end of the connection closes.  The  *)
(* two ends of a connection close at different times.                      *)
(*                                                                         *)
(* An environment's namespace is made for it, so no catalog lists it.  The *)
(* watchers of a namespace, one per kind of resource, start and stop       *)
(* together under one lock.                                                *)
(***************************************************************************)
EXTENDS Naturals, FiniteSets

CONSTANTS
    CatalogNamespaces,   \* namespaces that catalog workloads come from
    EnvNamespaces,       \* namespaces of environments
    MaxRequests,         \* bound on API requests in flight
    MaxConns,            \* bound on connections the kube-manager makes
    MaxLoad,             \* bound on connections, requests in flight and cuts together
    MaxEdits,            \* bound on changes of the wanted namespaces
    MaxCuts              \* bound on requests cut off and kube-manager restarts

ASSUME NamespacesDisjoint == CatalogNamespaces \cap EnvNamespaces = {}
ASSUME BoundsAssumption == /\ MaxRequests \in Nat /\ MaxConns \in Nat /\ MaxLoad \in Nat
                           /\ MaxEdits \in Nat /\ MaxCuts \in Nat

Namespaces == CatalogNamespaces \cup EnvNamespaces

\* Connections are numbered as the kube-manager makes them, requests have
\* slots; both wait for calls.  None stands for no connection.
None == 0
Conns == 1 .. MaxConns
Tasks == MaxConns + 1 .. MaxConns + MaxRequests
Callers == Conns \cup Tasks

VARIABLES
    catalogs,    \* namespaces of catalog workloads in the database
    envs,        \* namespaces of environments in the database
    conn,        \* conn[c]: how far the API has come with connection c
    number,      \* number[c]: connection_generation of c, 0 before it has one
    counter,     \* kube_cluster_server_generation
    open,        \* connections whose end at the API is open
    client,      \* the connection whose end at the kube-manager is open
    task,        \* task[t]: the API request in slot t
    list,        \* list[t]: the namespaces t read from the database
    call,        \* call[x]: the RPC that x waits for
    watched,     \* WatchManager.namespaces
    watchers,    \* WatchManager.tasks: namespaces with running watchers
    edits,       \* changes so far
    cuts,        \* cuts and restarts so far
    torn,        \* history: namespaces where two calls met or one was aborted
    crossed,     \* history: crossed[x]: namespaces that changed, or that another
                 \* call handled, since x knows what is wanted of them
    doubt        \* history: namespaces whose last change may not have arrived

dbVars == <<catalogs, envs, edits>>
registryVars == <<conn, number, counter>>
managerVars == <<watched, watchers>>
vars == <<catalogs, envs, conn, number, counter, open, client, task, list, call,
          watched, watchers, edits, cuts, torn, crossed, doubt>>

Wanted == catalogs \cup envs

Idle == [op |-> "idle", ns |-> {}, stage |-> "idle", queue |-> {}]
\* A call: how far its handler is, and what is left for it to stop and start.
NoCall == [op |-> "none", conn |-> None, arg |-> {}, stage |-> "none",
           stop |-> {}, start |-> {}]

\* KubeController.kube_cluster_servers: the connections a reader finds.
Entered == {"entered", "waiting", "serving"}
servers == {c \in Conns : conn[c] \in Entered}
gone == {c \in Conns : conn[c] = "gone"}

Registry == INSTANCE GenerationRegistry
              WITH Members <- Conns, entered <- servers, left <- gone

\* get_random_kube_cluster_server: the newest registered connection.
Pick(c) == Registry!IsNewest(c, servers)

\* A refresh reads the registry under its lock for as long as its calls last.
Locked == \E t \in Tasks : task[t].stage = "refresh"

Running == {"apply", "starting", "insert", "stopping"}
Touches(x) == IF call[x].op = "configure" THEN Namespaces ELSE call[x].arg

\* The namespaces x will tell the kube-manager about, from what it knows now.
Carries(x) ==
    IF x \in Conns
    THEN IF conn[x] = "waiting" THEN Namespaces ELSE {}
    ELSE CASE task[x].stage \in {"lock", "refresh"} -> Namespaces
           [] task[x].stage \in {"pick", "send"} -> task[x].ns
           [] OTHER -> {}

Load == Cardinality({c \in Conns : conn[c] # "new"} \cup {t \in Tasks : task[t] # Idle}) + cuts

Init ==
    /\ catalogs = {} /\ envs = {}
    /\ conn = [c \in Conns |-> "new"]
    /\ number = [c \in Conns |-> 0]
    /\ counter = 1
    /\ open = {} /\ client = None
    /\ task = [t \in Tasks |-> Idle]
    /\ list = [t \in Tasks |-> {}]
    /\ call = [x \in Callers |-> NoCall]
    /\ watched = {} /\ watchers = {}
    /\ edits = 0 /\ cuts = 0
    /\ torn = {} /\ crossed = [x \in Callers |-> {}] /\ doubt = {}

----------------------------------------------------------------------------
\* Connections.

\* handle_connection_cycle: the kube-manager has no connection and makes one.
Connect(c) ==
    /\ client = None
    /\ conn[c] = "new"
    /\ \A d \in Conns : conn[d] = "new" => c <= d
    /\ Load < MaxLoad
    /\ conn' = [conn EXCEPT ![c] = "accepted"]
    /\ open' = open \cup {c}
    /\ client' = c
    /\ UNCHANGED <<number, counter, task, list, call, cuts, torn, crossed, doubt>>
    /\ UNCHANGED <<dbVars, managerVars>>

\* What is left of a call whose handler has ended: its result, or nothing.
Over(x, stage) == [NoCall EXCEPT !.conn = call[x].conn, !.stage = stage]

\* The calls of connection c that the kube-manager has begun are aborted.
Aborted(c) == {x \in Callers : call[x].conn = c /\ call[x].stage \in Running}
AbortCalls(c) ==
    call' = [x \in Callers |->
               IF x \in Aborted(c) THEN Over(x, "lost") ELSE call[x]]

\* The RPC server of the kube-manager's end stops; handlers in flight go with it.
ManagerClose(c) ==
    /\ client = c
    /\ client' = None
    /\ AbortCalls(c)
    /\ torn' = torn \cup UNION {Touches(x) : x \in Aborted(c)}
    /\ UNCHANGED <<open, task, list, cuts, crossed, doubt>>
    /\ UNCHANGED <<dbVars, registryVars, managerVars>>

\* The kube-manager process restarts and remembers nothing.
ManagerRestart ==
    /\ cuts < MaxCuts /\ Load < MaxLoad
    /\ cuts' = cuts + 1
    /\ client' = None
    /\ AbortCalls(client)
    /\ watched' = {} /\ watchers' = {}
    /\ torn' = {}
    /\ doubt' = doubt \cup Wanted
    /\ UNCHANGED <<open, task, list, crossed>>
    /\ UNCHANGED <<dbVars, registryVars>>

\* The RPC server of the API's end stops.
ApiClose(c) ==
    /\ c \in open
    /\ open' = open \ {c}
    /\ UNCHANGED <<client, task, list, call, cuts, torn, crossed, doubt>>
    /\ UNCHANGED <<dbVars, registryVars, managerVars>>

\* register: a generation, then the entry under the registry's write lock.
DrawGeneration(c) ==
    /\ conn[c] = "accepted"
    /\ conn' = [conn EXCEPT ![c] = "numbered"]
    /\ number' = [number EXCEPT ![c] = counter]
    /\ counter' = counter + 1
    /\ UNCHANGED <<open, client, task, list, call, cuts, torn, crossed, doubt>>
    /\ UNCHANGED <<dbVars, managerVars>>

EnterRegistry(c) ==
    /\ conn[c] = "numbered"
    /\ ~Locked
    /\ conn' = [conn EXCEPT ![c] = "entered"]
    /\ UNCHANGED <<number, counter, open, client, task, list, call, cuts, torn, crossed, doubt>>
    /\ UNCHANGED <<dbVars, managerVars>>

Request(op, c, arg) == [NoCall EXCEPT !.op = op, !.conn = c, !.arg = arg, !.stage = "sent"]

\* Mutant: the namespaces of environments are left out of the list.
ListCatalogsOnly(c) ==
    /\ conn[c] = "entered"
    /\ call' = [call EXCEPT ![c] = Request("configure", c, catalogs)]
    /\ conn' = [conn EXCEPT ![c] = "waiting"]
    /\ UNCHANGED <<number, counter, open, client, task, list, cuts, torn, crossed, doubt>>
    /\ UNCHANGED <<dbVars, managerVars>>

\* sync_namespace_watches_from_db: the queries, then the call, which the
\* kube-manager begins to handle later.  The query for the catalogs' namespaces
\* and the one for the environments' are one step: no namespace is in both, and
\* the properties speak of one namespace at a time.
ListForRegistration(c) ==
    /\ conn[c] = "entered"
    /\ call' = [call EXCEPT ![c] = Request("configure", c, Wanted)]
    /\ conn' = [conn EXCEPT ![c] = "waiting"]
    /\ UNCHANGED <<number, counter, open, client, task, list, cuts, torn, crossed, doubt>>
    /\ UNCHANGED <<dbVars, managerVars>>

\* A query fails: register only warns.
ListingFails(c) ==
    /\ conn[c] = "entered"
    /\ cuts < MaxCuts /\ Load < MaxLoad
    /\ cuts' = cuts + 1
    /\ conn' = [conn EXCEPT ![c] = "serving"]
    /\ UNCHANGED <<number, counter, open, client, task, list, call, torn, crossed, doubt>>
    /\ UNCHANGED <<dbVars, managerVars>>

\* Mutant: the whole entry of the cluster is removed.
UnregisterCluster(c) ==
    /\ conn[c] = "serving"
    /\ c \notin open
    /\ ~Locked
    /\ conn' = [d \in Conns |-> IF d \in servers THEN "gone" ELSE conn[d]]
    /\ UNCHANGED <<number, counter, open, client, task, list, call, cuts, torn, crossed, doubt>>
    /\ UNCHANGED <<dbVars, managerVars>>

\* Mutant: an entry stays until a newer connection replaces it.
UnregisterReplaced(c) ==
    /\ conn[c] = "serving"
    /\ c \notin open
    /\ ~Locked
    /\ ~Pick(c)
    /\ conn' = [conn EXCEPT ![c] = "gone"]
    /\ UNCHANGED <<number, counter, open, client, task, list, call, cuts, torn, crossed, doubt>>
    /\ UNCHANGED <<dbVars, managerVars>>

\* handle_cluster_rpc: its end has closed, and only the own entry is removed.
Unregister(c) ==
    /\ conn[c] = "serving"
    /\ c \notin open
    /\ ~Locked
    /\ conn' = [conn EXCEPT ![c] = "gone"]
    /\ UNCHANGED <<number, counter, open, client, task, list, call, cuts, torn, crossed, doubt>>
    /\ UNCHANGED <<dbVars, managerVars>>

----------------------------------------------------------------------------
\* API requests that change the wanted namespaces.

\* A request takes the first free slot.
Free(t) ==
    /\ task[t] = Idle /\ \A s \in Tasks : task[s] = Idle => t <= s
    /\ Load < MaxLoad

Unaffected == UNCHANGED <<open, client, watched, watchers, torn>>

\* What others know of the namespaces in N is out of date.
Changes(N) == crossed' = [x \in Callers |-> crossed[x] \cup (N \cap Carries(x))]
Forgets(x) == crossed' = [crossed EXCEPT ![x] = {}]

\* create_kube_environment and delete_kube_environment pick the server first.
StartEnvironment(t, n, op) ==
    /\ Free(t)
    /\ edits < MaxEdits
    /\ IF op = "env_add" THEN n \notin envs ELSE n \in envs
    /\ \E c \in servers :
         /\ Pick(c)
         /\ task' = [task EXCEPT ![t] = [op |-> op, ns |-> {n}, stage |-> "write", queue |-> {c}]]
    /\ edits' = edits + 1
    /\ Unaffected
    /\ UNCHANGED <<registryVars, catalogs, envs, list, call, cuts, crossed, doubt>>

\* Mutant: the namespace is stored with those of the catalogs.
WriteMisfiled(t) ==
    /\ task[t].stage = "write"
    /\ catalogs' = IF task[t].op = "env_add" THEN catalogs \cup task[t].ns ELSE catalogs
    /\ task' = [task EXCEPT ![t].stage = "send"]
    /\ Changes(task[t].ns)
    /\ Unaffected
    /\ UNCHANGED <<registryVars, envs, edits, list, call, cuts, doubt>>

\* The row is written; the call follows on the server picked before.
WriteEnvironment(t) ==
    /\ task[t].stage = "write"
    /\ envs' = IF task[t].op = "env_add" THEN envs \cup task[t].ns ELSE envs \ task[t].ns
    /\ task' = [task EXCEPT ![t].stage = "send"]
    /\ Changes(task[t].ns)
    /\ Unaffected
    /\ UNCHANGED <<registryVars, catalogs, edits, list, call, cuts, doubt>>

\* create_app_catalog: the rows, then an add on every registered connection.
CreateCatalog(t, n) ==
    /\ Free(t)
    /\ edits < MaxEdits
    /\ n \notin catalogs
    /\ edits' = edits + 1
    /\ catalogs' = catalogs \cup {n}
    /\ task' = [task EXCEPT ![t] = [op |-> "cat_add", ns |-> {n}, stage |-> "pick", queue |-> {}]]
    /\ Changes({n})
    /\ Unaffected
    /\ UNCHANGED <<registryVars, envs, list, call, cuts, doubt>>

PickServers(t) ==
    /\ task[t].stage = "pick"
    /\ IF servers = {}
       THEN /\ task' = [task EXCEPT ![t] = Idle]
            /\ doubt' = doubt \cup task[t].ns
            /\ Forgets(t)
       ELSE /\ task' = [task EXCEPT ![t].stage = "send", ![t].queue = servers]
            /\ UNCHANGED <<crossed, doubt>>
    /\ Unaffected
    /\ UNCHANGED <<registryVars, dbVars, list, call, cuts>>

\* delete_app_catalog, delete_app_catalog_workload, and workloads added to a
\* catalog: the rows, then a refresh.
EditCatalog(t, n) ==
    /\ Free(t)
    /\ edits < MaxEdits
    /\ edits' = edits + 1
    /\ catalogs' = IF n \in catalogs THEN catalogs \ {n} ELSE catalogs \cup {n}
    /\ task' = [task EXCEPT ![t] = [op |-> "cat_edit", ns |-> {n}, stage |-> "list", queue |-> {}]]
    /\ Changes({n})
    /\ Unaffected
    /\ UNCHANGED <<registryVars, envs, list, call, cuts, doubt>>

\* refresh_cluster_namespace_watches: the queries, the read lock, the calls.
ListForRefresh(t) ==
    /\ \/ /\ task[t].stage = "list"
          /\ list' = [list EXCEPT ![t] = Wanted]
          /\ task' = [task EXCEPT ![t].stage = "lock"]
          /\ UNCHANGED <<crossed, doubt>>
       \/ /\ task[t].stage = "lock" /\ servers = {}
          /\ task' = [task EXCEPT ![t] = Idle]
          /\ list' = [list EXCEPT ![t] = {}]
          /\ doubt' = doubt \cup task[t].ns
          /\ Forgets(t)
       \/ /\ task[t].stage = "lock" /\ servers # {}
          /\ task' = [task EXCEPT ![t].stage = "refresh", ![t].queue = servers]
          /\ UNCHANGED <<list, crossed, doubt>>
    /\ Unaffected
    /\ UNCHANGED <<registryVars, dbVars, call, cuts>>

\* The next server in the order of the generations is called.
SendTask(t) ==
    /\ task[t].stage \in {"send", "refresh"}
    /\ call[t] = NoCall
    /\ \E c \in task[t].queue :
         /\ \A d \in task[t].queue : number[c] <= number[d]
         /\ task' = [task EXCEPT ![t].queue = @ \ {c}]
         /\ call' = [call EXCEPT ![t] =
              CASE task[t].op = "cat_edit"   -> Request("configure", c, list[t])
                [] task[t].op = "env_remove" -> Request("remove", c, task[t].ns)
                [] OTHER                     -> Request("add", c, task[t].ns)]
    /\ Unaffected
    /\ UNCHANGED <<registryVars, dbVars, list, cuts, crossed, doubt>>

\* The request is dropped, or a query of it fails, between two of its steps.
Cut(t) ==
    /\ task[t] # Idle
    /\ call[t] = NoCall
    /\ cuts < MaxCuts /\ Load < MaxLoad
    /\ cuts' = cuts + 1
    /\ task' = [task EXCEPT ![t] = Idle]
    /\ list' = [list EXCEPT ![t] = {}]
    /\ doubt' = doubt \cup task[t].ns
    /\ Forgets(t)
    /\ Unaffected
    /\ UNCHANGED <<registryVars, dbVars, call>>

\* What the caller does once its call is over.
Return(x) ==
    /\ call' = [call EXCEPT ![x] = NoCall]
    /\ IF x \in Conns
       THEN conn' = [conn EXCEPT ![x] = "serving"] /\ Forgets(x) /\ UNCHANGED <<task, list>>
       ELSE /\ IF task[x].queue = {}
               THEN /\ task' = [task EXCEPT ![x] = Idle]
                    /\ list' = [list EXCEPT ![x] = {}]
                    /\ Forgets(x)
               ELSE UNCHANGED <<task, list, crossed>>
            /\ UNCHANGED conn
    /\ Unaffected
    /\ UNCHANGED <<number, counter, dbVars, cuts>>

Answer(x) ==
    /\ call[x].stage = "done"
    /\ call[x].conn \in open
    /\ Return(x)
    /\ UNCHANGED doubt

\* The connection is lost, or the deadline passes on one whose peer is gone.
CallFails(x) ==
    /\ call[x].stage \in {"sent", "done", "lost"}
    /\ call[x].conn \notin open \/ call[x].conn # client
    /\ Return(x)
    /\ doubt' = IF x \in Tasks /\ call[x].stage # "done" THEN doubt \cup task[x].ns ELSE doubt

----------------------------------------------------------------------------
\* WatchManager: one action per lock that a call takes.

\* x begins: namespaces that a call in progress also handles are crossed.
Meets(x, y) == IF call[y].stage \in Running THEN Touches(x) \cap Touches(y) ELSE {}
Crossing(x) == UNION {Meets(x, y) : y \in Callers \ {x}}

\* call[x] becomes r, and every call that x meets records it.
Begin(x, r) ==
    /\ call[x].stage = "sent"
    /\ call[x].conn = client
    /\ call' = [call EXCEPT ![x] = r]
    /\ crossed' = [y \in Callers |->
                     crossed[y] \cup IF y = x THEN Crossing(x) ELSE Meets(x, y)]
    /\ torn' = torn \cup Crossing(x)
    /\ UNCHANGED <<registryVars, dbVars, open, client, task, list, cuts>>

Proceed(x, from) ==
    /\ call[x].stage = from
    /\ call[x].conn = client
    /\ UNCHANGED <<registryVars, dbVars, open, client, task, list, cuts, torn, crossed>>

\* The call of x is over: the namespaces it told the kube-manager about are as
\* they should be, or it did not know how they should be.
Settle(x) == doubt' = (doubt \ Touches(x)) \cup (Touches(x) \cap crossed'[x])

\* configure_watches: the difference, under the read lock.
ConfigureDiff(x) ==
    /\ call[x].op = "configure"
    /\ Begin(x, [call[x] EXCEPT !.stage = "apply", !.stop = watched \ call[x].arg,
                                !.start = call[x].arg \ watched])
    /\ UNCHANGED <<watched, watchers, doubt>>

\* stop_namespace for each namespace that left, then start_namespace.
ConfigureApply(x) ==
    /\ Proceed(x, "apply")
    /\ \/ \E n \in call[x].stop :
            /\ watchers' = watchers \ {n}
            /\ call' = [call EXCEPT ![x].stop = @ \ {n}]
       \/ /\ call[x].stop = {}
          /\ \E n \in call[x].start :
               /\ watchers' = watchers \cup {n}
               /\ call' = [call EXCEPT ![x].start = @ \ {n}]
    /\ UNCHANGED <<watched, doubt>>

ConfigureWrite(x) ==
    /\ Proceed(x, "apply")
    /\ call[x].stop = {} /\ call[x].start = {}
    /\ watched' = call[x].arg
    /\ call' = [call EXCEPT ![x] = Over(x, "done")]
    /\ Settle(x)
    /\ UNCHANGED watchers

\* add_namespace_watch: the check, start_namespace, the insertion.
AddCheck(x) ==
    /\ call[x].op = "add"
    /\ \/ /\ call[x].arg \subseteq watched
          /\ Begin(x, Over(x, "done"))
          /\ Settle(x)
       \/ /\ ~(call[x].arg \subseteq watched)
          /\ Begin(x, [call[x] EXCEPT !.stage = "starting"])
          /\ UNCHANGED doubt
    /\ UNCHANGED <<watched, watchers>>

AddStart(x) ==
    /\ Proceed(x, "starting")
    /\ watchers' = watchers \cup call[x].arg
    /\ call' = [call EXCEPT ![x].stage = "insert"]
    /\ UNCHANGED <<watched, doubt>>

AddInsert(x) ==
    /\ Proceed(x, "insert")
    /\ watched' = watched \cup call[x].arg
    /\ call' = [call EXCEPT ![x] = Over(x, "done")]
    /\ Settle(x)
    /\ UNCHANGED watchers

\* remove_namespace_watch: taken from the set, then stop_namespace.
RemoveTake(x) ==
    /\ call[x].op = "remove"
    /\ watched' = watched \ call[x].arg
    /\ \/ /\ call[x].arg \subseteq watched
          /\ Begin(x, [call[x] EXCEPT !.stage = "stopping"])
          /\ UNCHANGED doubt
       \/ /\ ~(call[x].arg \subseteq watched)
          /\ Begin(x, Over(x, "done"))
          /\ Settle(x)
    /\ UNCHANGED watchers

\* Mutant: the watchers of a namespace taken from the set run on.
RemoveKeepsWatchers(x) ==
    /\ Proceed(x, "stopping")
    /\ call' = [call EXCEPT ![x] = Over(x, "done")]
    /\ Settle(x)
    /\ UNCHANGED managerVars

RemoveStop(x) ==
    /\ Proceed(x, "stopping")
    /\ watchers' = watchers \ call[x].arg
    /\ call' = [call EXCEPT ![x] = Over(x, "done")]
    /\ Settle(x)
    /\ UNCHANGED watched

----------------------------------------------------------------------------
Handle(x) ==
    \/ ConfigureDiff(x) \/ ConfigureApply(x) \/ ConfigureWrite(x)
    \/ AddCheck(x) \/ AddStart(x) \/ AddInsert(x)
    \/ RemoveTake(x) \/ RemoveStop(x)

Register(c) ==
    \/ DrawGeneration(c) \/ EnterRegistry(c) \/ ListForRegistration(c)
    \/ Unregister(c)

Continue(t) == WriteEnvironment(t) \/ PickServers(t) \/ ListForRefresh(t) \/ SendTask(t)

Next ==
    \/ \E c \in Conns : Connect(c) \/ ManagerClose(c) \/ ApiClose(c)
                        \/ Register(c) \/ ListingFails(c)
    \/ ManagerRestart
    \/ \E t \in Tasks : Continue(t) \/ Cut(t)
    \/ \E t \in Tasks, n \in EnvNamespaces, op \in {"env_add", "env_remove"} :
         StartEnvironment(t, n, op)
    \/ \E t \in Tasks, n \in CatalogNamespaces : CreateCatalog(t, n) \/ EditCatalog(t, n)
    \/ \E x \in Callers : Handle(x) \/ Answer(x) \/ CallFails(x)

\* Tasks of the runtimes run on; a connection lost at one end is lost at the
\* other.  Nothing makes requests arrive, connections fail or processes restart.
Fairness ==
    /\ \A c \in Conns : /\ WF_vars(Register(c))
                        /\ WF_vars(client # c /\ ApiClose(c))
                        /\ WF_vars(c \notin open /\ ManagerClose(c))
    /\ \A t \in Tasks : WF_vars(Continue(t))
    /\ \A x \in Callers : WF_vars(Handle(x)) /\ WF_vars(Answer(x) \/ CallFails(x))

Spec == Init /\ [][Next]_vars /\ Fairness

----------------------------------------------------------------------------
CallType == [op: {"none", "configure", "add", "remove"}, conn: Conns \cup {None},
             arg: SUBSET Namespaces, stage: {"none", "sent", "done", "lost"} \cup Running,
             stop: SUBSET Namespaces, start: SUBSET Namespaces]

TypeOK ==
    /\ catalogs \subseteq CatalogNamespaces /\ envs \subseteq EnvNamespaces
    /\ conn \in [Conns -> {"new", "accepted", "numbered", "gone"} \cup Entered]
    /\ number \in [Conns -> Nat] /\ counter \in Nat
    /\ open \subseteq Conns /\ client \in Conns \cup {None}
    /\ task \in [Tasks -> [op: {"idle", "env_add", "env_remove", "cat_add", "cat_edit"},
                           ns: SUBSET Namespaces,
                           stage: {"idle", "write", "send", "pick", "list", "lock",
                                   "refresh"},
                           queue: SUBSET Conns]]
    /\ list \in [Tasks -> SUBSET Namespaces]
    /\ call \in [Callers -> CallType]
    /\ watched \subseteq Namespaces /\ watchers \subseteq Namespaces
    /\ edits \in 0 .. MaxEdits /\ cuts \in 0 .. MaxCuts
    /\ crossed \in [Callers -> SUBSET Namespaces]
    /\ torn \subseteq Namespaces /\ doubt \subseteq Namespaces

NothingRuns == \A x \in Callers : call[x].stage \notin Running
Quiet == (\A t \in Tasks : task[t] = Idle) /\ (\A x \in Callers : call[x] = NoCall)

\* Between calls, a namespace has running watchers exactly if the
\* WatchManager counts it as watched, where no two calls met on it and none
\* was aborted: configure_watches, add_namespace_watch and
\* remove_namespace_watch leave the two in step although each changes them
\* under different locks.
WatchersMatch ==
    NothingRuns => \A n \in Namespaces \ torn : n \in watchers <=> n \in watched

\* When no request is in flight, the kube-manager counts a namespace as
\* watched exactly if the database wants it, unless the last change of it may
\* not have arrived: its call failed or was cut off, or met another, or a list
\* read before the change was applied after it.  A later registration or
\* refresh that meets no other change ends the doubt.
WatchedIsWanted ==
    Quiet => \A n \in Namespaces \ doubt : n \in watched <=> n \in Wanted

\* A connection the kube-manager keeps open becomes the one requests pick:
\* entries of dead connections, also those that registered late, are removed
\* although refreshes hold the lock of the registry during their calls.
LiveConnectionIsPicked ==
    \A c \in Conns : (client = c) ~> (client # c \/ Pick(c))

\* The servers of a cluster are a generation registry.
RegistrySpec == Registry!Spec
=============================================================================
