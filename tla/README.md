# A TLA+ verification of Lapdev's Kubernetes environments

Lapdev gives developers Kubernetes environments made from an *app catalog*, a
list of workloads taken from a running cluster. The API server keeps
catalogs and environments in a database, an agent (`kube-manager`) in each
cluster carries out its RPCs and reports cluster events, and proxies in the
cluster route traffic to a shared environment, to one of its branches or to a
developer's machine.

The project models the parts where several requests, tasks or connections act on
the same rows, registries or tables with nothing locked between two statements:

| module | what it is |
|---|---|
| `EnvironmentLifecycle` | create, branch, pause, resume, change, sync and delete environments |
| `CatalogSync` | cluster events and edits updating a catalog, and syncs of an environment from it |
| `ClusterWatches` | connections of a kube-manager, and the namespaces it watches |
| `GenerationRegistry` | what a registry of connections promises; `ClusterWatches` implements it |
| `DevboxSessions` | connections of a user's devices, the session row, the active environment |
| `DevboxRoutes` | devbox and branch routes, from the API through the kube-manager to a sidecar and its streams |
| `RelaySocket` | the buffers and tasks of a tunnel that is relayed through a websocket |
| `EnvironmentLifecycleProofs` | types, and that a transient status has an owner |
| `EnvironmentIsolationProofs` | what holds of environments on which requests do not overlap, the devbox-proxy included |
| `CatalogSyncProofs` | types, and that a stale environment is recognisable |
| `CatalogTrackingProofs` | that the catalog follows the cluster, failed deployments are retried and `syncing` is left |
| `ClusterWatchesProofs` | types, the refinement, that watchers are those recorded and that what is watched is wanted |
| `DevboxSessionsProofs` | types, that one session stays and that the routes follow it |
| `DevboxRoutesProofs` | types, that streams follow the table, that the live sidecar is the one called, and that the table follows the intercepts |
| `RelaySocketProofs` | types, and that wakeups are not lost |
| `MC...` | symmetry sets for TLC; constants are in the `.cfg` files |

Each definition's source lines are under `map` in `PROJECT.json`; the hazards
the properties are aimed at are under `hazards`.

## 1. Inventory

**Environment lifecycle** (`crates/api/src/kube_controller/{environment,workload,deployment}.rs`).
State: rows of `kube_environment` (status, `is_shared`, `base_environment_id`,
`deleted_at`), its workload and service rows; tasks spawned with `tokio::spawn`.
Operations: create, create a branch, pause, resume, delete, update and remove a
workload, sync. A request checks the row, writes a transient status and spawns
a task which makes RPCs and writes the final status by id. Hard: overlapping
requests on one environment or on a base and its branches, RPCs that fail half
way, restarts that lose the tasks. Correct when: a transient status is always
left, Running environments are up, deletion leaves nothing behind, a base
outlives its branches.

**App catalog** (`app_catalog.rs`) and **cluster event handling**
(`crates/kube/src/server.rs`). State: `kube_app_catalog.sync_version`, and per
workload its definition (containers with the administrator's edits, ports,
manifest) and `catalog_sync_version`; `kube_cluster_service` as a cache of
services. Operations: workload, service and config-map/secret events; edit, add
and remove a workload. Each is read, compute, write, bump the catalog version,
store the number on the workload: separate statements. Correct when: the catalog
follows the cluster, and every change gets a version an environment can see.

**Environment sync** (`sync_environment_from_catalog`). State: the environment's
`catalog_sync_version` and `sync_status`, its workload rows with versions.
Compares versions, deploys what is newer, stores the result in one transaction.
Correct when: nothing is marked as taken that was not deployed, and a failed
deployment is tried again.

**kube-manager: cluster operations and watches** (`crates/kube-manager/src/manager*.rs`,
`watch_manager.rs`). Applies resources, deletes namespaces, runs one watcher per
namespace and kind and sends each event as an RPC, in order per watcher, dropping
it when no connection exists. State of its own: `WatchManager.namespaces` and
`tasks`, two maps with a lock each. Operations: `configure_watches`,
`add_namespace_watch`, `remove_namespace_watch`. Hard: the calls run concurrently,
and are aborted wherever they are when the connection closes. Correct when: the
two maps agree, and the watched namespaces are those the database wants.

**Cluster connections** (`api/src/kube.rs`, `KubeClusterServer::register` and
`unregister`, `crates/kube/src/tunnel.rs`, `api/src/devbox_tunnels.rs`). Registries
of clients per cluster or user keyed by generation. Hard: the two ends of a
connection close at different times, so an old entry is removed after its
successor was entered, and one that died early may be entered after it. Correct
when: an old connection's cleanup never removes its successor, and a live
connection is in the end the one picked.

**Devbox sessions** (`api/src/devbox.rs`, `hrpc_service.rs`,
`cli/src/devbox/commands/connect.rs`). One session row per user, handles of the
connected devices, the active environment, tasks that push or clear its routes.
Hard: every connection takes over the same row and every ending one revokes it;
tasks of two requests run in any order. Correct when: one device stays connected,
and traffic is routed to it for the active environment and no other.

**Sidecar and devbox proxies** (`api/src/state.rs`, `sidecar_proxy_manager*.rs`,
`devbox_proxy_manager*.rs`, `crates/kube-sidecar-proxy`). Registrations with
generations, one remembered devbox route per workload, a table of branch routes in
the sidecar, streams ended on a route change. Hard: registration, replay and
pushes overlap; the table changes under one lock and the streams end under
another; sidecar and kube-manager restart separately. Correct when: a stream goes
where the table says, and the table says what sessions and intercepts say.

**Tunnel relay** (`crates/tunnel/src/relay.rs`). A QUIC tunnel whose ends cannot reach
each other directly runs over a websocket that pretends to be a UDP socket. State: a
queue, a closed flag, a waker and a `Notify` per direction; two spawned tasks, and two
of QUIC's. Hard: each side looks at the queue and then waits, while the other changes
it in between, and closing wakes only those who already wait. Correct when: nobody
sleeps beside a queue that is ready for it, and every task ends after a close.

**Not modelled** (section 10): preview URLs and the HTTP proxy (parsing and forwarding single
requests), the dashboard and CLI, accounts, OAuth and organizations
(request-response over the database), the legacy VM workspaces
(`conductor`, `ws`, most of `enterprise`), YAML cleaning and parsing, the framing of
RPC and of streams.

Interactions: API server → kube-manager by RPC with a deadline (deploy, destroy,
add/remove branch, watches); kube-manager → API server by event RPCs;
kube-manager → proxies by route updates; all API handlers share the database.

## 2. EnvironmentLifecycle

State. `row`, `kind`, `base`, `status` are the columns of `kube_environment`;
`stored` says whether the environment has workload rows with manifests; `res` is
what the cluster runs for it (`none`, `up`, `down`); `proxied` the branches the
devbox-proxy of the base knows, and `devbox_proxies` the bases whose proxy
kube-manager has a client of; `watched` the namespaces kube-manager was
told to watch; `task[t]` the request in slot `t`, its step and its environment.
`crashes`, `orphaned`, `cutOff` and `contended` are history variables.

Each statement or RPC is one action named after the operation and the step:
`DeleteLoad`, `DeleteCheckBranches`, `DeleteNotify`, `DeleteMark`,
`DeleteNamespace` or `DeleteBranchResources`, `DeleteRecord`, `DeleteUnwatch`,
`DeleteFail` are `delete_kube_environment` and its task. Points that matter:

* `update_environment_status` writes by id whatever the status has become.
* deletion refuses no status; pause and resume refuse all but `PausableFrom` and
  `ResumableFrom`, checked before the transient status is written.
* creating a branch validates the base without looking at its status.
* an RPC that fails may have had its effect (`DeployResources`): kube-manager
  applies resources one at a time and a reply may be lost.
* notifying the devbox-proxy: errors end a deletion but are logged elsewhere. Where
  kube-manager has no client of the proxy, adding a branch is an error and removing
  one answers Ok and tells nobody (`AddBranch`, `RemoveBranch`).
* a proxy registers when it starts, knowing no branch, or when it reaches
  kube-manager again, knowing what it knew (`RegisterProxy`); only a restart of
  kube-manager takes clients away (`LoseProxies`). The comment beside the answer Ok,
  "if the devbox proxy doesn't connect, we don't need to do anything", holds of a proxy
  that never ran, and not after such a restart: the proxy then runs on with the branch,
  and nothing tells it later. `cutOff` has the branches a proxy knew when its client was
  lost, until it registers again while the branch is live and in no request.
* changing a workload, a sync (`SyncEnvironment`, `SyncDeploy`, `SyncRecord`) and a
  rebase (`RebaseBranch`, `RebaseDeploy`) never read the environment's status, so that
  they bring the workloads of a Paused environment up and leave it Paused. Which
  workloads a sync finds out of date is `CatalogSync`; here it finds some or none.
* `Crash` loses all requests and tasks; the rows stay.

Abstractions. One stored workload stands for all. A refused request changes
nothing and is not a step. A request that is dropped with its connection, and a status
write that fails (the code only logs it: environment.rs 706, 723, 1130-1166), are a
`Crash` as far as their one environment is concerned, and `orphaned` marks it alike.
An RPC's effect comes before its deadline. Event publication to the dashboard is left
out. The devbox-proxy is a program outside the repository: it is told of branches and
forgets them, and is modelled as far as kube-manager uses it.

*contended* collects environments on which two requests were in flight at once
(the same environment, or a base and its branch). The code has no lock, so most
properties are false there (a pause and a resume may both pass the status check);
they are stated for the others, and `TransientHasOwner` and `TransientIsLeft`
for all.

### Properties

| property | says | run | proved |
|---|---|---|---|
| `TypeOK` | types | lifecycle_shared | `TypeCorrect` |
| `TransientHasOwner` | a transient status has a task that will leave it, unless a restart lost it; any overlap | lifecycle_personal | `TransientOwned` |
| `RunningIsUp` | Running means up, after any failures and retries | lifecycle_personal | `RunningWorkloadsUp` |
| `DeletingIsFinal` | a deletion ends in Error or the deleted row | lifecycle_personal | `DeletionFinal` |
| `TransientIsLeft` | liveness: every transient status is left | lifecycle_personal | TLC only |
| `DeletedIsGone` | a deleted environment and its branches run nothing | lifecycle_shared | `DeletedNamespaceGone` |
| `BaseOutlivesUncontended` | a live branch has a live base | lifecycle_shared | `BaseOutlives` |
| `DeletedIsNotProxied` | the devbox-proxy knows no deleted branch, outside `cutOff` | lifecycle_shared | `DeletedForgotten` |
| `Undisturbed` | the inductive invariant | lifecycle_shared | `UndisturbedInvariant` |

Bounds. `lifecycle_shared`: two environments (a base and a branch, or two
shared ones) and two requests in flight, every RPC failing or not. Two slots are
the fewest with an overlap, and every pair of operations overlaps. Slots are
reused, so histories are not bounded by the number of slots; an id is used
once. Proxies register and lose their kube-manager without bound. Symmetry over
environments and slots is sound, since nothing distinguishes them and no liveness is
checked there. The constraint `SomeUncontended` stops where requests have overlapped on
every environment: the run's properties speak of the others, and `contended` never shrinks,
so nothing is lost by it but states for `TypeOK` and `Shape`, which are proved; all 4.4
million states were explored once without it. `lifecycle_personal`: one environment, two
slots and two restarts, no symmetry since it checks liveness. Two restarts let
one hit the recovery from the other. Deadlock is not checked: with all ids
deleted and nothing in flight the system rests.

Fairness. `FairSpec` adds weak fairness of each slot's `TaskStep`: a task once
spawned is polled by tokio, and each RPC has a deadline after which the task gets
an error. Requests and restarts get no fairness.

## 3. CatalogSync

State. `source` is the cluster, `owed` the watch events not yet handled, `cache`
the service cache, `row`, `def`, `version`, `catalog` the catalog,
`env`, `inst`, `services` the environment's rows, `deployed` what runs there;
`upd[h]` and `sync[s]` the requests in flight with what they have read. A definition
has the cluster's spec (the yaml), the containers and the ports of the selecting
service. The containers are one column with two parts: `original` follows the cluster
(image, resources, container ports), `edit` is the administrator's image and environment.
`shown[w]` has every value the column had, which some dashboard may still show.

Actions. `WorkloadEvent`/`ServiceEvent` read the row, `ComputeUpdate` compares
with what the cluster and the cache say, `WriteDefinition` writes only the
columns that changed (`Merged`; a column of containers that changed has the cluster's
part from the event and the edits as they were read),
`BumpVersion` and `StoreVersion` move the numbers. `DependencyEvent` only moves
the numbers. `EditRequest`, `AddRequest`, `RemoveRequest` start the administrator's
updates. An edit sends the whole list of containers, taken from `shown` and changed in
either part, and `WriteEdit` replaces the column by it, whatever it has become since: it
puts back old images and resources, other administrators' edits included, until the next
event has `Merged` put the cluster's part right again. `UpdateCut` cuts an update off between statements.
`SyncRequest` compares the versions and sets `sync_status`; `SyncReadExisting`
and `SyncReadCatalog` are the two reads of `determine_workloads_to_sync`;
`SyncDeploy` applies all, or fails after any part; `SyncCommit` is the
transaction; `SyncCut` a failed transaction or a lost request, after which
`sync_status` stays.

Abstractions. One service per workload and one workload per update. The labels and
dependency rows of a workload are written together with its definition. The
check of a sync request and the write of `sync_status` are one step: no
property tells their interleavings apart. Service manifests come from the cache
and are part of the deployed definition. A name removed from a catalog is
not added again.

History variables. `disturbed` collects workloads with two updates in flight at once, a
cut-off update, a lost event, or an event skipped while the workload was being added.
Overlapping updates of one workload can store their versions in the wrong order
or lose an administrator's edit; nothing in the code prevents it (see `hazards`).
`unfollowed` is narrower and is left again: it has the workloads with an event that was
lost, skipped or cut off before its write, or with an edit that changed the cluster's
part, until their next event. `CatalogTracksSource` excepts only these for the yaml and
the containers, and overlaps not at all; for the ports it excepts `disturbed`, since a
service event takes the ports as read from a cache that another update may use.
`overlapped` and `stranded` mark overlapping and cut-off syncs.

| property | says | run | proved |
|---|---|---|---|
| `TypeOK` | types | catalog_updates | `CatalogTypeCorrect` |
| `StaleIsVisible` | where an environment's row differs from the catalog's, the version says so or an update is in flight; any overlap of syncs, and of updates of other workloads | catalog_updates | `StaleVisible` |
| `CatalogTracksSource` | once its events are handled, a workload has the cluster's definition, whatever updates overlapped; lost events and stale edits are made good by the next event | catalog_updates, catalog_syncs | `CatalogTracks` |
| `Visible` | the inductive invariant | catalog_syncs | `VisibleInvariant` |
| `FailedDeployIsRetried` | what was deployed and not stored is deployed again | catalog_syncs | `FailedRetried` |
| `SyncingHasOwner` | `syncing` is shown only while a sync runs | catalog_syncs | `SyncingOwned` |

Bounds. `catalog_updates`: two listed workloads, two updates in flight and a sync, one
change in the cluster and one edit, removals besides: enough for two updates of each kind
to overlap on one workload, or on two, next to a sync, and for an edit to put back the
containers of before an event or to overtake it. `catalog_syncs`: one workload that must be added
first, one update at a time, two syncs, one change, one edit and one cut, so that the second
sync starts from a version the first did not see, and that an event is lost or skipped.
`MaxChanges`, `MaxEdits` and `MaxCuts` bound the counters. Deadlock is not checked: with the
changes used up and nothing in flight, nothing is left to do.

## 4. ClusterWatches and GenerationRegistry

State. `catalogs` and `envs` are the namespaces `get_cluster_watch_namespaces`
finds in the database; `conn`, `number`, `counter` the API's registry
(`kube_cluster_servers`); `open` and `client` the two ends of each connection;
`task`, `list` the requests; `call[x]` the RPC caller `x` waits for, with the stage of
its handler; `watched`, `watchers` the two maps of `WatchManager`.

Actions. `Connect`, `ManagerClose`, `ManagerRestart` are the kube-manager's loop;
`ApiClose`, `DrawGeneration`, `EnterRegistry`, `ListForRegistration`, `ListingFails`,
`Unregister` are `handle_cluster_rpc`, `register`, `unregister`. `StartEnvironment` and
`WriteEnvironment` create or delete an environment on the server picked first;
`CreateCatalog` and `PickServers` send one addition to all servers; `EditCatalog`
and `ListForRefresh` send the whole list. A refresh holds the registry's read lock
during its calls, so that nobody registers or leaves (`Locked`). `Configure...`,
`Add...`, `Remove...` are the handlers, one action per lock. A handler runs
only on the connection whose end is open, and `AbortCalls` drops it where it is.

Abstractions. The watchers of a namespace are one (they start and stop under one
lock); an environment's namespace is not one of a catalog (`NamespacesDisjoint`: its
name is generated for it); the two queries of the wanted list are one step, since no
namespace is in both. Requests that found no server or were refused are no steps.

History variables, because the code has no lock across the steps: `torn` has the
namespaces where two handlers met or one was aborted (the maps may then differ for
good: the next `configure_watches` computes its difference from `watched` and does not
look at `tasks`); `crossed[x]` what `x` no longer knows rightly; `doubt` the namespaces
whose last change failed, was cut off, or met another. A later list that meets no
other change takes a namespace out of `doubt`; a restart empties `torn`.

| property | says | run | proved |
|---|---|---|---|
| `TypeOK` | types | cluster_watches | `TypeCorrect` |
| `WatchersMatch` | between calls, running watchers are those recorded, outside `torn` | cluster_watches | `WatchersInStep` |
| `WatchedIsWanted` | when quiet, what is watched is what the database wants, outside `doubt` | cluster_watches | `WatchedWanted` |
| `LiveConnectionIsPicked` | liveness: a connection that stays open becomes the one picked | cluster_liveness | TLC only |
| `RegistrySpec` | the servers of a cluster are a `GenerationRegistry` | cluster_liveness | `ImplementsRegistry` |

Refinement. `GenerationRegistry` has a number, an entry and an exit per connection,
each once and in this order. `ClusterWatches` maps `entered` to the connections
in the stages after `EnterRegistry` and `left` to those that unregistered. The
registries of tunnels, devbox tunnels and sidecars follow the same pattern.

Bounds. One namespace of each sort, since the properties speak of one namespace at a
time; `cluster_watches` has two requests (fewest that overlap), two connections (an old
one and its successor) and one cut, of which `MaxLoad` admits three together;
`cluster_liveness` one request, without symmetry. Deadlock is not checked: with
requests and connections used up the system rests.

Fairness. Spawned tasks and handlers are polled (`Register`, `Continue`, `Handle`), a
call returns or reaches its deadline (`Answer`, `CallFails`), and an end whose peer
is gone is closed (heartbeats and TCP). No fairness for requests, failures, new
connections or restarts. With the lock of the registry held during calls, this is
what makes `LiveConnectionIsPicked` worth asking.

## 5. DevboxSessions

State. `row` is the user's row of `kube_devbox_session` (who stored it, revoked, the
active environment); `conn`, `device`, `found`, `told` the API's side of each
connection, its handles and what its cleanup read; `cli`, `line` the CLI's loop on
each device; `request` changes of the active environment, `jobs` spawned tasks,
`routes` the environments whose routes are in place.

Actions. `Displace`, `Store`, `Register`, `UpgradeFails` are `devbox_rpc_websocket`;
`Unlist`, `ReadRow`, `Revoke` the cleanup in `handle_devbox_rpc`, three steps
that other connections can come between; `Whoami` greets and pushes; `Displaced`,
`LoseConnection`, `Quit` end the CLI's side, which retries unless it was displaced or
its first attempt failed. `StartSwitch` and `FinishSwitch` read the row and then
write it, for the RPC and for the dashboard, which alone insists on an active session.
`RunJob` is a whole `push_devbox_routes` or `clear_devbox_routes_for_environment`;
how these interact inside one workload is `DevboxRoutes`.

History variables. `together` has pairs of connections that passed the search for
handles before either was registered. `stray` has environments whose
routes nobody answers for: a switch that read an old row, a revocation of a row that
another connection had taken over, a failed task, a revocation by dashboard,
two tasks of one environment in flight (`crossing`). A later clear takes an
environment out of `stray`, but not that of a revoked row (`Dormant`): the next
connection to store the row makes it active again, beside a connection that was
greeted before and is not greeted again. `RoutesFollowSession` without this
exception fails with two faults, which the run's bounds do not reach and the proof
of `RoutesFollow` came upon.

| property | says | run | proved |
|---|---|---|---|
| `TypeOK` | types | devbox_sessions | `TypeCorrect` |
| `OneSession` | of two connections that are open one was told to leave, unless they are `together` | devbox_sessions | `AtMostOneSession` |
| `RoutesFollowSession` | once settled, the routes are those of the live session's environment, outside `stray` | devbox_sessions | `RoutesFollow` |

Bounds. Two devices and two environments, three connections (a displaced one, its
successor, a reconnection), two switches, one fault, at most five of these together.
Symmetry over devices and environments is sound, no liveness being checked.
Deadlock is not checked: used-up bounds end every behaviour.

## 6. DevboxRoutes

State. `branched`, `exposed`, `intercept`, `session` are rows and handles of the API
(`elsewhere`: the user has a session in which another environment is active);
`job[x]` what a task, or a registration of a sidecar, is doing; `snap` the route
the kube-manager remembers for the workload (`devbox_route_snapshots`); `entries`,
`counter`, `conn`, `side` the sidecar registry and connections; `table` the sidecar's
`RoutingTable`; `stream` one client's stream. One stream is enough, as streams do not
affect anything else.

Actions. `StartIntercept`, `StopIntercept`, `ListSession`, `Greet`, `UnlistSession`,
`ClearSession`, `SwitchTo`, `SwitchAway`, `UpdateWorkload`, `DeleteWorkload` and
`ChangeServices` are requests, which spawn tasks. An intercept that is started or stopped
spawns its task if the user has a session, whatever environment is active in it
(`Connected`), while sessions and switches push and clear the routes of the active one
alone. `Build`, `Remember`, `Remove`, `Pick` bring a task to its call of the newest
sidecar; `Write` and `Answer` are its handler there: the table under its lock, then the
end of the branch's streams. `Open`, `Insert`, `KeepGeneration`, `Replay` register a
sidecar and send it all service routes and the remembered devbox route. A registration
whose list of routes fails is refused before the replay, and the sidecar throws the refusal
away: it stays entered, with the table it has (`failed`), until the connection is lost. A
heartbeat that finds no entry would end it, but the entry of an open connection goes only
with the connection. `LoseConnection`, `Disconnect`, `RestartSidecar`, `RestartManager`
are what else goes wrong.
`Choose` and `Subscribe` are the two steps of a stream: the way is chosen under
the table's lock, the notice of its end is subscribed to later.

Abstractions. One workload with one replica, and branches of one user each. A user has one
session at a time: the races of its row are those of `DevboxSessions`. Ports,
tokens and addresses of a route are left out. The rows of a branch are written
with its request, the cluster's answer being that of `EnvironmentLifecycle`.

History variables. The kube-manager remembers one route per workload, so a push
of one branch forgets that of another; `unsure` has such branches and those whose last
change failed, met another (`met`), found no sidecar or was not replayed by a refused
registration (`Unreplayed`). `outside` has the branches whose user started the intercept
from another environment; their route is of no session, and stays until the user stops the
intercept while connected, or works in the branch. `raced` says that the stream
had chosen and not yet subscribed when its branch's streams were ended, or that a
handler was aborted before it ended them; it then stays on the old way.

| property | says | run | proved |
|---|---|---|---|
| `TypeOK` | types | devbox_routes | `TypeCorrect` |
| `RoutesMatchIntercepts` | once settled, a branch goes to a devbox exactly if its user works in it and intercepts, or is in `outside`, except in `unsure`; after lost tables, lost connections and refused registrations too | devbox_routes | `RoutesMatch` |
| `StreamsFollowTable` | an open stream goes where the table says or is about to be ended, unless `raced` | devbox_routes | `StreamsFollow` |
| `NewestSidecarIsLive` | once settled, the entry picked is the connected sidecar's, unless an entry was leaked | devbox_routes | `NewestIsLive` |

Bounds. Two branches (fewest that displace each other), two tasks, two operations, two
connections, one fault, at most four of these together. Initial states have any
intercepts and overrides, so that no operation is spent on making them. `SpecSmall` starts
with a user connected elsewhere only where its branch is the one with a row (2.0 million
states); other users get there by `ListSession`. Two larger instances were explored once
with the same result: all initial states (3.7 million), and three operations without users
elsewhere at the start (7.6 million). Symmetry over branches is sound. Deadlock is not
checked, as above.

`RoutesMatchIntercepts` thus says of two hazards what they come to, and that nothing else
does: a route set from elsewhere outlives the session, and a refused registration leaves
the remembered branch without its route until the next task. Hazards met here that no
property covers: a revocation from the dashboard leaves the
routes in place and tells no CLI; a websocket upgrade that fails leaves the row
active; the notification of a new environment goes to the last handle of a map keyed
by random ids; with several replicas only the newest sidecar is told.

## 7. RelaySocket

State. For each direction the length of the queue (`sendLen`, `recvLen`), the closed flag,
whether the `Notify` holds a permit (`dataReady`, `spaceReady`) and whether the
`AtomicWaker` holds a waker (`spaceWaker`, `dataWaker`); for each task the step it is at.
`writer` and `reader` are QUIC's connection and endpoint tasks, `sender` and `receiver`
the tasks of the websocket's halves. `writerWoken` and `readerWoken` say that a
task was woken since its poll began, and so will be polled again.

Actions. One per access to shared state, named after the function: `PollWritable`,
`RegisterWriter`, `RecheckWritable`, `PendOrFail` are `poll_writable`; `EnqueueCheck`,
`Enqueue`, `EnqueueNotify` are `enqueue`; `SendDequeue`, `SendDequeueWake`,
`NextDatagramClosed`, `NextDatagramWait` are `next_datagram`, `KeepaliveDue` its timeout,
`SinkSend` the websocket taking a frame or failing; `PushCheck`, `Push`, `PushWake`,
`PushWait` are `push`; `RecvDequeue`, `PollRecvClosed`, `RegisterReader` are `poll_recv`;
`...Close` and `...CloseWake` are `close` by a task that ends, `Drop...` by the drop of
the socket. `Reply...` is QUIC's endpoint, which sends some answers itself without
asking for room. A `Notify` and an `AtomicWaker` do what tokio and futures document:
`notify_one` resumes a waiting task or keeps one permit, `notify_waiters` keeps none,
`wake` takes the waker.

Abstractions. Which datagram is queued does not matter to who waits for whom, so a queue
is its length. The sender's dequeue keeps the mutex while it wakes the writer, two
steps with `QueueFree`; the receive side's dequeue and `notify_one` under the mutex are
one, since nobody can look in between. One writer, as a relay endpoint carries one
connection. A memory order other than a total one cannot be observed: the flags are
`SeqCst` and the queues under a mutex.

| property | says | run | proved |
|---|---|---|---|
| `TypeOK` | types; no queue exceeds its capacity | relay_socket | `TypeCorrect` |
| `WritableIsNotMissed` | a parked writer is woken for room and for the end | relay_socket | `WritableNeverMissed` |
| `DataIsNotMissed` | the sender does not wait beside a datagram | relay_socket | `DataNeverMissed` |
| `SpaceIsNotMissed` | the receiver does not wait beside room | relay_socket | `SpaceNeverMissed` |
| `MissedOnlyInRace` | a reader sleeps beside data or the end only if that came between its check and its registration | relay_socket | `MissedOnlyThere` |
| `ClosedSenderEnds` | liveness: the sender of a closed buffer ends | relay_socket | TLC only |
| `ParkedWriterResumes` | liveness: a writer that waits for room goes on or goes away | relay_socket | TLC only |

What the code does not guarantee, and the properties leave out. `poll_recv` registers its
waker last and does not look again, unlike `poll_writable`: in that window (`raced`) a
datagram, or the end of the stream, wakes nobody. A later datagram wakes the reader,
unless the queue is full by then: reader and receiver then wait for each other until QUIC polls
for a reason of its own, such as a timer. `close` leaves no permit: a receiver that looked at
the flag just before the drop of the socket waits for ever, since its wait has no
timeout (the sender's has one, its keepalive).

Bounds. `Capacity` is 2, the least with a state between empty and full; nothing else is
bounded, and the proofs hold for every capacity. Deadlock is not checked: the tasks end.

Fairness. The sender is polled when it can run, its timer fires, and a task that parked and
was woken is polled again: tokio does this. Fairness of `SinkSend` assumes more, of the
network and the peer: that the websocket in the end takes a frame or fails. The code sets
no deadline for it, so a peer that neither reads nor closes may hold the sender, and with it
a parked writer, for as long as its connection stands. Nothing is assumed of the reader, or
of what QUIC wants to send.

## 8. Disagreements the runs show

* `base_race`: a base's deletion checks for branches once, while it has not yet
  marked the row; a branch created after the check stays live on a deleted base.
* `catalog_gap`: a sync between the bump of the catalog's version and the store of
  the workload's marks the environment up to date without the change.
* `service_rows`: a sync deletes the service rows of workloads it did not redeploy.

Each is one property in one small configuration, and is quoted with its lines
under `findings`.

## 9. What is proved

Assumptions: `NoEnvAssumption` (the absent base is no environment),
`DeployableAssumption`, `MaxCrashesAssumption`, `ListedAssumption`,
`MaxAssumption`, `NamespacesDisjoint`, `NoDeviceAssumption`, `NoBranchAssumption`,
`CapacityAssumption` (a buffer holds at least one datagram), and
`BoundsAssumption` (the bounds are natural numbers). Sets of environments, slots,
workloads, namespaces, devices and branches are arbitrary, and the bounds too.

*EnvironmentLifecycleProofs.* `TypeCorrect` by one lemma per group of actions.
`TransientOwned` needs no more than types: the task that writes a transient
status owns it, and every step of an owner either keeps it an owner or
settles the status; `Crash` moves the environment to `orphaned`.

*EnvironmentIsolationProofs.* None of `RunningIsUp`, `DeletedIsGone`,
`BaseOutlivesUncontended` is inductive: each depends on where the only request on
an environment stands. `Undisturbed` adds that two requests on related
environments have left both contended (`OverlapIsContended`), what a request that
is alone may rely on at each step (`SoloTask`: for instance a deletion
past its check has no branches, and past the namespace an empty one), that nothing
but its own last step acts on an undisturbed deleted environment
(`DeletedIsQuiet`) and that bases are shared environments (`Shape`).
Branches live in their base's namespace, so the argument goes through `Related`.
`DeletedForgotten` adds `Forgotten`: the proxy is only told of branches
(`NotifiedIsBranch`), so that a deletion which skips the notification, that of a shared
environment, has nothing to make it forget; a deletion that is alone and past the
notification has made the proxy forget its branch (`ForgottenFirst`); and kube-manager has
a client of every proxy that knows a branch outside `cutOff` (`KnownIsReachable`), so that
the answer Ok is not the one it gives when there is none.

*CatalogSyncProofs.* `StaleIsVisible` is not inductive: a sync in flight can
store a definition read earlier. `Visible` adds that what each sync is
about to store is the catalog's definition or will be seen as older than the
version it stores (`SyncsVisible`), where "will be" includes an update that has
written but not yet stored its number (`Newer`); that this number is higher
than the stored one (`VersionsBounded`), and that an undisturbed workload has one
update (`OneUpdate`).

*CatalogTrackingProofs.* `CatalogTracksSource` speaks of quiet workloads, and is proved in
two halves. For the ports, `Tracked` says of every undisturbed workload that the cache and the
ports are the cluster's, or an event for them is owed, or an update that will write them is
in flight (`CacheTracks`, `PortsTrack`), and that what this update read is what the catalog
still has (`PortsRead`). For the yaml and the containers nothing may rest on updates being
alone. `Followed` says of every workload whose following no edit or lost event ended
that its row is the cluster's unless an event is owed, that what the one event in flight
(`OneEvent`) has read is what the catalog still has, and that what it or an addition is
about to write is the cluster's unless a further event is owed. `Sorted` says at which statements each kind
of update can be.
`Retried` drops the excuse
"a sync is under way" from `FailedDeployIsRetried` and says instead what each step of
the one sync (`OneSync`) has read and deployed. `SyncingOwned` is inductive.

*ClusterWatchesProofs.* `TypeCorrect` needs that a request about to write has
namespaces of environments (`TypeInv`). `ImplementsRegistry` needs more than the
mapping: that a number is drawn exactly in the stages after `DrawGeneration`, and that a
connection waits for a call only in the stage of its registration (`RegistryInv`), or
else the answer of a call could take a connection that left back to `serving`.
Two more invariants rest on the form of requests and calls (`Forms`). `WatchersMatch` is
about moments between calls: `Matched` says how far each step of a handler has
brought the two maps (`InStep`), and `Met` that two handlers on one namespace have
both noted it. For `WatchedIsWanted`, what a caller is about to tell is what the
database wants unless it was crossed (`Informed`), a removed namespace stays removed
(`Taken`), and a namespace that is not in `doubt` is watched as wanted or has a
request under way that will see to it (`Arriving`).

*DevboxSessionsProofs.* `OneSession` speaks of settled states and is not inductive.
`FoundOrTogether` says the same of any two connections that have looked for
others and may still be open, while everything is on its way. `Followed` is the
same for the routes: how each environment ends once the spawned tasks have run
(`Ends`), that only the active one ends routed and somebody is there to clear it
(`RoutedIsActive`), that the active one does end routed unless a connection is about to
revoke the row (`ActiveIsRouted`), and that an environment of a revoked row is stray while
a greeted connection is left (`RevokedIsStray`).

*DevboxRoutesProofs.* `TypeInv` adds to the types that a call with routes has a
branch to act on (`JobsOK`) and that only devbox tasks are in `met` (`MetOK`).
`StreamsFollowTable` is about open streams; `StreamInv` has it from the moment a way is
chosen (`Routed`), with the facts that only a handler past the table has streams to end
(`KeysShut`), and that a registration calls only while it lists or replays
(`Registrations`). `NewestIsLive` rests on `Entries`: a connection has an entry from its
registration until its end is noticed. `RoutesMatch` is the longest argument. A route is in
three places, the intercept, the kube-manager's memory and the table, and each
differs from the next while a task or a replay is on its way. `Shaped` says what each
caller aims at (`Aimed`) and at which stage a registration makes which call
(`Registers`). `Calmness` says what a task that met no other may rely on: nobody
registers, it is the only task of its branch, the user still wants what it was spawned
for, and from the moment it changed the memory, memory and routes agree (`Calm`).
`Tabled` relates table and memory: where they differ, a task is about to stop or send the
route, or the sidecar has yet to be sent the replay (`Awaits`). `Snapped` relates memory
and intercept where no task is pending. The steps fall into five kinds, one lemma each:
those that leave the users' tasks alone (`Steady`), those of a user without and with a new
task (`QuietUser`, `SpawnUser`), and a task that ends or goes on (`TaskEnds`,
`TaskGoesOn`); the restart of the kube-manager is its own case. What the user wants is
either an intercept in a session or a route set from another environment (`SnapMatches`);
`Abroad` adds that no branch is in `outside` while its user works in it. These
invariants were checked by TLC on the instance of `devbox_routes` before they were
proved, as were those of the other modules.

*RelaySocketProofs.* `Covered` has one part per task. It says why a task that is not yet
waiting will not miss what happens on its way: a writer past its registration has its
waker in place or was woken (`WriterCovered`), a sender or receiver about to wait has a
permit if there is something for it (`SenderCovered`, `ReceiverCovered`), what a reader
that has looked did not see is a race (`ReaderCovered`), and a drop comes after both of
QUIC's tasks (`DropIsLast`).

Every invariant and action property of the passing runs, and the refinement, is thus
proved for all values of the constants. Left to TLC: liveness (`TransientIsLeft`,
`LiveConnectionIsPicked`, `ClosedSenderEnds`, `ParkedWriterResumes`), since these
provers have no rules for fairness and `ENABLED`. The three `violation` runs show
counterexamples and have nothing to prove.

## 10. Not modelled

* Legacy workspaces (`conductor`, `ws`, most of `enterprise`): the code by which hosts
  connect and are watched is commented out (`conductor/src/server.rs` 152-556), so that
  their requests never reach an end that could be modelled.
* Dashboard, CLI commands other than the devbox connection, shared types: user
  interface and data definitions.
* The statistics of a cluster's tunnel clients, `ready_replicas` and the events that refresh
  the dashboard: displayed, and read by no other code.
* Accounts, OAuth, organizations, quotas, pagination: request and response over the
  database, one transaction each.
* Streams of a tunnel and their opening messages, direct endpoints, framing of RPC, TCP and
  HTTP proxying, preview URLs: their state is in buffers of the runtime and of QUIC.
* YAML cleaning, merging and parsing, and the collection of resources: translations of
  data; manifests are abstracted to their version.
* The default devbox route of personal environments, several replicas of a
  workload, relinking of overrides and the merge of manifests in a rebase.
* `seen_versions` and backoff of a watcher appear in `CatalogSync` as lost and repeated
  events only.

These make up most of the repository's lines; the map covers the controllers,
registries and proxies, where state is shared.

## 11. Plan

1. The safety half of the liveness properties: that a task which must act is not at its
   end (for instance that a transient status has an owner with a step left), which with the
   fairness assumed is what the liveness runs rest on.
2. The registry of sidecars in `DevboxRoutes` as a `GenerationRegistry` per lifetime of
   the kube-manager, whose restart draws the numbers anew.
3. Several replicas of a workload, and the override rows that
   `relink_branch_overrides` links.
