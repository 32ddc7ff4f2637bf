------------------------ MODULE EnvironmentLifecycle ------------------------
(***************************************************************************)
(* The life of Kubernetes environments in the API server: the requests of  *)
(* crates/api/src/kube_controller/environment.rs and workload.rs that      *)
(* create, branch, pause, resume, change, sync and delete an environment.  *)
(*                                                                         *)
(* A request checks the database row, writes a status and leaves the rest  *)
(* to a spawned task, which calls the kube-manager of the cluster and      *)
(* writes the final status.  Nothing is locked between two statements, so  *)
(* every database statement and every RPC is a step of its own, and the    *)
(* steps of concurrent requests interleave.  A request that is refused     *)
(* changes nothing and is not a step.                                      *)
(*                                                                         *)
(* One stored workload per environment stands for all of them.  An RPC     *)
(* that fails may or may not have had its effect: kube-manager applies     *)
(* resources one by one, and a reply may be lost.                          *)
(***************************************************************************)
EXTENDS Naturals, FiniteSets

CONSTANTS
    Envs,        \* environment ids
    Tasks,       \* slots for requests in flight, each with its spawned task
    NoEnv,       \* base_environment_id = None
    Deployable,  \* kinds the cluster takes: can_deploy_shared, can_deploy_personal
    MaxCrashes   \* bound on restarts of the API server

ASSUME NoEnvAssumption == NoEnv \notin Envs
ASSUME DeployableAssumption == Deployable \subseteq {"shared", "personal"}
ASSUME MaxCrashesAssumption == MaxCrashes \in Nat

VARIABLES
    row,         \* row[e]: "absent", "live", or "deleted" (deleted_at is set)
    kind,        \* kind[e]: is_shared and base_environment_id taken together
    base,        \* base[e]: base_environment_id
    status,      \* status[e]: the status column, written even on deleted rows
    stored,      \* stored[e]: e has workload rows with manifests
    res,         \* res[e]: the workloads of e in the cluster, scaled up or down
    proxied,     \* branches the devbox-proxy of their base knows
    devbox_proxies, \* bases whose devbox-proxy kube-manager has a client of
    watched,     \* environments whose namespace kube-manager watches
    task,        \* task[t]: the request in slot t and the step it is at
    crashes,     \* history: restarts so far
    orphaned,    \* history: environments whose task was lost in a restart
    cutOff,      \* history: branches known to a proxy whose client was lost
    contended    \* history: environments on which two requests overlapped

rowVars == <<row, kind, base>>
clientVars == <<devbox_proxies, cutOff>>
proxyVars == <<proxied, clientVars>>
clusterVars == <<res, proxyVars, watched>>
crashVars == <<crashes, orphaned>>
vars == <<row, kind, base, status, stored, res, proxied, devbox_proxies, watched,
          task, crashes, orphaned, cutOff, contended>>

Kinds == {"shared", "personal", "branch"}

Transient == {"Creating", "Pausing", "Resuming", "Deleting"}
KubeEnvironmentStatus ==
    Transient \cup {"Running", "Paused", "PauseFailed", "ResumeFailed", "Error"}

Ops == {"none", "create", "branch", "delete", "pause", "resume", "update",
        "remove", "sync", "rebase"}
Steps == {"idle", "watch", "insert", "branches", "override", "mark", "load",
          "deploy", "notify", "destroy", "record", "unwatch", "finish", "fail"}

Idle == [op |-> "none", at |-> "idle", env |-> NoEnv]

TypeOK ==
    /\ row \in [Envs -> {"absent", "live", "deleted"}]
    /\ kind \in [Envs -> Kinds]
    /\ base \in [Envs -> Envs \cup {NoEnv}]
    /\ status \in [Envs -> KubeEnvironmentStatus]
    /\ stored \in [Envs -> BOOLEAN]
    /\ res \in [Envs -> {"none", "up", "down"}]
    /\ proxied \in SUBSET Envs
    /\ devbox_proxies \in SUBSET Envs
    /\ watched \in SUBSET Envs
    /\ task \in [Tasks -> [op: Ops, at: Steps, env: Envs \cup {NoEnv}]]
    /\ \A t \in Tasks : task[t].at # "idle" => task[t].env \in Envs
    /\ crashes \in Nat
    /\ orphaned \in SUBSET Envs
    /\ cutOff \in SUBSET Envs
    /\ contended \in SUBSET Envs

Init ==
    /\ row = [e \in Envs |-> "absent"]
    /\ kind = [e \in Envs |-> "personal"]
    /\ base = [e \in Envs |-> NoEnv]
    /\ status = [e \in Envs |-> "Creating"]
    /\ stored = [e \in Envs |-> FALSE]
    /\ res = [e \in Envs |-> "none"]
    /\ proxied = {}
    /\ devbox_proxies = {}
    /\ watched = {}
    /\ task = [t \in Tasks |-> Idle]
    /\ crashes = 0
    /\ orphaned = {}
    /\ cutOff = {}
    /\ contended = {}

----------------------------------------------------------------------------
(* Requests in flight.                                                      *)

Busy(t) == task[t].at # "idle"

At(t, op, step) == task[t].op = op /\ task[t].at = step

\* Requests on the same environment, or on a base and one of its branches,
\* which lives in the namespace of its base.
Related(e, f) == e = f \/ base[e] = f \/ base[f] = e

Clash(e) ==
    LET others == {task[t].env : t \in {u \in Tasks :
                                          Busy(u) /\ Related(e, task[u].env)}}
    IN  IF others = {} THEN {} ELSE others \cup {e}

Begin(t, op, step, e) ==
    /\ ~Busy(t)
    /\ task' = [task EXCEPT ![t] = [op |-> op, at |-> step, env |-> e]]
    /\ contended' = contended \cup Clash(e)

Goto(t, step) ==
    /\ task' = [task EXCEPT ![t].at = step]
    /\ UNCHANGED contended

End(t) ==
    /\ task' = [task EXCEPT ![t] = Idle]
    /\ UNCHANGED contended

\* update_environment_status: by id, whatever the row's status or deleted_at.
UpdateStatus(e, s) == status' = [status EXCEPT ![e] = s]

\* Mutant: only running branches are counted.
HasRunningBranches(e) ==
    \E x \in Envs : row[x] = "live" /\ base[x] = e /\ status[x] = "Running"

HasBranches(e) == \E x \in Envs : row[x] = "live" /\ base[x] = e

\* deploy_workload_yaml: every workload of e applied, or an error on the way.
DeployResources(t, scale, next) ==
    LET e == task[t].env
        applied == [res EXCEPT ![e] = scale]
    IN  \/ res' = applied /\ Goto(t, next)
        \/ res' \in {res, applied} /\ Goto(t, "fail")

----------------------------------------------------------------------------
(* The devbox-proxy of a shared environment, a program of its own, and what *)
(* kube-manager's devbox_proxy_manager knows of it.                         *)

Reachable(e) == base[e] \in devbox_proxies

\* add_branch_environment is an error where no proxy is registered; whether the
\* proxy was reached or not, the request goes on.
AddBranch(e) ==
    UNCHANGED proxied \/ (Reachable(e) /\ proxied' = proxied \cup {e})

\* remove_branch_environment with the answer Ok: the proxy has forgotten e, or
\* none is registered and nobody was told.
RemoveBranch(e) == proxied' = IF Reachable(e) THEN proxied \ {e} ELSE proxied

\* The same with an error, from kube-manager or from the proxy, or no answer.
RemoveBranchFails(e) == UNCHANGED proxied \/ RemoveBranch(e)

\* register_devbox_proxy, from a proxy that has just started and knows nothing,
\* or from one that reaches kube-manager again.  Its base is reachable again for
\* the branches that no request is deleting meanwhile.
RegisterProxy(b) ==
    LET mine == {x \in Envs : base[x] = b}
    IN  /\ row[b] = "live" /\ kind[b] = "shared" /\ b \notin devbox_proxies
        /\ devbox_proxies' = devbox_proxies \cup {b}
        /\ proxied' \in {proxied, proxied \ mine}
        /\ cutOff' = cutOff \ {x \in mine : row[x] = "live"
                                          /\ \A t \in Tasks : task[t].env # x}
        /\ UNCHANGED <<rowVars, status, stored, res, watched, task, crashVars,
                       contended>>

\* kube-manager restarts, or another one answers: the map of clients is empty
\* until the proxies register there.  Nothing else takes a client out of it.
LoseProxies ==
    /\ devbox_proxies # {}
    /\ devbox_proxies' = {}
    /\ cutOff' = cutOff \cup proxied
    /\ UNCHANGED <<rowVars, status, stored, res, proxied, watched, task, crashVars,
                   contended>>

----------------------------------------------------------------------------
(* create_kube_environment and its deployment task.                         *)

CreateEnvironment(t, e, k) ==
    /\ row[e] = "absent"
    /\ Begin(t, "create", "watch", e)
    /\ row' = [row EXCEPT ![e] = "live"]
    /\ kind' = [kind EXCEPT ![e] = k]
    /\ UpdateStatus(e, "Creating")
    /\ stored' = [stored EXCEPT ![e] = TRUE]
    /\ UNCHANGED <<base, clusterVars, crashVars>>

CreateWatch(t) ==
    /\ At(t, "create", "watch")
    /\ watched' \in {watched, watched \cup {task[t].env}}
    /\ Goto(t, "deploy")
    /\ UNCHANGED <<rowVars, status, stored, res, proxyVars, crashVars>>

CreateDeploy(t) ==
    /\ At(t, "create", "deploy")
    /\ DeployResources(t, "up", "finish")
    /\ UNCHANGED <<rowVars, status, stored, proxyVars, watched, crashVars>>

\* Mutant: a failure is stored under a name the enum does not have.
CreateSettleUnknown(t) ==
    /\ \/ At(t, "create", "finish") /\ UpdateStatus(task[t].env, "Running")
       \/ At(t, "create", "fail") /\ UpdateStatus(task[t].env, "Failed")
    /\ End(t)
    /\ UNCHANGED <<rowVars, stored, clusterVars, crashVars>>

CreateSettle(t) ==
    /\ \/ At(t, "create", "finish") /\ UpdateStatus(task[t].env, "Running")
       \/ At(t, "create", "fail") /\ UpdateStatus(task[t].env, "Error")
    /\ End(t)
    /\ UNCHANGED <<rowVars, stored, clusterVars, crashVars>>

----------------------------------------------------------------------------
(* create_branch_environment: runs in the request, no task is spawned.      *)

\* Mutant: any live environment may be a base.
BranchValidateAny(t, b) ==
    /\ row[b] = "live"
    /\ Begin(t, "branch", "insert", b)
    /\ UNCHANGED <<rowVars, status, stored, clusterVars, crashVars>>

BranchValidate(t, b) ==
    /\ row[b] = "live"
    /\ kind[b] = "shared"
    /\ base[b] = NoEnv
    /\ Begin(t, "branch", "insert", b)
    /\ UNCHANGED <<rowVars, status, stored, clusterVars, crashVars>>

BranchInsert(t, x) ==
    /\ At(t, "branch", "insert")
    /\ row[x] = "absent"
    /\ row' = [row EXCEPT ![x] = "live"]
    /\ kind' = [kind EXCEPT ![x] = "branch"]
    /\ base' = [base EXCEPT ![x] = task[t].env]
    /\ UpdateStatus(x, "Creating")
    /\ task' = [task EXCEPT ![t] = [op |-> "branch", at |-> "notify", env |-> x]]
    /\ contended' = contended \cup {x : u \in {v \in Tasks \ {t} : Busy(v)
                                              /\ task[v].env = task[t].env}}
    /\ UNCHANGED <<stored, clusterVars, crashVars>>

BranchNotify(t) ==
    /\ At(t, "branch", "notify")
    /\ AddBranch(task[t].env)
    /\ Goto(t, "finish")
    /\ UNCHANGED <<rowVars, status, stored, res, clientVars, watched, crashVars>>

BranchFinish(t) ==
    /\ At(t, "branch", "finish")
    /\ UpdateStatus(task[t].env, "Running")
    /\ End(t)
    /\ UNCHANGED <<rowVars, stored, clusterVars, crashVars>>

----------------------------------------------------------------------------
(* delete_kube_environment and its task.  No status is refused.             *)

DeleteLoad(t, e) ==
    /\ row[e] = "live"
    /\ \/ kind[e] = "shared" /\ Begin(t, "delete", "branches", e)
       \/ kind[e] = "branch" /\ Begin(t, "delete", "notify", e)
       \/ kind[e] = "personal" /\ Begin(t, "delete", "mark", e)
    /\ UNCHANGED <<rowVars, status, stored, clusterVars, crashVars>>

DeleteCheckBranches(t) ==
    /\ At(t, "delete", "branches")
    /\ IF HasBranches(task[t].env) THEN End(t) ELSE Goto(t, "mark")
    /\ UNCHANGED <<rowVars, status, stored, clusterVars, crashVars>>

\* Mutant: every error of the notification is only logged.
DeleteNotifyLogged(t) ==
    /\ At(t, "delete", "notify")
    /\ RemoveBranchFails(task[t].env)
    /\ Goto(t, "mark")
    /\ UNCHANGED <<rowVars, status, stored, res, clientVars, watched, crashVars>>

\* An error ends the request; a missing devbox-proxy is none.
DeleteNotify(t) ==
    /\ At(t, "delete", "notify")
    /\ \/ RemoveBranch(task[t].env) /\ Goto(t, "mark")
       \/ RemoveBranchFails(task[t].env) /\ End(t)
    /\ UNCHANGED <<rowVars, status, stored, res, clientVars, watched, crashVars>>

DeleteMark(t) ==
    /\ At(t, "delete", "mark")
    /\ UpdateStatus(task[t].env, "Deleting")
    /\ Goto(t, "destroy")
    /\ UNCHANGED <<rowVars, stored, clusterVars, crashVars>>

\* Mutant: an error of the namespace deletion is only logged.
DeleteNamespaceLogged(t) ==
    /\ At(t, "delete", "destroy")
    /\ kind[task[t].env] # "branch"
    /\ res' \in {res, [x \in Envs |-> IF x = task[t].env \/ base[x] = task[t].env
                                      THEN "none" ELSE res[x]]}
    /\ Goto(t, "record")
    /\ UNCHANGED <<rowVars, status, stored, proxyVars, watched, crashVars>>

\* destroy_environment_resources deletes the namespace, and with it whatever
\* branches of e still run there; its errors go to the status.
DeleteNamespace(t) ==
    LET e == task[t].env
        emptied == [x \in Envs |-> IF x = e \/ base[x] = e THEN "none" ELSE res[x]]
    IN  /\ At(t, "delete", "destroy")
        /\ kind[e] # "branch"
        /\ \/ res' = emptied /\ Goto(t, "record")
           \/ res' \in {res, emptied} /\ Goto(t, "fail")
        /\ UNCHANGED <<rowVars, status, stored, proxyVars, watched, crashVars>>

\* destroy_branch_environment_resources deletes what the workload and service
\* rows name; when they cannot be read it fails, and RPC errors are only logged.
DeleteBranchResources(t) ==
    LET e == task[t].env
    IN  /\ At(t, "delete", "destroy")
        /\ kind[e] = "branch"
        /\ \/ UNCHANGED res /\ (Goto(t, "record") \/ Goto(t, "fail"))
           \/ stored[e] /\ res' = [res EXCEPT ![e] = "none"] /\ Goto(t, "record")
        /\ UNCHANGED <<rowVars, status, stored, proxyVars, watched, crashVars>>

DeleteRecord(t) ==
    LET e == task[t].env
    IN  /\ At(t, "delete", "record")
        /\ \/ /\ row' = [row EXCEPT ![e] = "deleted"]
              /\ IF kind[e] = "branch" THEN End(t) ELSE Goto(t, "unwatch")
           \/ UNCHANGED row /\ Goto(t, "fail")
        /\ UNCHANGED <<kind, base, status, stored, clusterVars, crashVars>>

DeleteUnwatch(t) ==
    /\ At(t, "delete", "unwatch")
    /\ watched' \in {watched, watched \ {task[t].env}}
    /\ End(t)
    /\ UNCHANGED <<rowVars, status, stored, res, proxyVars, crashVars>>

\* Mutant: a failed deletion is logged and the status left as it is.
DeleteFailLogged(t) ==
    /\ At(t, "delete", "fail")
    /\ End(t)
    /\ UNCHANGED <<rowVars, status, stored, clusterVars, crashVars>>

DeleteFail(t) ==
    /\ At(t, "delete", "fail")
    /\ UpdateStatus(task[t].env, "Error")
    /\ End(t)
    /\ UNCHANGED <<rowVars, stored, clusterVars, crashVars>>

----------------------------------------------------------------------------
(* pause_kube_environment, resume_kube_environment and their tasks.         *)

\* Mutant: a deletion that hangs may be paused.
PausableFromDeleting == {"Running", "PauseFailed", "Deleting"}

PausableFrom == {"Running", "PauseFailed"}
ResumableFrom == {"Paused", "PauseFailed", "ResumeFailed"}

PauseRequest(t, e) ==
    /\ row[e] = "live"
    /\ kind[e] # "shared"
    /\ status[e] \in PausableFrom
    /\ Begin(t, "pause", "mark", e)
    /\ UNCHANGED <<rowVars, status, stored, clusterVars, crashVars>>

PauseMark(t) ==
    /\ At(t, "pause", "mark")
    /\ UpdateStatus(task[t].env, "Pausing")
    /\ Goto(t, "load")
    /\ UNCHANGED <<rowVars, stored, clusterVars, crashVars>>

\* The task loads the row again; a deleted row, no kube-manager or no stored
\* manifest is an error.
LoadEnvironment(t) ==
    LET e == task[t].env
    IN  /\ \/ row[e] = "live" /\ stored[e] /\ Goto(t, "deploy")
           \/ Goto(t, "fail")
        /\ UNCHANGED <<rowVars, status, stored, clusterVars, crashVars>>

AfterDeploy(e) == IF kind[e] = "branch" THEN "notify" ELSE "finish"

PauseLoad(t) == At(t, "pause", "load") /\ LoadEnvironment(t)

PauseDeploy(t) ==
    /\ At(t, "pause", "deploy")
    /\ DeployResources(t, "down", AfterDeploy(task[t].env))
    /\ UNCHANGED <<rowVars, status, stored, proxyVars, watched, crashVars>>

PauseNotify(t) ==
    /\ At(t, "pause", "notify")
    /\ RemoveBranchFails(task[t].env)
    /\ Goto(t, "finish")
    /\ UNCHANGED <<rowVars, status, stored, res, clientVars, watched, crashVars>>

\* Mutant: a failed pause is logged and the status left as it is.
PauseSettleLogged(t) ==
    /\ \/ At(t, "pause", "finish") /\ UpdateStatus(task[t].env, "Paused")
       \/ At(t, "pause", "fail") /\ UNCHANGED status
    /\ End(t)
    /\ UNCHANGED <<rowVars, stored, clusterVars, crashVars>>

\* The final status is written whatever the status has become meanwhile.
PauseSettle(t) ==
    /\ \/ At(t, "pause", "finish") /\ UpdateStatus(task[t].env, "Paused")
       \/ At(t, "pause", "fail") /\ UpdateStatus(task[t].env, "PauseFailed")
    /\ End(t)
    /\ UNCHANGED <<rowVars, stored, clusterVars, crashVars>>

ResumeRequest(t, e) ==
    /\ row[e] = "live"
    /\ kind[e] # "shared"
    /\ status[e] \in ResumableFrom
    /\ Begin(t, "resume", "mark", e)
    /\ UNCHANGED <<rowVars, status, stored, clusterVars, crashVars>>

ResumeMark(t) ==
    /\ At(t, "resume", "mark")
    /\ UpdateStatus(task[t].env, "Resuming")
    /\ Goto(t, "load")
    /\ UNCHANGED <<rowVars, stored, clusterVars, crashVars>>

ResumeLoad(t) == At(t, "resume", "load") /\ LoadEnvironment(t)

ResumeDeploy(t) ==
    /\ At(t, "resume", "deploy")
    /\ DeployResources(t, "up", AfterDeploy(task[t].env))
    /\ UNCHANGED <<rowVars, status, stored, proxyVars, watched, crashVars>>

ResumeNotify(t) ==
    /\ At(t, "resume", "notify")
    /\ AddBranch(task[t].env)
    /\ Goto(t, "finish")
    /\ UNCHANGED <<rowVars, status, stored, res, clientVars, watched, crashVars>>

\* Mutant: a failed resume reports Running.
ResumeSettleRunning(t) ==
    /\ At(t, "resume", "finish") \/ At(t, "resume", "fail")
    /\ UpdateStatus(task[t].env, "Running")
    /\ End(t)
    /\ UNCHANGED <<rowVars, stored, clusterVars, crashVars>>

ResumeSettle(t) ==
    /\ \/ At(t, "resume", "finish") /\ UpdateStatus(task[t].env, "Running")
       \/ At(t, "resume", "fail") /\ UpdateStatus(task[t].env, "ResumeFailed")
    /\ End(t)
    /\ UNCHANGED <<rowVars, stored, clusterVars, crashVars>>

----------------------------------------------------------------------------
(* update_environment_workload and delete_environment_workload: they run in *)
(* the request and never look at the status.                                *)

UpdateWorkload(t, e) ==
    /\ row[e] = "live"
    /\ \/ stored[e] /\ Begin(t, "update", "deploy", e)
       \/ /\ kind[e] = "branch" /\ ~stored[e] /\ stored[base[e]]
          /\ Begin(t, "update", "override", e)
    /\ UNCHANGED <<rowVars, status, stored, clusterVars, crashVars>>

\* ensure_branch_workload_override copies the base's workload into the branch.
UpdateOverride(t) ==
    /\ At(t, "update", "override")
    /\ stored' = [stored EXCEPT ![task[t].env] = TRUE]
    /\ Goto(t, "deploy")
    /\ UNCHANGED <<rowVars, status, clusterVars, crashVars>>

\* The manifest is deployed with the replicas it was stored with.
UpdateDeploy(t) ==
    /\ At(t, "update", "deploy")
    /\ res' \in {res, [res EXCEPT ![task[t].env] = "up"]}
    /\ End(t)
    /\ UNCHANGED <<rowVars, status, stored, proxyVars, watched, crashVars>>

\* Only a branch's workload is deleted from the cluster.
RemoveWorkload(t, e) ==
    /\ row[e] = "live"
    /\ stored[e]
    /\ \/ kind[e] = "branch" /\ Begin(t, "remove", "destroy", e)
       \/ kind[e] # "branch" /\ Begin(t, "remove", "record", e)
    /\ UNCHANGED <<rowVars, status, stored, clusterVars, crashVars>>

RemoveResources(t) ==
    LET gone == [res EXCEPT ![task[t].env] = "none"]
    IN  /\ At(t, "remove", "destroy")
        /\ \/ res' = gone /\ Goto(t, "record")
           \/ res' \in {res, gone} /\ End(t)
        /\ UNCHANGED <<rowVars, status, stored, proxyVars, watched, crashVars>>

RemoveRecord(t) ==
    /\ At(t, "remove", "record")
    /\ stored' = [stored EXCEPT ![task[t].env] = FALSE]
    /\ End(t)
    /\ UNCHANGED <<rowVars, status, clusterVars, crashVars>>

----------------------------------------------------------------------------
(* sync_environment_from_catalog and rebase_branch_environment: in the      *)
(* request too, whatever the status.  Which workloads are out of date is    *)
(* the subject of CatalogSync; here a sync finds some or none.              *)

SyncEnvironment(t, e) ==
    /\ row[e] = "live"
    /\ kind[e] # "branch"
    /\ Begin(t, "sync", "deploy", e)
    /\ UNCHANGED <<rowVars, status, stored, clusterVars, crashVars>>

\* What is out of date is deployed with the replicas of the catalog, or there
\* is nothing to deploy; an error ends the sync.
SyncDeploy(t) ==
    LET applied == [res EXCEPT ![task[t].env] = "up"]
    IN  /\ At(t, "sync", "deploy")
        /\ \/ res' = applied /\ Goto(t, "record")
           \/ UNCHANGED res /\ Goto(t, "finish")
           \/ res' \in {res, applied} /\ End(t)
        /\ UNCHANGED <<rowVars, status, stored, proxyVars, watched, crashVars>>

\* The transaction stores what was deployed and deletes the rows of workloads
\* that left the catalog, but nothing in the cluster; or it fails.
SyncRecord(t) ==
    /\ \/ /\ At(t, "sync", "record")
          /\ stored' \in {stored, [stored EXCEPT ![task[t].env] = TRUE]}
       \/ /\ At(t, "sync", "finish")
          /\ stored' \in {stored, [stored EXCEPT ![task[t].env] = FALSE]}
    /\ End(t)
    /\ UNCHANGED <<rowVars, status, clusterVars, crashVars>>

RebaseBranch(t, e) ==
    /\ row[e] = "live"
    /\ kind[e] = "branch"
    /\ row[base[e]] = "live"
    /\ Begin(t, "rebase", "deploy", e)
    /\ UNCHANGED <<rowVars, status, stored, clusterVars, crashVars>>

\* reapply_branch_overrides_from_base deploys the branch's own workloads again,
\* where the base still has them.
RebaseDeploy(t) ==
    LET e == task[t].env IN
    /\ At(t, "rebase", "deploy")
    /\ \/ UNCHANGED res
       \/ stored[e] /\ stored[base[e]] /\ res' = [res EXCEPT ![e] = "up"]
    /\ End(t)
    /\ UNCHANGED <<rowVars, status, stored, proxyVars, watched, crashVars>>

----------------------------------------------------------------------------
\* The API server restarts: requests and spawned tasks live in memory only.  It
\* stands also for a request that is dropped and for a status write that fails, of
\* which the code makes a line in the log: the environment of the one task is left
\* as a restart leaves it.
Crash ==
    /\ crashes < MaxCrashes
    /\ \E t \in Tasks : Busy(t)
    /\ task' = [t \in Tasks |-> Idle]
    /\ crashes' = crashes + 1
    /\ orphaned' = orphaned \cup {task[t].env : t \in {u \in Tasks : Busy(u)}}
    /\ UNCHANGED <<rowVars, status, stored, clusterVars, contended>>

ProxyStep == LoseProxies \/ \E b \in Envs : RegisterProxy(b)

Request(t) ==
    \E e \in Envs :
        \/ \E k \in Deployable : CreateEnvironment(t, e, k)
        \/ BranchValidate(t, e)
        \/ DeleteLoad(t, e)
        \/ PauseRequest(t, e)
        \/ ResumeRequest(t, e)
        \/ UpdateWorkload(t, e)
        \/ RemoveWorkload(t, e)
        \/ SyncEnvironment(t, e)
        \/ RebaseBranch(t, e)

CreateStep(t) == CreateWatch(t) \/ CreateDeploy(t) \/ CreateSettle(t)

BranchStep(t) ==
    (\E x \in Envs : BranchInsert(t, x)) \/ BranchNotify(t) \/ BranchFinish(t)

DeleteStep(t) ==
    \/ DeleteCheckBranches(t) \/ DeleteNotify(t) \/ DeleteMark(t)
    \/ DeleteNamespace(t) \/ DeleteBranchResources(t) \/ DeleteRecord(t)
    \/ DeleteUnwatch(t) \/ DeleteFail(t)

ScaleStep(t) ==
    \/ PauseMark(t) \/ PauseLoad(t) \/ PauseDeploy(t) \/ PauseNotify(t)
    \/ PauseSettle(t)
    \/ ResumeMark(t) \/ ResumeLoad(t) \/ ResumeDeploy(t) \/ ResumeNotify(t)
    \/ ResumeSettle(t)

WorkloadStep(t) ==
    \/ UpdateOverride(t) \/ UpdateDeploy(t) \/ RemoveResources(t) \/ RemoveRecord(t)
    \/ SyncDeploy(t) \/ SyncRecord(t) \/ RebaseDeploy(t)

TaskStep(t) ==
    CreateStep(t) \/ BranchStep(t) \/ DeleteStep(t) \/ ScaleStep(t) \/ WorkloadStep(t)

Next == Crash \/ ProxyStep \/ \E t \in Tasks : Request(t) \/ TaskStep(t)

Spec == Init /\ [][Next]_vars

\* A started task is scheduled by tokio and each RPC it awaits has a deadline,
\* so it goes on.  Nobody owes a request, and a restart is never owed.
FairSpec == Spec /\ \A t \in Tasks : WF_vars(TaskStep(t))

----------------------------------------------------------------------------
(* What must hold.                                                          *)

\* Task t is past its first status write and its end writes a settled status
\* or deletes the row.
Owns(t, e) ==
    /\ task[t].env = e
    /\ \/ task[t].op = "create" /\ task[t].at \in {"watch", "deploy", "finish", "fail"}
       \/ task[t].op = "branch" /\ task[t].at \in {"notify", "finish"}
       \/ task[t].op = "delete" /\ task[t].at \in {"destroy", "record", "fail"}
       \/ /\ task[t].op \in {"pause", "resume"}
          /\ task[t].at \in {"load", "deploy", "notify", "finish", "fail"}

\* An environment in Creating, Pausing, Resuming or Deleting always has a task
\* in flight that will take it out of that status, however requests overlap and
\* whichever RPCs fail; only a restart of the API server during such a task
\* leaves the status behind.
TransientHasOwner ==
    \A e \in Envs :
        row[e] = "live" /\ status[e] \in Transient
            => e \in orphaned \/ \E t \in Tasks : Owns(t, e)

\* A branch has a base, and it is a shared environment that was created and is
\* not itself a branch (validate_base_environment); nothing else has a base.
BranchesOfShared ==
    \A e \in Envs :
        IF row[e] # "absent" /\ kind[e] = "branch"
        THEN base[e] \in Envs /\ row[base[e]] # "absent" /\ kind[base[e]] = "shared"
        ELSE base[e] = NoEnv

\* A shared or personal environment that reports Running has its workloads
\* scaled up, after any history of failed, retried and crashed requests that
\* did not overlap on it.
RunningIsUp ==
    \A e \in Envs \ contended :
        row[e] = "live" /\ kind[e] # "branch" /\ status[e] = "Running"
            => res[e] = "up"

\* A deleted shared or personal environment has left nothing in its namespace,
\* nor have its branches, unless requests overlapped on it: the row is deleted
\* only after the namespace is.
DeletedIsGone ==
    \A e \in Envs \ contended :
        row[e] = "deleted" /\ kind[e] # "branch"
            => \A x \in Envs : x = e \/ base[x] = e => res[x] = "none"

\* A devbox-proxy that knows a deleted branch, where no requests overlapped on
\* it, is one that kube-manager lost the client of after the proxy was told of
\* the branch (manager_rpc.rs:443 then answers Ok to the deletion): however
\* notifications fail and are retried, pauses and resumes follow, proxies start
\* again and register again, nothing else lets a deletion leave the branch there.
DeletedIsNotProxied ==
    \A e \in Envs \ (contended \cup cutOff) : row[e] = "deleted" => e \notin proxied

\* A live branch has a live base, unless requests overlapped on the base.
BaseOutlivesUncontended ==
    \A x \in Envs :
        row[x] = "live" /\ kind[x] = "branch" /\ base[x] \notin contended
            => row[base[x]] = "live"

\* Where requests do not overlap, a deletion that has begun ends in the deleted
\* row or in Error: pause and resume refuse a Deleting environment.
DeletingIsFinal ==
    [][\A e \in Envs :
          /\ e \notin contended'
          /\ row[e] = "live" /\ status[e] = "Deleting"
          => status'[e] \in {"Deleting", "Error"}]_vars

\* Every transient status is left, unless a restart lost the task that owns it:
\* the task ends, and its last statement settles the status or deletes the row.
TransientIsLeft ==
    \A e \in Envs :
        (row[e] = "live" /\ status[e] \in Transient)
            ~> (row[e] = "deleted" \/ status[e] \notin Transient \/ e \in orphaned)

----------------------------------------------------------------------------
(* The parts of an inductive invariant for environments on which no two     *)
(* requests overlapped.                                                     *)

\* Two requests in flight on related environments leave both contended.
OverlapIsContended ==
    \A t, u \in Tasks :
        t # u /\ Busy(t) /\ Busy(u) /\ Related(task[t].env, task[u].env)
            => task[t].env \in contended

\* A request in flight is about an environment that was created, and a branch
\* is inserted under a shared one.
TaskOnCreated ==
    \A t \in Tasks : Busy(t) =>
        /\ row[task[t].env] # "absent"
        /\ At(t, "branch", "insert") => kind[task[t].env] = "shared"

NamespaceEmpty(e) == \A x \in Envs : x = e \/ base[x] = e => res[x] = "none"

\* What a request in flight alone on its environment may rely on.
SoloTask(t) ==
    LET e == task[t].env
        o == task[t].op
        a == task[t].at
    IN  /\ o = "create" => status[e] = "Creating" /\ row[e] = "live"
        /\ o = "create" /\ a = "finish" => res[e] = "up"
        /\ o = "branch" /\ a # "insert"
               => kind[e] = "branch" /\ row[e] = "live" /\ status[e] = "Creating"
        /\ o = "branch" /\ a = "insert" => row[e] = "live"
        /\ o = "pause" => kind[e] # "shared" /\ row[e] = "live"
        /\ o = "pause" => IF a = "mark" THEN status[e] \in PausableFrom
                                        ELSE status[e] = "Pausing"
        /\ o = "resume" => kind[e] # "shared" /\ row[e] = "live"
        /\ o = "resume" => IF a = "mark" THEN status[e] \in ResumableFrom
                                         ELSE status[e] = "Resuming"
        /\ o = "resume" /\ a \in {"notify", "finish"} => res[e] = "up"
        /\ o \in {"update", "sync", "rebase"} => row[e] = "live"
        /\ o = "remove" => row[e] = "live"
        /\ o = "remove" /\ a = "destroy" => kind[e] = "branch"
        /\ o = "delete" /\ a # "unwatch" => row[e] = "live"
        /\ o = "delete" /\ a = "notify" => kind[e] = "branch"
        /\ o = "delete" /\ a \notin {"branches", "notify", "mark", "unwatch"}
               => status[e] = "Deleting"
        /\ o = "delete" /\ a \in {"mark", "destroy", "record"} => ~HasBranches(e)
        /\ o = "delete" /\ a = "record" /\ kind[e] # "branch" => NamespaceEmpty(e)

SoloTasks ==
    \A t \in Tasks : Busy(t) /\ task[t].env \notin contended => SoloTask(t)

\* After an undisturbed deletion only its own last step is in flight there.
DeletedIsQuiet ==
    \A e \in Envs \ contended :
        row[e] = "deleted" =>
            \A t \in Tasks : Busy(t) /\ (task[t].env = e \/ base[task[t].env] = e)
                => At(t, "delete", "unwatch") /\ task[t].env = e

Shape == BranchesOfShared /\ TaskOnCreated

Undisturbed ==
    /\ Shape /\ OverlapIsContended /\ SoloTasks /\ DeletedIsQuiet
    /\ RunningIsUp /\ DeletedIsGone /\ BaseOutlivesUncontended

(* What the code's own words claim, and interleavings break.                *)

\* "Cannot delete shared environment: it has active branch environments"
\* (environment.rs:606): a live branch always has a live base.
BaseOutlivesBranches ==
    \A x \in Envs :
        row[x] = "live" /\ kind[x] = "branch" => row[base[x]] = "live"

=============================================================================
