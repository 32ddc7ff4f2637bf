---------------------------- MODULE CatalogSync ----------------------------
(***************************************************************************)
(* One app catalog, the cluster its workloads come from, and one shared or *)
(* personal environment made from it: the handlers of cluster events in    *)
(* crates/kube/src/server.rs, the edits of a catalog in                    *)
(* kube_controller/app_catalog.rs and sync_environment_from_catalog in     *)
(* kube_controller/environment.rs.                                         *)
(*                                                                         *)
(* Every update of a catalog workload writes its definition, then bumps    *)
(* the catalog's sync_version, then stores the new number on the workload: *)
(* three statements outside a transaction.  A sync compares those numbers  *)
(* to decide what to deploy.  Updates and syncs run concurrently, and an   *)
(* update may be cut off between two statements (a database error, the     *)
(* deadline of the event RPC, a restart).                                  *)
(*                                                                         *)
(* A workload is selected by one service, and one update is about one      *)
(* workload.  A name removed from the catalog is not added again.          *)
(***************************************************************************)
EXTENDS Naturals, FiniteSets

CONSTANTS
    Workloads,   \* workloads of the source cluster, by name
    Listed,      \* those the catalog and the environment start with
    Handlers,    \* slots for catalog updates in flight
    Syncs,       \* slots for sync requests in flight
    MaxChanges,  \* bound on changes in the cluster
    MaxEdits,    \* bound on edits
    MaxCuts      \* bound on updates and syncs cut off, and on lost events

ASSUME ListedAssumption == Listed \subseteq Workloads
ASSUME MaxAssumption == MaxChanges \in Nat /\ MaxEdits \in Nat /\ MaxCuts \in Nat

VARIABLES
    source,      \* source[w]: w in the cluster: its spec, the containers in it, and
                 \* its service's ports
    owed,        \* watch events not yet handled: <<w, "spec">> or <<w, "ports">>
    cache,       \* cache[w]: the service ports in kube_cluster_service
    row,         \* row[w]: the row of w in kube_app_catalog_workload
    def,         \* def[w]: its definition: workload_yaml, containers, ports
    shown,       \* shown[w]: the containers a dashboard may still show
    version,     \* version[w]: its catalog_sync_version
    catalog,     \* sync_version of the catalog
    env,         \* the environment: its catalog_sync_version and sync_status
    inst,        \* inst[w]: the environment's row for w
    services,    \* workloads whose service has a row in the environment
    deployed,    \* deployed[w]: the definition running in the environment
    upd,         \* upd[h]: the catalog update in slot h
    sync,        \* sync[s]: the sync request in slot s
    changes,     \* changes so far
    edits,       \* edits so far
    cuts,        \* cuts so far
    disturbed,   \* history: workloads whose updates overlapped or were cut off
    unfollowed,  \* history: workloads that need their next event to be in line
    stranded,    \* history: a sync was cut off or its transaction failed
    overlapped   \* history: two syncs were in flight at once

clusterVars == <<source, owed, changes, edits>>
catalogVars == <<cache, row, def, shown, version, catalog>>
envVars == <<env, inst, services, deployed>>
syncVars == <<sync, stranded, overlapped>>
pastVars == <<disturbed, unfollowed>>
vars == <<source, owed, cache, row, def, shown, version, catalog, env, inst, services,
          deployed, upd, sync, changes, edits, cuts, disturbed, unfollowed, stranded,
          overlapped>>

\* The column containers has a part that follows the cluster (original_image,
\* resources, container ports) and the administrator's image and environment.
Containers == [original: Nat, edit: Nat]
Definition == [spec: Nat, original: Nat, edit: Nat, ports: Nat]
Blank == [spec |-> 0, original |-> 0, edit |-> 0, ports |-> 0]

ContainersOf(d) == [original |-> d.original, edit |-> d.edit]

NoUpdate == [op |-> "none", at |-> "idle", w |-> "none", read |-> Blank,
             new |-> Blank, ver |-> 0]
NoRow == [live |-> FALSE, def |-> Blank, ver |-> 0]
NoSync == [at |-> "idle", ver |-> 0, seen |-> [w \in Workloads |-> NoRow],
           names |-> {}, todo |-> {}, def |-> [w \in Workloads |-> Blank]]

UpdateSteps == {"idle", "compute", "match", "write", "edit", "insert", "remove",
                "bump", "version"}
UpdateRecord == [op: {"none", "event", "service", "dependency", "edit", "add",
                      "remove"},
                 at: UpdateSteps, w: Workloads \cup {"none"},
                 read: Definition, new: Definition, ver: Nat]
InstRecord == [live: BOOLEAN, def: Definition, ver: Nat]
SyncRecord == [at: {"idle", "existing", "catalog", "deploy", "commit"}, ver: Nat,
               seen: [Workloads -> InstRecord],
               names: SUBSET Workloads, todo: SUBSET Workloads,
               def: [Workloads -> Definition]]

TypeOK ==
    /\ source \in [Workloads -> [spec: Nat, original: Nat, ports: Nat]]
    /\ owed \in SUBSET (Workloads \X {"spec", "ports"})
    /\ cache \in [Workloads -> Nat]
    /\ row \in [Workloads -> {"absent", "live", "deleted"}]
    /\ def \in [Workloads -> Definition]
    /\ shown \in [Workloads -> SUBSET Containers]
    /\ version \in [Workloads -> Nat]
    /\ catalog \in Nat
    /\ env \in [ver: Nat, status: {"idle", "syncing"}]
    /\ inst \in [Workloads -> InstRecord]
    /\ services \in SUBSET Workloads
    /\ deployed \in [Workloads -> Definition]
    /\ upd \in [Handlers -> UpdateRecord]
    /\ \A h \in Handlers : upd[h].at # "idle" => upd[h].w \in Workloads
    /\ sync \in [Syncs -> SyncRecord]
    /\ changes \in Nat
    /\ edits \in Nat
    /\ cuts \in Nat
    /\ disturbed \in SUBSET Workloads
    /\ unfollowed \in SUBSET Workloads
    /\ stranded \in BOOLEAN
    /\ overlapped \in BOOLEAN

Updating(w) == \E h \in Handlers : upd[h].at # "idle" /\ upd[h].w = w

Syncing == \E s \in Syncs : sync[s].at # "idle"

Init ==
    /\ source = [w \in Workloads |-> [spec |-> 0, original |-> 0, ports |-> 0]]
    /\ owed = {}
    /\ cache = [w \in Workloads |-> 0]
    /\ row = [w \in Workloads |-> IF w \in Listed THEN "live" ELSE "absent"]
    /\ def = [w \in Workloads |-> Blank]
    /\ shown = [w \in Workloads |-> IF w \in Listed THEN {ContainersOf(Blank)} ELSE {}]
    /\ version = [w \in Workloads |-> 0]
    /\ catalog = 0
    /\ env = [ver |-> 0, status |-> "idle"]
    /\ inst = [w \in Workloads |-> [live |-> w \in Listed, def |-> Blank, ver |-> 0]]
    /\ services = Listed
    /\ deployed = [w \in Workloads |-> Blank]
    /\ upd = [h \in Handlers |-> NoUpdate]
    /\ sync = [s \in Syncs |-> NoSync]
    /\ changes = 0
    /\ edits = 0
    /\ cuts = 0
    /\ disturbed = {}
    /\ unfollowed = {}
    /\ stranded = FALSE
    /\ overlapped = FALSE

----------------------------------------------------------------------------
(* The source cluster and its watchers (external).                          *)

\* Someone changes the spec of a workload, within its containers or elsewhere, or
\* its service, or its status moves; the watcher owes an event.
SourceChange(w, what) ==
    /\ changes < MaxChanges
    /\ changes' = changes + 1
    /\ \/ /\ what = "spec"
          /\ \E now \in {[source[w] EXCEPT !.spec = @ + 1, !.original = @ + 1],
                        [source[w] EXCEPT !.spec = @ + 1], source[w]} :
                source' = [source EXCEPT ![w] = now]
       \/ what = "ports" /\ source' = [source EXCEPT ![w].ports = @ + 1]
    /\ owed' = owed \cup {<<w, what>>}
    /\ UNCHANGED <<edits, catalogVars, envVars, upd, syncVars, cuts, pastVars>>

\* send_event drops an event for which there is no RPC client, or whose RPC
\* fails before its handler starts.
EventLost(w, what) ==
    /\ <<w, what>> \in owed
    /\ cuts < MaxCuts
    /\ cuts' = cuts + 1
    /\ owed' = owed \ {<<w, what>>}
    /\ disturbed' = disturbed \cup {w}
    /\ unfollowed' = unfollowed \cup (IF what = "spec" THEN {w} ELSE {})
    /\ UNCHANGED <<source, changes, edits, catalogVars, envVars, upd, syncVars>>

----------------------------------------------------------------------------
(* Updates of the catalog.                                                  *)

Disturb(w) == disturbed' = disturbed \cup {x \in {w} : Updating(x)}

\* A definition is written to the row of w.
SetDefinition(w, d) ==
    /\ def' = [def EXCEPT ![w] = d]
    /\ shown' = [shown EXCEPT ![w] = @ \cup {ContainersOf(d)}]

Start(h, u) ==
    /\ upd[h].at = "idle"
    /\ upd' = [upd EXCEPT ![h] = u]
    /\ Disturb(u.w)

Becomes(h, u) ==
    /\ upd' = [upd EXCEPT ![h] = u]
    /\ UNCHANGED pastVars

Step(h, at) == Becomes(h, [upd[h] EXCEPT !.at = at])

Done(h) == Becomes(h, NoUpdate)

\* A watcher sends its events one after the other, each awaited.
Handling(op, w) == \E h \in Handlers : upd[h].op = op /\ upd[h].w = w

\* handle_workload_change, sync_catalog_from_workload_event: the row as read.
WorkloadEvent(h, w) ==
    /\ <<w, "spec">> \in owed
    /\ ~Handling("event", w)
    /\ row[w] = "live"
    /\ owed' = owed \ {<<w, "spec">>}
    /\ Start(h, [op |-> "event", at |-> "compute", w |-> w, read |-> def[w],
                 new |-> [def[w] EXCEPT !.spec = source[w].spec,
                                        !.original = source[w].original], ver |-> 0])
    /\ unfollowed' = unfollowed \ {w}
    /\ UNCHANGED <<source, changes, edits, catalogVars, envVars, syncVars, cuts>>

\* A workload no catalog tracks is skipped, also while it is being added.
WorkloadEventSkipped(w) ==
    /\ <<w, "spec">> \in owed
    /\ row[w] # "live"
    /\ owed' = owed \ {<<w, "spec">>}
    /\ Disturb(w)
    /\ unfollowed' = unfollowed \cup {x \in {w} : Handling("add", x)}
    /\ UNCHANGED <<source, changes, edits, catalogVars, envVars, upd, syncVars, cuts>>

\* handle_service_change: the cached service is replaced.
ServiceEvent(h, w) ==
    /\ <<w, "ports">> \in owed
    /\ ~Handling("service", w)
    /\ owed' = owed \ {<<w, "ports">>}
    /\ cache' = [cache EXCEPT ![w] = source[w].ports]
    /\ Start(h, [op |-> "service", at |-> "match", w |-> w, read |-> Blank,
                 new |-> Blank, ver |-> 0])
    /\ UNCHANGED <<source, changes, edits, row, def, shown, version, catalog, envVars,
                   syncVars, cuts, unfollowed>>

\* reconcile_workloads_for_selector: the live workload the selector matches.
ServiceMatch(h) ==
    LET w == upd[h].w
    IN  /\ upd[h].at = "match"
        /\ IF row[w] = "live"
           THEN Becomes(h, [upd[h] EXCEPT !.at = "compute",
                                          !.read = [@ EXCEPT !.ports = def[w].ports]])
           ELSE Done(h)
        /\ UNCHANGED <<clusterVars, catalogVars, envVars, syncVars, cuts>>

\* Mutant: a change of the ports alone is no change.
ComputeUpdateSpecOnly(h) ==
    LET new == [upd[h].new EXCEPT !.ports = cache[upd[h].w]]
    IN  /\ upd[h].at = "compute"
        /\ IF new.spec = upd[h].read.spec
           THEN Done(h)
           ELSE Becomes(h, [upd[h] EXCEPT !.at = "write", !.new = new])
        /\ UNCHANGED <<clusterVars, catalogVars, envVars, syncVars, cuts>>

\* compute_catalog_workload_update, or its ports alone for a service event:
\* without a change there is no write and no bump.
ComputeUpdate(h) ==
    LET new == [upd[h].new EXCEPT !.ports = cache[upd[h].w]]
    IN  /\ upd[h].at = "compute"
        /\ IF new = upd[h].read
           THEN Done(h)
           ELSE Becomes(h, [upd[h] EXCEPT !.at = "write", !.new = new])
        /\ UNCHANGED <<clusterVars, catalogVars, envVars, syncVars, cuts>>

\* Mutant: merge_containers keeps the image and resources it finds.
MergedKeepsOriginal(old, read, new) ==
    [spec |-> IF new.spec # read.spec THEN new.spec ELSE old.spec,
     original |-> old.original, edit |-> old.edit,
     ports |-> IF new.ports # read.ports THEN new.ports ELSE old.ports]

\* Only changed columns are written; merge_containers takes the cluster's part
\* from the event and the edits as they were read.
Merged(old, read, new) ==
    LET replaced == new.original # read.original
    IN  [spec |-> IF new.spec # read.spec THEN new.spec ELSE old.spec,
         original |-> IF replaced THEN new.original ELSE old.original,
         edit |-> IF replaced THEN read.edit ELSE old.edit,
         ports |-> IF new.ports # read.ports THEN new.ports ELSE old.ports]

WriteDefinition(h) ==
    LET w == upd[h].w
    IN  /\ upd[h].at = "write"
        /\ SetDefinition(w, Merged(def[w], upd[h].read, upd[h].new))
        /\ Step(h, "bump")
        /\ UNCHANGED <<clusterVars, cache, row, version, catalog, envVars, syncVars,
                       cuts>>

\* handle_dependency_change: a config map or secret of w changed; its content is
\* not part of the catalog, only the versions move.
DependencyEvent(h, w) ==
    /\ changes < MaxChanges
    /\ changes' = changes + 1
    /\ row[w] # "absent"
    /\ Start(h, [op |-> "dependency", at |-> "bump", w |-> w, read |-> Blank,
                 new |-> Blank, ver |-> 0])
    /\ UNCHANGED <<source, owed, edits, catalogVars, envVars, syncVars, cuts,
                   unfollowed>>

\* update_app_catalog_workload: the dashboard sends all containers, as it loaded
\* them some time ago, with another image or environment, or other resources.
EditRequest(h, w) ==
    /\ edits < MaxEdits
    /\ edits' = edits + 1
    /\ row[w] = "live"
    /\ \E view \in shown[w] :
          \E sent \in {[view EXCEPT !.edit = edits + 1],
                       [view EXCEPT !.original = MaxChanges + edits + 1]} :
              Start(h, [op |-> "edit", at |-> "edit", w |-> w, read |-> Blank,
                        new |-> [Blank EXCEPT !.original = sent.original,
                                              !.edit = sent.edit], ver |-> 0])
    /\ UNCHANGED <<source, owed, changes, catalogVars, envVars, syncVars, cuts,
                   unfollowed>>

\* The whole column is replaced, whatever it has become since it was shown.
WriteEdit(h) ==
    LET w == upd[h].w
        new == upd[h].new
    IN  /\ upd[h].at = "edit"
        /\ SetDefinition(w, [def[w] EXCEPT !.original = new.original,
                                           !.edit = new.edit])
        /\ upd' = [upd EXCEPT ![h].at = "bump"]
        /\ unfollowed' = unfollowed
              \cup (IF new.original # def[w].original THEN {w} ELSE {})
        /\ UNCHANGED <<clusterVars, cache, row, version, catalog, envVars, syncVars,
                       cuts, disturbed>>

\* add_workloads_to_app_catalog: the details come from the cluster first.
AddRequest(h, w) ==
    /\ row[w] = "absent"
    /\ Start(h, [op |-> "add", at |-> "insert", w |-> w, read |-> Blank,
                 new |-> [spec |-> source[w].spec, original |-> source[w].original,
                          edit |-> 0, ports |-> source[w].ports], ver |-> 0])
    /\ UNCHANGED <<clusterVars, catalogVars, envVars, syncVars, cuts, unfollowed>>

\* A second insert of the same name violates the unique index.
AddInsert(h) ==
    LET w == upd[h].w
    IN  /\ upd[h].at = "insert"
        /\ IF row[w] = "absent"
           THEN /\ row' = [row EXCEPT ![w] = "live"]
                /\ SetDefinition(w, upd[h].new)
                /\ Step(h, "bump")
           ELSE Done(h) /\ UNCHANGED <<row, def, shown>>
        /\ UNCHANGED <<clusterVars, cache, version, catalog, envVars, syncVars, cuts>>

\* delete_app_catalog_workload.
RemoveRequest(h, w) ==
    /\ row[w] = "live"
    /\ Start(h, [op |-> "remove", at |-> "remove", w |-> w, read |-> Blank,
                 new |-> Blank, ver |-> 0])
    /\ UNCHANGED <<clusterVars, catalogVars, envVars, syncVars, cuts, unfollowed>>

\* Mutant: the row is deleted for good.
RemoveRowHard(h) ==
    /\ upd[h].at = "remove"
    /\ row' = [w \in Workloads \ {upd[h].w} |-> row[w]]
    /\ Step(h, "bump")
    /\ UNCHANGED <<clusterVars, cache, def, shown, version, catalog, envVars,
                   syncVars, cuts>>

RemoveRow(h) ==
    /\ upd[h].at = "remove"
    /\ row' = [row EXCEPT ![upd[h].w] = "deleted"]
    /\ Step(h, "bump")
    /\ UNCHANGED <<clusterVars, cache, def, shown, version, catalog, envVars,
                   syncVars, cuts>>

\* bump_app_catalog_sync_version: one statement, increments and returns.
BumpVersion(h) ==
    /\ upd[h].at = "bump"
    /\ catalog' = catalog + 1
    /\ IF upd[h].op = "remove"
       THEN Done(h)
       ELSE Becomes(h, [upd[h] EXCEPT !.at = "version", !.ver = catalog + 1])
    /\ UNCHANGED <<clusterVars, cache, row, def, shown, version, envVars, syncVars, cuts>>

\* update_catalog_workload_versions: whatever number is stored already.
StoreVersion(h) ==
    /\ upd[h].at = "version"
    /\ version' = [version EXCEPT ![upd[h].w] = upd[h].ver]
    /\ Done(h)
    /\ UNCHANGED <<clusterVars, cache, row, def, shown, catalog, envVars, syncVars, cuts>>

\* The update is cut off between two of its statements.
UpdateCut(h) ==
    /\ upd[h].at # "idle"
    /\ cuts < MaxCuts
    /\ cuts' = cuts + 1
    /\ upd' = [upd EXCEPT ![h] = NoUpdate]
    /\ disturbed' = disturbed \cup {upd[h].w}
    /\ unfollowed' = unfollowed
          \cup (IF upd[h].op = "event" /\ upd[h].at \in {"compute", "write"}
                THEN {upd[h].w} ELSE {})
    /\ UNCHANGED <<clusterVars, catalogVars, envVars, syncVars>>

----------------------------------------------------------------------------
(* sync_environment_from_catalog.                                           *)

SyncBecomes(s, r) == sync' = [sync EXCEPT ![s] = r]

\* authorize_and_validate_sync, then sync_status is set.
SyncRequest(s) ==
    /\ sync[s].at = "idle"
    /\ catalog # env.ver
    /\ SyncBecomes(s, [NoSync EXCEPT !.at = "existing", !.ver = catalog])
    /\ env' = [env EXCEPT !.status = "syncing"]
    /\ overlapped' = (overlapped \/ Syncing)
    /\ UNCHANGED <<clusterVars, catalogVars, inst, services, deployed, upd, cuts,
                   pastVars, stranded>>

\* determine_workloads_to_sync reads the environment's rows, then the catalog's.
SyncReadExisting(s) ==
    /\ sync[s].at = "existing"
    /\ SyncBecomes(s, [sync[s] EXCEPT !.at = "catalog", !.seen = inst])
    /\ UNCHANGED <<clusterVars, catalogVars, envVars, upd, cuts, pastVars, stranded,
                   overlapped>>

Outdated(s, w) == sync[s].seen[w].live => version[w] > sync[s].seen[w].ver

SyncReadCatalog(s) ==
    LET names == {w \in Workloads : row[w] = "live"}
        todo == {w \in names : Outdated(s, w)}
    IN  /\ sync[s].at = "catalog"
        /\ SyncBecomes(s, [NoSync EXCEPT
              !.at = "deploy", !.ver = sync[s].ver, !.names = names, !.todo = todo,
              !.def = [w \in Workloads |-> IF w \in todo THEN def[w] ELSE Blank]])
        /\ UNCHANGED <<clusterVars, catalogVars, envVars, upd, cuts, pastVars,
                       stranded, overlapped>>

Applied(s, ws) ==
    [w \in Workloads |-> IF w \in ws THEN sync[s].def[w] ELSE deployed[w]]

\* Mutant: a deployment error is only logged.
SyncDeployLogged(s) ==
    /\ sync[s].at = "deploy"
    /\ \E part \in SUBSET sync[s].todo : deployed' = Applied(s, part)
    /\ SyncBecomes(s, [sync[s] EXCEPT !.at = "commit"])
    /\ UNCHANGED <<clusterVars, catalogVars, env, inst, services, upd, cuts, pastVars,
                   stranded, overlapped>>

\* Mutant: sync_status is not set back after a failed deployment.
SyncDeployNoReset(s) ==
    /\ sync[s].at = "deploy"
    /\ \/ /\ deployed' = Applied(s, sync[s].todo)
          /\ SyncBecomes(s, [sync[s] EXCEPT !.at = "commit"])
       \/ /\ \E part \in SUBSET sync[s].todo : deployed' = Applied(s, part)
          /\ SyncBecomes(s, NoSync)
    /\ UNCHANGED <<clusterVars, catalogVars, env, inst, services, upd, cuts, pastVars,
                   stranded, overlapped>>

\* perform_workload_deployment: all of it; or an error, in the reads before it or
\* after a part of it, which sets sync_status back.
SyncDeploy(s) ==
    /\ sync[s].at = "deploy"
    /\ \/ /\ deployed' = Applied(s, sync[s].todo)
          /\ SyncBecomes(s, [sync[s] EXCEPT !.at = "commit"])
          /\ UNCHANGED env
       \/ /\ \E part \in SUBSET sync[s].todo : deployed' = Applied(s, part)
          /\ SyncBecomes(s, NoSync)
          /\ env' = [env EXCEPT !.status = "idle"]
    /\ UNCHANGED <<clusterVars, catalogVars, inst, services, upd, cuts, pastVars,
                   stranded, overlapped>>

\* Mutant: the catalog's version is read again when the sync is stored.
SyncCommitLatest(s) ==
    LET S == sync[s]
    IN  /\ S.at = "commit"
        /\ inst' = [w \in Workloads |->
                      IF w \in S.todo
                      THEN [live |-> TRUE, def |-> S.def[w], ver |-> catalog]
                      ELSE [inst[w] EXCEPT !.live = @ /\ w \in S.names]]
        /\ services' = services \cap S.todo
        /\ env' = [ver |-> catalog, status |-> "idle"]
        /\ SyncBecomes(s, NoSync)
        /\ UNCHANGED <<clusterVars, catalogVars, deployed, upd, cuts, pastVars,
                       stranded, overlapped>>

\* update_environment_workloads_in_db: one transaction.  Service rows whose name
\* was not among the deployed services are deleted.
SyncCommit(s) ==
    LET S == sync[s]
    IN  /\ S.at = "commit"
        /\ inst' = [w \in Workloads |->
                      IF w \in S.todo
                      THEN [live |-> TRUE, def |-> S.def[w], ver |-> S.ver]
                      ELSE [inst[w] EXCEPT !.live = @ /\ w \in S.names]]
        /\ services' = services \cap S.todo
        /\ env' = [ver |-> S.ver, status |-> "idle"]
        /\ SyncBecomes(s, NoSync)
        /\ UNCHANGED <<clusterVars, catalogVars, deployed, upd, cuts, pastVars,
                       stranded, overlapped>>

\* The transaction fails or the request is cut off: sync_status stays.
SyncCut(s) ==
    /\ sync[s].at # "idle"
    /\ cuts < MaxCuts
    /\ cuts' = cuts + 1
    /\ SyncBecomes(s, NoSync)
    /\ stranded' = TRUE
    /\ UNCHANGED <<clusterVars, catalogVars, envVars, upd, pastVars, overlapped>>

----------------------------------------------------------------------------
UpdateStep(h) ==
    \/ ServiceMatch(h) \/ ComputeUpdate(h) \/ WriteDefinition(h) \/ WriteEdit(h)
    \/ AddInsert(h) \/ RemoveRow(h) \/ BumpVersion(h) \/ StoreVersion(h)

SyncStep(s) ==
    SyncReadExisting(s) \/ SyncReadCatalog(s) \/ SyncDeploy(s) \/ SyncCommit(s)

UpdateRequest(h, w) ==
    \/ WorkloadEvent(h, w) \/ ServiceEvent(h, w) \/ DependencyEvent(h, w)
    \/ EditRequest(h, w) \/ AddRequest(h, w) \/ RemoveRequest(h, w)

Next ==
    \/ \E w \in Workloads :
          \/ \E what \in {"spec", "ports"} : SourceChange(w, what) \/ EventLost(w, what)
          \/ WorkloadEventSkipped(w)
          \/ \E h \in Handlers : UpdateRequest(h, w)
    \/ \E h \in Handlers : UpdateStep(h) \/ UpdateCut(h)
    \/ \E s \in Syncs : SyncRequest(s) \/ SyncStep(s) \/ SyncCut(s)

Spec == Init /\ [][Next]_vars

----------------------------------------------------------------------------
(* What must hold.                                                          *)

\* An environment that is behind can be seen to be behind: where its row for a
\* workload differs from the catalog's, the versions differ too and the next
\* sync deploys the workload, or an update is still in flight.  However updates
\* of other workloads and overlapping syncs interleave, no change is marked as
\* taken that was not.
StaleIsVisible ==
    \A w \in Workloads \ disturbed :
        /\ row[w] = "live" /\ inst[w].live
        /\ inst[w].def # def[w]
        => Updating(w) \/ version[w] > inst[w].ver

\* What runs in the environment is what its rows say; after a deployment that
\* failed half way or was never committed, the next sync deploys again.
FailedDeployIsRetried ==
    ~overlapped =>
        \A w \in Workloads \ disturbed :
            /\ row[w] = "live" /\ inst[w].live
            /\ deployed[w] # inst[w].def
            => Syncing \/ Updating(w) \/ version[w] > inst[w].ver

\* An event of w is being handled and has not written what it read.
Following(w) ==
    \E h \in Handlers :
        upd[h].w = w /\ upd[h].op = "event" /\ upd[h].at \in {"compute", "write"}

\* The catalog follows the cluster.  With no event of a workload owed or being
\* handled, its yaml and the cluster's part of its containers are the cluster's,
\* however events, edits, additions and other updates overlap; an event that was
\* lost, cut off or skipped, or an edit that sent the containers as they were
\* shown before a change, or with other resources, is made good by the next event.
\* The ports follow where no two updates overlapped and none was cut off.
CatalogTracksSource ==
    \A w \in Workloads : row[w] = "live" =>
        /\ w \notin unfollowed /\ <<w, "spec">> \notin owed /\ ~Following(w)
              => /\ def[w].spec = source[w].spec
                 /\ def[w].original = source[w].original
        /\ w \notin disturbed /\ <<w, "ports">> \notin owed /\ ~Updating(w)
              => def[w].ports = source[w].ports

\* sync_status is syncing only while a sync is in flight, unless one was cut off
\* or its transaction failed.
SyncingHasOwner == env.status = "syncing" => Syncing \/ stranded

----------------------------------------------------------------------------
(* The parts of an inductive invariant for StaleIsVisible.                  *)

\* A change of w that is newer than version v is, or will be, recorded as such.
Newer(w, v) ==
    \/ version[w] > v
    \/ \E h \in Handlers :
          /\ upd[h].w = w /\ upd[h].op # "remove"
          /\ upd[h].at = "bump" \/ (upd[h].at = "version" /\ upd[h].ver > v)

\* Two updates in flight on one workload have left it disturbed.
OneUpdate ==
    \A g, h \in Handlers :
        g # h /\ upd[g].at # "idle" /\ upd[h].at # "idle" /\ upd[g].w = upd[h].w
            => upd[g].w \in disturbed

\* No version is ahead of the catalog's, and an undisturbed update stores a
\* higher one; a removal bumps it once its row is deleted.
VersionsBounded ==
    /\ \A w \in Workloads : version[w] <= catalog /\ inst[w].ver <= catalog
    /\ \A s \in Syncs : sync[s].ver <= catalog
    /\ \A h \in Handlers :
          /\ upd[h].at = "version"
                => upd[h].ver <= catalog
                   /\ (upd[h].w \notin disturbed => upd[h].ver > version[upd[h].w])
          /\ upd[h].op = "remove"
                => \/ upd[h].at = "remove"
                   \/ upd[h].at = "bump" /\ row[upd[h].w] = "deleted"

\* What the environment has, and what a sync is about to store, is the catalog's
\* definition or known to be older.
RowsVisible ==
    \A w \in Workloads \ disturbed :
        row[w] = "live" /\ inst[w].live /\ inst[w].def # def[w] => Newer(w, inst[w].ver)

SyncsVisible ==
    \A s \in Syncs : \A w \in sync[s].todo \ disturbed :
        /\ sync[s].at \in {"deploy", "commit"}
        /\ row[w] = "live" /\ sync[s].def[w] # def[w]
        => Newer(w, sync[s].ver)

Visible == OneUpdate /\ VersionsBounded /\ RowsVisible /\ SyncsVisible

----------------------------------------------------------------------------
(* What the code and the docs claim, and the model refutes.                 *)

\* "Environment is already up to date" (environment.rs:2131): when nothing is in
\* flight and the versions agree, every workload the catalog lists is in the
\* environment with the catalog's definition.
UpToDateIsCurrent ==
    catalog = env.ver /\ ~Syncing /\ (\A h \in Handlers : upd[h].at = "idle")
        => \A w \in Workloads \ disturbed :
              row[w] = "live" => inst[w].live /\ inst[w].def = def[w]

\* "Soft-delete services that are no longer in use" (environment.rs:2302): a
\* workload the catalog lists and the environment runs keeps its service row.
ServicesInUseKept ==
    \A w \in Listed :
        row[w] = "live" /\ inst[w].live => w \in services

=============================================================================
