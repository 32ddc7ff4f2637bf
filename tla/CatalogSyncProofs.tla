-------------------------- MODULE CatalogSyncProofs --------------------------
(***************************************************************************)
(* Proofs about CatalogSync for any sets of workloads, update slots and    *)
(* sync slots and any bounds: type correctness, and that an environment    *)
(* that is behind its catalog can be seen to be behind (StaleIsVisible).   *)
(*                                                                         *)
(* StaleIsVisible is not inductive: a sync that read the catalog before a  *)
(* change stores its copy after it.  Visible adds what such a sync may     *)
(* hold (SyncsVisible), where the numbers stand (VersionsBounded) and that *)
(* two updates at once mark their workload (OneUpdate).  The lemmas are    *)
(* grouped by the kind of step: those about Visible take the effect of a   *)
(* step as hypotheses, so that one lemma serves all steps of a kind.       *)
(***************************************************************************)
EXTENDS CatalogSync, TLAPS

\* A definition with one column replaced is a definition.
LEMMA DefinitionRecords ==
    ASSUME NEW d \in Definition, NEW n \in Nat
    PROVE  /\ Blank \in Definition
           /\ [d EXCEPT !.ports = n] \in Definition
           /\ [d EXCEPT !.spec = n] \in Definition
           /\ [d EXCEPT !.original = n] \in Definition
           /\ [d EXCEPT !.edit = n] \in Definition
           /\ ContainersOf(d) \in Containers
  BY DEF Definition, Blank, ContainersOf, Containers

\* Writing a definition keeps the types of the columns it touches.
LEMMA SetDefinitionType ==
    ASSUME TypeOK, NEW w \in Workloads, NEW d \in Definition, SetDefinition(w, d)
    PROVE  /\ def' \in [Workloads -> Definition]
           /\ shown' \in [Workloads -> SUBSET Containers]
  <1>1. ContainersOf(d) \in Containers
    BY DefinitionRecords
  <1>2. /\ def' = [def EXCEPT ![w] = d]
        /\ shown' = [shown EXCEPT ![w] = @ \cup {ContainersOf(d)}]
    BY DEF SetDefinition
  <1>3. shown[w] \cup {ContainersOf(d)} \in SUBSET Containers
    BY <1>1 DEF TypeOK
  <1> QED
    BY <1>2, <1>3 DEF TypeOK

\* The records a sync goes through keep their type.
LEMMA SyncRecords ==
    ASSUME NEW r \in SyncRecord
    PROVE  /\ NoSync \in SyncRecord
           /\ [r EXCEPT !.at = "commit"] \in SyncRecord
           /\ \A n \in Nat : [NoSync EXCEPT !.at = "existing", !.ver = n] \in SyncRecord
           /\ \A i \in [Workloads -> InstRecord] :
                 [r EXCEPT !.at = "catalog", !.seen = i] \in SyncRecord
           /\ \A n \in Nat, ws, ts \in SUBSET Workloads, d \in [Workloads -> Definition] :
                 [NoSync EXCEPT !.at = "deploy", !.ver = n, !.names = ws, !.todo = ts,
                                !.def = d] \in SyncRecord
  <1> USE DEF SyncRecord
  <1>1. NoSync \in SyncRecord
    BY DEF NoSync, NoRow, InstRecord, Definition, Blank
  <1>2. [r EXCEPT !.at = "commit"] \in SyncRecord
    OBVIOUS
  <1>3. \A n \in Nat : [NoSync EXCEPT !.at = "existing", !.ver = n] \in SyncRecord
    BY <1>1
  <1>4. \A i \in [Workloads -> InstRecord] :
           [r EXCEPT !.at = "catalog", !.seen = i] \in SyncRecord
    OBVIOUS
  <1>5. \A n \in Nat, ws, ts \in SUBSET Workloads, d \in [Workloads -> Definition] :
           [NoSync EXCEPT !.at = "deploy", !.ver = n, !.names = ws, !.todo = ts,
                          !.def = d] \in SyncRecord
    BY <1>1
  <1> QED
    BY <1>1, <1>2, <1>3, <1>4, <1>5

\* merge_containers yields a definition.
LEMMA MergedType ==
    ASSUME NEW a \in Definition, NEW b \in Definition, NEW c \in Definition
    PROVE  Merged(a, b, c) \in Definition
  BY DEF Definition, Merged

----------------------------------------------------------------------------
(* Visible, by kind of step.                                               *)

\* A step of the cluster, or one that only marks workloads, keeps Visible.
LEMMA VisibleFrame ==
    ASSUME TypeOK, Visible, UNCHANGED <<row, def, version, catalog, inst, upd, sync>>,
           disturbed \subseteq disturbed'
    PROVE  Visible'
  BY DEF Visible, OneUpdate, VersionsBounded, RowsVisible, SyncsVisible, Newer

\* An update that starts keeps Visible: if its workload has another in flight it
\* is disturbed from now on.
LEMMA VisibleStart ==
    ASSUME TypeOK, Visible, UNCHANGED <<row, def, version, catalog, inst, sync>>,
           NEW h \in Handlers, NEW u, Start(h, u),
           u.at \notin {"idle", "version"}, u.op = "remove" => u.at = "remove"
    PROVE  Visible'
  <1>1. upd[h].at = "idle" /\ upd'[h] = u /\ \A g \in Handlers \ {h} : upd'[g] = upd[g]
    BY DEF Start, TypeOK
  <1>2. /\ disturbed \subseteq disturbed'
        /\ \A g \in Handlers : upd[g].at # "idle" /\ upd[g].w = u.w => u.w \in disturbed'
    BY DEF Start, Disturb, Updating
  <1>3. OneUpdate'
    BY <1>1, <1>2 DEF Visible, OneUpdate
  <1>4. VersionsBounded'
    BY <1>1, <1>2 DEF Visible, VersionsBounded
  <1>5. RowsVisible'
    BY <1>1, <1>2 DEF Visible, RowsVisible, Newer
  <1>6. SyncsVisible'
    BY <1>1, <1>2 DEF Visible, SyncsVisible, Newer
  <1> QED
    BY <1>3, <1>4, <1>5, <1>6 DEF Visible

\* A step of an update that writes nothing, before its bump, keeps Visible.
LEMMA VisibleQuietStep ==
    ASSUME TypeOK, Visible, UNCHANGED <<row, def, version, catalog, inst, sync>>,
           NEW h \in Handlers, NEW u, Becomes(h, u),
           upd[h].at \notin {"idle", "bump", "version"},
           u.at = "idle" \/ (u.at \notin {"bump", "version"} /\ u.w = upd[h].w),
           u.op # "remove"
    PROVE  Visible'
  <1>1. upd'[h] = u /\ \A g \in Handlers \ {h} : upd'[g] = upd[g]
    BY DEF Becomes, TypeOK
  <1>2. disturbed' = disturbed
    BY DEF Becomes, pastVars
  <1>3. OneUpdate'
    BY <1>1, <1>2 DEF Visible, OneUpdate
  <1>4. VersionsBounded'
    BY <1>1, <1>2 DEF Visible, VersionsBounded
  <1>5. RowsVisible'
    BY <1>1, <1>2 DEF Visible, RowsVisible, Newer
  <1>6. SyncsVisible'
    BY <1>1, <1>2 DEF Visible, SyncsVisible, Newer
  <1> QED
    BY <1>3, <1>4, <1>5, <1>6 DEF Visible

\* The statement that writes the row keeps Visible: the bump that must follow
\* announces the change.
LEMMA VisibleWrite ==
    ASSUME TypeOK, Visible, UNCHANGED <<version, catalog, inst, sync>>,
           NEW h \in Handlers, upd[h].at \notin {"idle", "bump", "version"},
           upd' = [upd EXCEPT ![h] = [upd[h] EXCEPT !.at = "bump"]], UNCHANGED disturbed,
           \A w \in Workloads : w # upd[h].w => row'[w] = row[w] /\ def'[w] = def[w],
           \A w \in Workloads : row[w] = "deleted" => row'[w] = "deleted",
           upd[h].at = "remove" => row'[upd[h].w] = "deleted"
    PROVE  Visible'
  <1>1. /\ upd'[h].at = "bump" /\ upd'[h].w = upd[h].w /\ upd'[h].op = upd[h].op
        /\ \A g \in Handlers \ {h} : upd'[g] = upd[g]
    <2>1. upd[h] \in UpdateRecord /\ "bump" \in UpdateSteps
      BY DEF TypeOK, UpdateSteps
    <2>2. /\ upd'[h] = [upd[h] EXCEPT !.at = "bump"]
          /\ \A g \in Handlers \ {h} : upd'[g] = upd[g]
      BY DEF TypeOK
    <2> QED
      BY <2>1, <2>2 DEF UpdateRecord
  <1>2. disturbed' = disturbed /\ upd[h].w \in Workloads
    BY DEF TypeOK
  <1>removed. upd[h].op = "remove" => row'[upd[h].w] = "deleted"
    BY DEF Visible, VersionsBounded
  <1>3. OneUpdate'
    BY <1>1, <1>2 DEF Visible, OneUpdate
  <1>4. VersionsBounded'
    <2>1. \A g \in Handlers : upd'[g].at = "version" => g # h
      BY <1>1
    <2>2. \A g \in Handlers : upd[g].at # "idle" => upd[g].w \in Workloads
      BY DEF TypeOK
    <2> QED
      BY <1>removed, <1>1, <1>2, <2>1, <2>2 DEF Visible, VersionsBounded
  <1>5. RowsVisible'
    BY <1>removed, <1>1, <1>2 DEF Visible, RowsVisible, Newer
  <1>6. SyncsVisible'
    <2>1. \A s \in Syncs : sync[s].todo \subseteq Workloads
      BY DEF TypeOK, SyncRecord
    <2> QED
      BY <1>removed, <1>1, <1>2, <2>1 DEF Visible, SyncsVisible, Newer
  <1> QED
    BY <1>3, <1>4, <1>5, <1>6 DEF Visible

\* bump_app_catalog_sync_version keeps Visible: the number it returns is above
\* every number a sync or a row holds.
LEMMA VisibleBump ==
    ASSUME TypeOK, Visible, NEW h \in Handlers, BumpVersion(h)
    PROVE  Visible'
  <1>1. UNCHANGED <<row, def, version, inst, sync, disturbed>> /\ catalog' = catalog + 1
    BY DEF BumpVersion, Done, Becomes, catalogVars, envVars, syncVars, pastVars
  <1>2. /\ upd'[h].op # "remove"
        /\ upd'[h].at = "idle" \/ (upd'[h].at = "version" /\ upd'[h].w = upd[h].w
                                   /\ upd'[h].op = upd[h].op /\ upd'[h].ver = catalog + 1)
        /\ upd'[h].at = "idle" => upd[h].op = "remove" /\ upd'[h].op = "none"
        /\ \A g \in Handlers \ {h} : upd'[g] = upd[g]
    <2>1. upd[h] \in UpdateRecord /\ catalog + 1 \in Nat
      BY DEF TypeOK
    <2>2. CASE upd[h].op = "remove"
      <3>1. upd'[h] = NoUpdate /\ \A g \in Handlers \ {h} : upd'[g] = upd[g]
        BY <2>2 DEF BumpVersion, Done, Becomes, TypeOK
      <3> QED
        BY <2>2, <3>1 DEF NoUpdate
    <2>3. CASE upd[h].op # "remove"
      <3>1. /\ upd'[h] = [upd[h] EXCEPT !.at = "version", !.ver = catalog + 1]
            /\ \A g \in Handlers \ {h} : upd'[g] = upd[g]
        BY <2>3 DEF BumpVersion, Becomes, TypeOK
      <3> QED
        BY <2>1, <2>3, <3>1 DEF UpdateRecord
    <2> QED
      BY <2>2, <2>3
  <1>3. upd[h].at = "bump" /\ upd[h].w \in Workloads
    BY DEF BumpVersion, TypeOK
  <1>4. /\ catalog \in Nat
        /\ \A w \in Workloads : version[w] \in Nat /\ inst[w].ver \in Nat
        /\ \A s \in Syncs : sync[s].ver \in Nat /\ sync[s].todo \subseteq Workloads
        /\ \A g \in Handlers : upd[g].ver \in Nat
        /\ \A g \in Handlers : upd[g].at # "idle" => upd[g].w \in Workloads
    BY DEF TypeOK, InstRecord, SyncRecord, UpdateRecord
  <1>5. OneUpdate'
    BY <1>1, <1>2, <1>3 DEF Visible, OneUpdate
  <1>6. VersionsBounded'
    <2>1. /\ \A w \in Workloads : version'[w] <= catalog' /\ inst'[w].ver <= catalog'
          /\ \A s \in Syncs : sync'[s].ver <= catalog'
      BY <1>1, <1>4 DEF Visible, VersionsBounded
    <2>2. ASSUME NEW g \in Handlers, upd'[g].at = "version"
          PROVE  /\ upd'[g].ver <= catalog'
                 /\ upd'[g].w \notin disturbed' => upd'[g].ver > version'[upd'[g].w]
      <3>1. CASE g = h
        BY <1>1, <1>2, <1>3, <1>4, <2>2, <3>1 DEF Visible, VersionsBounded
      <3>2. CASE g # h
        BY <1>1, <1>2, <1>4, <2>2, <3>2 DEF Visible, VersionsBounded
      <3> QED
        BY <3>1, <3>2
    <2>3. ASSUME NEW g \in Handlers, upd'[g].op = "remove"
          PROVE  \/ upd'[g].at = "remove"
                 \/ upd'[g].at = "bump" /\ row'[upd'[g].w] = "deleted"
      BY <1>1, <1>2, <2>3 DEF Visible, VersionsBounded
    <2> QED
      BY <2>1, <2>2, <2>3 DEF VersionsBounded
  <1>7. RowsVisible'
    BY <1>1, <1>2, <1>3, <1>4 DEF Visible, VersionsBounded, RowsVisible, Newer
  <1>8. SyncsVisible'
    BY <1>1, <1>2, <1>3, <1>4 DEF Visible, VersionsBounded, SyncsVisible, Newer
  <1> QED
    BY <1>5, <1>6, <1>7, <1>8 DEF Visible

\* update_catalog_workload_versions keeps Visible: an undisturbed workload gets a
\* higher number than it had.
LEMMA VisibleStore ==
    ASSUME TypeOK, Visible, NEW h \in Handlers, StoreVersion(h)
    PROVE  Visible'
  <1>1. UNCHANGED <<row, def, catalog, inst, sync, disturbed>>
    BY DEF StoreVersion, Done, Becomes, envVars, syncVars, pastVars
  <1>2. /\ upd[h].at = "version" /\ upd[h].w \in Workloads
        /\ version' = [version EXCEPT ![upd[h].w] = upd[h].ver]
        /\ upd'[h].at = "idle" /\ upd'[h].op = "none"
        /\ \A g \in Handlers \ {h} : upd'[g] = upd[g]
    BY DEF StoreVersion, Done, Becomes, NoUpdate, TypeOK
  <1>3. /\ catalog \in Nat
        /\ \A w \in Workloads : version[w] \in Nat /\ inst[w].ver \in Nat
        /\ \A s \in Syncs : sync[s].ver \in Nat /\ sync[s].todo \subseteq Workloads
        /\ \A g \in Handlers : upd[g].ver \in Nat
        /\ \A g \in Handlers : upd[g].at # "idle" => upd[g].w \in Workloads
        /\ version \in [Workloads -> Nat]
    BY DEF TypeOK, InstRecord, SyncRecord, UpdateRecord
  <1>4. OneUpdate'
    BY <1>1, <1>2 DEF Visible, OneUpdate
  <1>5. VersionsBounded'
    BY <1>1, <1>2, <1>3 DEF Visible, OneUpdate, VersionsBounded
  <1>6. RowsVisible'
    BY <1>1, <1>2, <1>3 DEF Visible, OneUpdate, VersionsBounded, RowsVisible, Newer
  <1>7. SyncsVisible'
    BY <1>1, <1>2, <1>3 DEF Visible, OneUpdate, VersionsBounded, SyncsVisible, Newer
  <1> QED
    BY <1>4, <1>5, <1>6, <1>7 DEF Visible

\* An update that is cut off keeps Visible: its workload is disturbed.
LEMMA VisibleCut ==
    ASSUME TypeOK, Visible, NEW h \in Handlers, UpdateCut(h)
    PROVE  Visible'
  <1>1. UNCHANGED <<row, def, version, catalog, inst, sync>>
    BY DEF UpdateCut, catalogVars, envVars, syncVars
  <1>2. /\ disturbed' = disturbed \cup {upd[h].w}
        /\ upd'[h].at = "idle" /\ upd'[h].op = "none"
        /\ \A g \in Handlers \ {h} : upd'[g] = upd[g]
    BY DEF UpdateCut, NoUpdate, TypeOK
  <1>3. OneUpdate'
    BY <1>1, <1>2 DEF Visible, OneUpdate
  <1>4. VersionsBounded'
    BY <1>1, <1>2 DEF Visible, VersionsBounded
  <1>5. RowsVisible'
    BY <1>1, <1>2 DEF Visible, RowsVisible, Newer
  <1>6. SyncsVisible'
    BY <1>1, <1>2 DEF Visible, SyncsVisible, Newer
  <1> QED
    BY <1>3, <1>4, <1>5, <1>6 DEF Visible

\* The steps of a sync keep Visible.  The commit is the step that needs
\* SyncsVisible: what it stores is current or known to be older.
LEMMA VisibleSync ==
    ASSUME TypeOK, Visible, NEW s \in Syncs,
           SyncRequest(s) \/ SyncStep(s) \/ SyncCut(s)
    PROVE  Visible'
  <1>1. UNCHANGED <<row, def, version, catalog, upd, disturbed>>
    BY DEF SyncRequest, SyncStep, SyncReadExisting, SyncReadCatalog, SyncDeploy, SyncCommit,
       SyncCut, catalogVars, pastVars
  <1>2. OneUpdate'
    BY <1>1 DEF Visible, OneUpdate
  <1>3. sync[s] \in SyncRecord /\ sync[s].ver <= catalog /\ catalog \in Nat
    BY DEF TypeOK, Visible, VersionsBounded
  <1>4. CASE SyncRequest(s)
    <2>1. UNCHANGED inst
      BY <1>4 DEF SyncRequest
    <2>2. /\ sync'[s].at = "existing" /\ sync'[s].ver = catalog
          /\ \A t \in Syncs \ {s} : sync'[t] = sync[t]
      BY <1>4 DEF SyncRequest, SyncBecomes, NoSync, TypeOK
    <2>3. VersionsBounded'
      BY <1>1, <1>3, <2>1, <2>2 DEF Visible, VersionsBounded
    <2>4. RowsVisible'
      BY <1>1, <2>1 DEF Visible, RowsVisible, Newer
    <2>5. SyncsVisible'
      BY <1>1, <2>2 DEF Visible, SyncsVisible, Newer
    <2> QED
      BY <1>2, <2>3, <2>4, <2>5 DEF Visible
  <1>5. CASE SyncReadCatalog(s)
    <2>1. UNCHANGED inst
      BY <1>5 DEF SyncReadCatalog, envVars
    <2>2. PICK names \in SUBSET Workloads, todo \in SUBSET Workloads :
             sync' = [sync EXCEPT ![s] =
                [NoSync EXCEPT !.at = "deploy", !.ver = sync[s].ver, !.names = names,
                  !.todo = todo,
                  !.def = [w \in Workloads |-> IF w \in todo THEN def[w] ELSE Blank]]]
      BY <1>5 DEF SyncReadCatalog, SyncBecomes
    <2>3. /\ sync'[s].ver = sync[s].ver /\ sync'[s].todo = todo
          /\ \A w \in todo : sync'[s].def[w] = def[w]
          /\ \A t \in Syncs \ {s} : sync'[t] = sync[t]
      BY <1>3, <2>2 DEF TypeOK, NoSync
    <2>4. VersionsBounded'
      BY <1>1, <2>1, <2>3 DEF Visible, VersionsBounded
    <2>5. RowsVisible'
      BY <1>1, <2>1 DEF Visible, RowsVisible, Newer
    <2>6. SyncsVisible'
      BY <1>1, <2>3 DEF Visible, SyncsVisible, Newer
    <2> QED
      BY <1>2, <2>4, <2>5, <2>6 DEF Visible
  <1>8. CASE SyncReadExisting(s)
    <2>1. UNCHANGED inst
      BY <1>8 DEF SyncReadExisting, envVars
    <2>2. /\ sync'[s].at = "catalog" /\ sync'[s].ver = sync[s].ver
          /\ \A t \in Syncs \ {s} : sync'[t] = sync[t]
      BY <1>3, <1>8 DEF SyncReadExisting, SyncBecomes, TypeOK, SyncRecord
    <2>3. VersionsBounded'
      BY <1>1, <1>3, <2>1, <2>2 DEF Visible, VersionsBounded
    <2>4. RowsVisible'
      BY <1>1, <2>1 DEF Visible, RowsVisible, Newer
    <2>5. SyncsVisible'
      BY <1>1, <2>2 DEF Visible, SyncsVisible, Newer
    <2> QED
      BY <1>2, <2>3, <2>4, <2>5 DEF Visible
  <1>6. CASE SyncDeploy(s) \/ SyncCut(s)
    <2>1. UNCHANGED inst
      BY <1>6 DEF SyncDeploy, SyncCut, envVars
    <2>2. /\ \/ sync'[s] = NoSync
             \/ /\ sync[s].at = "deploy" /\ sync'[s].def = sync[s].def
                /\ sync'[s].ver = sync[s].ver /\ sync'[s].todo = sync[s].todo
          /\ \A t \in Syncs \ {s} : sync'[t] = sync[t]
      BY <1>3, <1>6 DEF SyncDeploy, SyncCut, SyncBecomes, TypeOK, SyncRecord
    <2>3. NoSync.at = "idle" /\ NoSync.ver = 0
      BY DEF NoSync
    <2>4. VersionsBounded'
      BY <1>1, <1>3, <2>1, <2>2, <2>3 DEF Visible, VersionsBounded
    <2>5. RowsVisible'
      BY <1>1, <2>1 DEF Visible, RowsVisible, Newer
    <2>6. SyncsVisible'
      BY <1>1, <2>2, <2>3 DEF Visible, SyncsVisible, Newer
    <2> QED
      BY <1>2, <2>4, <2>5, <2>6 DEF Visible
  <1>7. CASE SyncCommit(s)
    <2>1. /\ sync[s].at = "commit" /\ sync'[s] = NoSync
          /\ \A t \in Syncs \ {s} : sync'[t] = sync[t]
      BY <1>7 DEF SyncCommit, SyncBecomes, TypeOK
    <2>2. \A w \in Workloads :
             \/ /\ w \in sync[s].todo
                /\ inst'[w].def = sync[s].def[w] /\ inst'[w].ver = sync[s].ver
             \/ /\ inst'[w].live => inst[w].live
                /\ inst'[w].def = inst[w].def /\ inst'[w].ver = inst[w].ver
      BY <1>7 DEF SyncCommit, TypeOK, InstRecord
    <2>3. NoSync.at = "idle" /\ NoSync.ver = 0
      BY DEF NoSync
    <2>4. VersionsBounded'
      BY <1>1, <1>3, <2>1, <2>2, <2>3 DEF Visible, VersionsBounded
    <2>5. RowsVisible'
      BY <1>1, <2>1, <2>2 DEF Visible, RowsVisible, SyncsVisible, Newer
    <2>6. SyncsVisible'
      BY <1>1, <2>1, <2>3 DEF Visible, SyncsVisible, Newer
    <2> QED
      BY <1>2, <2>4, <2>5, <2>6 DEF Visible
  <1> QED
    BY <1>4, <1>5, <1>6, <1>7, <1>8 DEF SyncStep

----------------------------------------------------------------------------
(* TypeOK.                                                                 *)

\* The part of TypeOK about update slots.
UpdatesTyped ==
    /\ upd \in [Handlers -> UpdateRecord]
    /\ \A h \in Handlers : upd[h].at # "idle" => upd[h].w \in Workloads
    /\ disturbed \in SUBSET Workloads

\* Starting an update keeps the types of the update slots.
LEMMA StartType ==
    ASSUME TypeOK, NEW h \in Handlers, NEW u \in UpdateRecord, u.w \in Workloads,
           Start(h, u)
    PROVE  UpdatesTyped'
  BY DEF TypeOK, UpdatesTyped, Start, Disturb

\* Replacing the record of an update keeps the types of the update slots.
LEMMA BecomesType ==
    ASSUME TypeOK, NEW h \in Handlers, NEW u \in UpdateRecord,
           u.at # "idle" => u.w \in Workloads, Becomes(h, u)
    PROVE  UpdatesTyped' /\ UNCHANGED unfollowed
  BY DEF TypeOK, UpdatesTyped, Becomes, pastVars

\* Ending an update keeps the types of the update slots.
LEMMA DoneType ==
    ASSUME TypeOK, NEW h \in Handlers, Done(h)
    PROVE  UpdatesTyped' /\ UNCHANGED unfollowed
  <1>1. NoUpdate \in UpdateRecord /\ NoUpdate.at = "idle"
    BY DEF NoUpdate, UpdateRecord, UpdateSteps, Definition, Blank
  <1> QED
    BY <1>1, BecomesType DEF Done

\* Moving an update on keeps the types of the update slots.
LEMMA StepType ==
    ASSUME TypeOK, NEW h \in Handlers, upd[h].at # "idle", NEW a \in UpdateSteps,
           Step(h, a)
    PROVE  UpdatesTyped' /\ UNCHANGED unfollowed
  <1>1. upd[h] \in UpdateRecord /\ upd[h].w \in Workloads
    BY DEF TypeOK
  <1>2. /\ [upd[h] EXCEPT !.at = a] \in UpdateRecord
        /\ [upd[h] EXCEPT !.at = a].w \in Workloads
    BY <1>1 DEF UpdateRecord
  <1> QED
    BY <1>2, BecomesType DEF Step

\* The steps that start an update keep TypeOK.
LEMMA TypeRequest ==
    ASSUME TypeOK, NEW h \in Handlers, NEW w \in Workloads, UpdateRequest(h, w)
    PROVE  TypeOK'
  <1>1. /\ def[w] \in Definition /\ source[w].spec \in Nat /\ source[w].original \in Nat
        /\ source[w].ports \in Nat
        /\ Blank \in Definition
    BY DEF TypeOK, Definition, Blank
  <1>2. \A op \in {"event", "service", "dependency", "edit", "add", "remove"},
           at \in UpdateSteps, r, d \in Definition :
           LET u == [op |-> op, at |-> at, w |-> w, read |-> r, new |-> d, ver |-> 0]
           IN  u \in UpdateRecord /\ u.w = w
    BY DEF UpdateRecord
  <1>3. CASE WorkloadEvent(h, w)
    <2>1. [def[w] EXCEPT !.spec = source[w].spec, !.original = source[w].original]
             \in Definition
      BY <1>1 DEF Definition
    <2>2. UpdatesTyped'
      BY <1>1, <1>2, <1>3, <2>1, StartType DEF WorkloadEvent, UpdateSteps
    <2> QED
      BY <1>3, <2>2 DEF TypeOK, UpdatesTyped, WorkloadEvent, catalogVars, envVars, syncVars
  <1>4. CASE ServiceEvent(h, w)
    <2>1. UpdatesTyped'
      BY <1>1, <1>2, <1>4, StartType DEF ServiceEvent, UpdateSteps
    <2>2. cache' \in [Workloads -> Nat]
      BY <1>1, <1>4 DEF ServiceEvent, TypeOK
    <2> QED
      BY <1>4, <2>1, <2>2 DEF TypeOK, UpdatesTyped, ServiceEvent, envVars, syncVars
  <1>5. CASE DependencyEvent(h, w)
    <2>1. UpdatesTyped'
      BY <1>1, <1>2, <1>5, StartType DEF DependencyEvent, UpdateSteps
    <2> QED
      BY <1>5, <2>1 DEF TypeOK, UpdatesTyped, DependencyEvent, catalogVars, envVars,
         syncVars
  <1>6. CASE EditRequest(h, w)
    <2>1. PICK view \in shown[w] :
             \E sent \in {[view EXCEPT !.edit = edits + 1],
                          [view EXCEPT !.original = MaxChanges + edits + 1]} :
                 Start(h, [op |-> "edit", at |-> "edit", w |-> w, read |-> Blank,
                           new |-> [Blank EXCEPT !.original = sent.original,
                                                 !.edit = sent.edit], ver |-> 0])
      BY <1>6 DEF EditRequest
    <2>2. /\ [view EXCEPT !.edit = edits + 1] \in Containers
          /\ [view EXCEPT !.original = MaxChanges + edits + 1] \in Containers
      <3>1. view \in Containers /\ edits + 1 \in Nat /\ MaxChanges + edits + 1 \in Nat
        BY MaxAssumption DEF TypeOK
      <3> QED
        BY <3>1 DEF Containers
    <2>3. PICK sent \in Containers :
             Start(h, [op |-> "edit", at |-> "edit", w |-> w, read |-> Blank,
                       new |-> [Blank EXCEPT !.original = sent.original,
                                             !.edit = sent.edit], ver |-> 0])
      BY <2>1, <2>2
    <2>4. [Blank EXCEPT !.original = sent.original, !.edit = sent.edit] \in Definition
      BY <1>1 DEF Definition, Containers
    <2>5. UpdatesTyped'
      BY <1>1, <1>2, <2>3, <2>4, StartType DEF UpdateSteps
    <2>6. edits' \in Nat
      BY <1>6 DEF EditRequest, TypeOK
    <2> QED
      BY <1>6, <2>5, <2>6 DEF TypeOK, UpdatesTyped, EditRequest, catalogVars, envVars,
         syncVars
  <1>7. CASE AddRequest(h, w)
    <2>1. [spec |-> source[w].spec, original |-> source[w].original, edit |-> 0,
           ports |-> source[w].ports] \in Definition
      BY <1>1 DEF Definition
    <2>2. UpdatesTyped'
      BY <1>1, <1>2, <1>7, <2>1, StartType DEF AddRequest, UpdateSteps
    <2> QED
      BY <1>7, <2>2 DEF TypeOK, UpdatesTyped, AddRequest, clusterVars, catalogVars,
         envVars, syncVars
  <1>8. CASE RemoveRequest(h, w)
    <2>1. UpdatesTyped'
      BY <1>1, <1>2, <1>8, StartType DEF RemoveRequest, UpdateSteps
    <2> QED
      BY <1>8, <2>1 DEF TypeOK, UpdatesTyped, RemoveRequest, clusterVars, catalogVars,
         envVars, syncVars
  <1> QED
    BY <1>3, <1>4, <1>5, <1>6, <1>7, <1>8 DEF UpdateRequest

\* The statements of an update keep TypeOK.
LEMMA TypeUpdateStep ==
    ASSUME TypeOK, NEW h \in Handlers, UpdateStep(h) \/ UpdateCut(h)
    PROVE  TypeOK'
  <1> USE DEF clusterVars, envVars, syncVars
  <1>1. /\ upd[h] \in UpdateRecord
        /\ upd[h].read \in Definition /\ upd[h].new \in Definition /\ upd[h].ver \in Nat
        /\ upd[h].at # "idle" => upd[h].w \in Workloads
        /\ "bump" \in UpdateSteps
    <2>1. upd[h] \in UpdateRecord
      BY DEF TypeOK
    <2> QED
      BY <2>1 DEF TypeOK, UpdateSteps, UpdateRecord
  <1>2. CASE ServiceMatch(h)
    <2>1. upd[h].w \in Workloads
      BY <1>1, <1>2 DEF ServiceMatch
    <2>2. [upd[h].read EXCEPT !.ports = def[upd[h].w].ports] \in Definition
      BY <1>1, <2>1, DefinitionRecords DEF TypeOK, Definition
    <2> DEFINE u == [upd[h] EXCEPT !.at = "compute",
                                   !.read = [@ EXCEPT !.ports = def[upd[h].w].ports]]
    <2>3. u \in UpdateRecord /\ u.w \in Workloads
      BY <1>1, <2>1, <2>2 DEF UpdateRecord, UpdateSteps
    <2>4. Becomes(h, u) \/ Done(h)
      BY <1>2 DEF ServiceMatch
    <2>5. UpdatesTyped' /\ UNCHANGED unfollowed
      BY <2>3, <2>4, BecomesType, DoneType
    <2> QED
      BY <1>2, <2>5 DEF TypeOK, UpdatesTyped, ServiceMatch, catalogVars
  <1>3. CASE ComputeUpdate(h)
    <2>1. upd[h].w \in Workloads
      BY <1>1, <1>3 DEF ComputeUpdate
    <2> DEFINE new == [upd[h].new EXCEPT !.ports = cache[upd[h].w]]
               u == [upd[h] EXCEPT !.at = "write", !.new = new]
    <2>2. new \in Definition
      BY <1>1, <2>1, DefinitionRecords DEF TypeOK
    <2>3. u \in UpdateRecord /\ u.w \in Workloads
      BY <1>1, <2>1, <2>2 DEF UpdateRecord, UpdateSteps
    <2>4. Becomes(h, u) \/ Done(h)
      BY <1>3 DEF ComputeUpdate
    <2>5. UpdatesTyped' /\ UNCHANGED unfollowed
      BY <2>3, <2>4, BecomesType, DoneType
    <2> QED
      BY <1>3, <2>5 DEF TypeOK, UpdatesTyped, ComputeUpdate, catalogVars
  <1>4. CASE WriteDefinition(h)
    <2>1. upd[h].w \in Workloads /\ UpdatesTyped'
      BY <1>1, <1>4, StepType DEF WriteDefinition
    <2>2. Merged(def[upd[h].w], upd[h].read, upd[h].new) \in Definition
      BY <1>1, <2>1, MergedType DEF TypeOK
    <2>3. def' \in [Workloads -> Definition] /\ shown' \in [Workloads -> SUBSET Containers]
      BY <1>4, <2>1, <2>2, SetDefinitionType DEF WriteDefinition
    <2>4. UNCHANGED unfollowed
      BY <1>4 DEF WriteDefinition, Step, Becomes, pastVars
    <2> QED
      BY <1>4, <2>1, <2>3, <2>4 DEF TypeOK, UpdatesTyped, WriteDefinition
  <1>5. CASE WriteEdit(h)
    <2> DEFINE u == [upd[h] EXCEPT !.at = "bump"]
               new == [def[upd[h].w] EXCEPT !.original = upd[h].new.original,
                                            !.edit = upd[h].new.edit]
    <2>1. upd[h].w \in Workloads /\ upd' = [upd EXCEPT ![h] = u]
      BY <1>1, <1>5 DEF WriteEdit
    <2>2. u \in UpdateRecord /\ u.w \in Workloads
      BY <1>1, <2>1 DEF UpdateRecord
    <2>3. UpdatesTyped'
      BY <1>5, <2>1, <2>2 DEF WriteEdit, UpdatesTyped, TypeOK
    <2>4. new \in Definition
      <3>1. def[upd[h].w] \in Definition
        BY <2>1 DEF TypeOK
      <3> QED
        BY <1>1, <3>1 DEF Definition
    <2>5. def' \in [Workloads -> Definition] /\ shown' \in [Workloads -> SUBSET Containers]
      BY <1>5, <2>1, <2>4, SetDefinitionType DEF WriteEdit
    <2>6. unfollowed' \in SUBSET Workloads
      BY <1>5, <2>1 DEF WriteEdit, TypeOK
    <2> QED
      BY <1>5, <2>3, <2>5, <2>6 DEF TypeOK, UpdatesTyped, WriteEdit
  <1>6. CASE AddInsert(h)
    <2>1. upd[h].w \in Workloads /\ UpdatesTyped'
      BY <1>1, <1>6, StepType, DoneType DEF AddInsert
    <2>2. row' \in [Workloads -> {"absent", "live", "deleted"}]
      BY <1>6 DEF AddInsert, TypeOK
    <2>3. def' \in [Workloads -> Definition] /\ shown' \in [Workloads -> SUBSET Containers]
      <3>1. CASE row[upd[h].w] = "absent"
        BY <1>1, <1>6, <2>1, <3>1, SetDefinitionType DEF AddInsert
      <3>2. CASE row[upd[h].w] # "absent"
        BY <1>6, <3>2 DEF AddInsert, TypeOK
      <3> QED
        BY <3>1, <3>2
    <2>4. UNCHANGED unfollowed
      BY <1>6 DEF AddInsert, Step, Done, Becomes, pastVars
    <2> QED
      BY <1>6, <2>1, <2>2, <2>3, <2>4 DEF TypeOK, UpdatesTyped, AddInsert
  <1>7. CASE RemoveRow(h)
    <2>1. UpdatesTyped' /\ UNCHANGED unfollowed
      BY <1>1, <1>7, StepType DEF RemoveRow
    <2>2. row' \in [Workloads -> {"absent", "live", "deleted"}]
      BY <1>7 DEF RemoveRow, TypeOK
    <2> QED
      BY <1>7, <2>1, <2>2 DEF TypeOK, UpdatesTyped, RemoveRow
  <1>8. CASE BumpVersion(h)
    <2>1. upd[h].w \in Workloads /\ catalog + 1 \in Nat
      BY <1>1, <1>8 DEF BumpVersion, TypeOK
    <2> DEFINE u == [upd[h] EXCEPT !.at = "version", !.ver = catalog + 1]
    <2>2. u \in UpdateRecord /\ u.w \in Workloads
      BY <1>1, <2>1 DEF UpdateRecord, UpdateSteps
    <2>3. Becomes(h, u) \/ Done(h)
      BY <1>8 DEF BumpVersion
    <2>4. UpdatesTyped' /\ UNCHANGED unfollowed
      BY <2>2, <2>3, BecomesType, DoneType
    <2> QED
      BY <1>8, <2>1, <2>4 DEF TypeOK, UpdatesTyped, BumpVersion
  <1>9. CASE StoreVersion(h)
    <2>1. UpdatesTyped' /\ UNCHANGED unfollowed
      BY <1>9, DoneType DEF StoreVersion
    <2>2. version' \in [Workloads -> Nat]
      BY <1>1, <1>9 DEF StoreVersion, TypeOK
    <2> QED
      BY <1>9, <2>1, <2>2 DEF TypeOK, UpdatesTyped, StoreVersion
  <1>10. CASE UpdateCut(h)
    <2>1. NoUpdate \in UpdateRecord /\ NoUpdate.at = "idle"
      BY DEF NoUpdate, UpdateRecord, UpdateSteps, Definition, Blank
    <2>2. UpdatesTyped'
      BY <1>1, <1>10, <2>1 DEF UpdateCut, TypeOK, UpdatesTyped
    <2> QED
      BY <1>10, <2>2 DEF TypeOK, UpdatesTyped, UpdateCut, catalogVars
  <1> QED
    BY <1>2, <1>3, <1>4, <1>5, <1>6, <1>7, <1>8, <1>9, <1>10 DEF UpdateStep

\* The steps of a sync keep TypeOK.
LEMMA TypeSync ==
    ASSUME TypeOK, NEW s \in Syncs, SyncRequest(s) \/ SyncStep(s) \/ SyncCut(s)
    PROVE  TypeOK'
  <1> USE DEF clusterVars, catalogVars, pastVars, SyncBecomes
  <1>1. /\ sync[s] \in SyncRecord /\ sync[s].ver \in Nat
        /\ sync[s].def \in [Workloads -> Definition]
        /\ sync[s].todo \in SUBSET Workloads
        /\ NoSync \in SyncRecord
    BY ZenonT(40), SyncRecords DEF TypeOK, SyncRecord
  <1>2. \A ws : Applied(s, ws) \in [Workloads -> Definition]
    BY <1>1 DEF Applied, TypeOK
  <1>3. CASE SyncRequest(s)
    <2>1. [NoSync EXCEPT !.at = "existing", !.ver = catalog] \in SyncRecord
      BY <1>1, SyncRecords DEF TypeOK
    <2>2. sync' \in [Syncs -> SyncRecord]
      BY <1>3, <2>1 DEF SyncRequest, TypeOK
    <2>3. env' \in [ver: Nat, status: {"idle", "syncing"}]
      BY <1>3 DEF SyncRequest, TypeOK
    <2>4. overlapped' \in BOOLEAN
      BY <1>3 DEF SyncRequest
    <2> QED
      BY <1>3, <2>2, <2>3, <2>4 DEF SyncRequest, TypeOK
  <1>4. CASE SyncReadCatalog(s)
    <2> DEFINE names == {w \in Workloads : row[w] = "live"}
               todo == {w \in names : Outdated(s, w)}
               d == [w \in Workloads |-> IF w \in todo THEN def[w] ELSE Blank]
    <2>1. names \in SUBSET Workloads /\ todo \in SUBSET Workloads
      OBVIOUS
    <2>2. d \in [Workloads -> Definition]
      <3>1. Blank \in Definition
        BY DEF Blank, Definition
      <3> QED
        BY <3>1 DEF TypeOK
    <2>3. [NoSync EXCEPT !.at = "deploy", !.ver = sync[s].ver, !.names = names,
                         !.todo = todo, !.def = d] \in SyncRecord
      BY <1>1, <2>1, <2>2, SyncRecords
    <2>4. sync' \in [Syncs -> SyncRecord]
      BY <1>4, <2>3 DEF SyncReadCatalog, TypeOK
    <2> QED
      BY <1>4, <2>4 DEF SyncReadCatalog, TypeOK, envVars
  <1>8. CASE SyncReadExisting(s)
    <2>1. [sync[s] EXCEPT !.at = "catalog", !.seen = inst] \in SyncRecord
      BY <1>1, SyncRecords DEF TypeOK
    <2>2. sync' \in [Syncs -> SyncRecord]
      BY <1>8, <2>1 DEF SyncReadExisting, TypeOK
    <2> QED
      BY <1>8, <2>2 DEF SyncReadExisting, TypeOK, envVars
  <1>5. CASE SyncDeploy(s)
    <2>1. deployed' \in [Workloads -> Definition]
      BY <1>2, <1>5 DEF SyncDeploy
    <2>2. [sync[s] EXCEPT !.at = "commit"] \in SyncRecord
      BY <1>1, SyncRecords
    <2>3. sync' \in [Syncs -> SyncRecord]
      <3>1. \/ sync' = [sync EXCEPT ![s] = [sync[s] EXCEPT !.at = "commit"]]
            \/ sync' = [sync EXCEPT ![s] = NoSync]
        BY <1>5 DEF SyncDeploy
      <3> QED
        BY ZenonT(40), <1>1, <2>2, <3>1 DEF TypeOK
    <2>4. env' \in [ver: Nat, status: {"idle", "syncing"}]
      BY <1>5 DEF SyncDeploy, TypeOK
    <2> QED
      BY <1>5, <2>1, <2>3, <2>4 DEF SyncDeploy, TypeOK
  <1>6. CASE SyncCommit(s)
    <2>1. inst' \in [Workloads -> InstRecord]
      <3>1. \A w \in Workloads :
               /\ [live |-> TRUE, def |-> sync[s].def[w], ver |-> sync[s].ver] \in InstRecord
               /\ \A b \in BOOLEAN : [inst[w] EXCEPT !.live = b] \in InstRecord
        <4>1. SUFFICES ASSUME NEW w \in Workloads
                       PROVE  /\ [live |-> TRUE, def |-> sync[s].def[w],
                                   ver |-> sync[s].ver] \in InstRecord
                              /\ \A b \in BOOLEAN :
                                    [inst[w] EXCEPT !.live = b] \in InstRecord
          OBVIOUS
        <4>2. inst[w] \in InstRecord
          BY DEF TypeOK
        <4>3. \A b \in BOOLEAN : [inst[w] EXCEPT !.live = b] \in InstRecord
          BY <4>2 DEF InstRecord
        <4>4. [live |-> TRUE, def |-> sync[s].def[w], ver |-> sync[s].ver] \in InstRecord
          BY <1>1 DEF InstRecord
        <4> QED
          BY <4>3, <4>4
      <3> QED
        BY <1>6, <3>1 DEF SyncCommit
    <2>2. env' \in [ver: Nat, status: {"idle", "syncing"}]
      BY <1>1, <1>6 DEF SyncCommit
    <2>3. sync' \in [Syncs -> SyncRecord]
      BY <1>1, <1>6 DEF SyncCommit, TypeOK
    <2>4. services' \in SUBSET Workloads
      BY <1>6 DEF SyncCommit, TypeOK
    <2> QED
      BY <1>6, <2>1, <2>2, <2>3, <2>4 DEF SyncCommit, TypeOK
  <1>7. CASE SyncCut(s)
    <2>1. sync' \in [Syncs -> SyncRecord]
      BY <1>1, <1>7 DEF SyncCut, TypeOK
    <2> QED
      BY <1>7, <2>1 DEF SyncCut, TypeOK, envVars
  <1> QED
    BY <1>3, <1>4, <1>5, <1>6, <1>7, <1>8 DEF SyncStep

\* The steps of the cluster and of its watchers keep TypeOK.
LEMMA TypeCluster ==
    ASSUME TypeOK, NEW w \in Workloads,
           \/ \E what \in {"spec", "ports"} : SourceChange(w, what) \/ EventLost(w, what)
           \/ WorkloadEventSkipped(w)
    PROVE  TypeOK'
  <1> USE DEF catalogVars, envVars, syncVars, pastVars
  <1>1. ASSUME NEW what \in {"spec", "ports"}, SourceChange(w, what)
        PROVE  TypeOK'
    <2>1. source' \in [Workloads -> [spec: Nat, original: Nat, ports: Nat]]
      <3>1. source[w] \in [spec: Nat, original: Nat, ports: Nat]
        BY DEF TypeOK
      <3>2. CASE what = "spec"
        <4>1. PICK now \in {[source[w] EXCEPT !.spec = @ + 1, !.original = @ + 1],
                           [source[w] EXCEPT !.spec = @ + 1], source[w]} :
                 source' = [source EXCEPT ![w] = now]
          BY <1>1, <3>2 DEF SourceChange
        <4>2. source[w].spec + 1 \in Nat /\ source[w].original + 1 \in Nat
          <5>1. source[w].spec \in Nat /\ source[w].original \in Nat
            BY <3>1
          <5> QED
            BY <5>1
        <4>3. \A r \in [spec: Nat, original: Nat, ports: Nat], n \in Nat :
                 [r EXCEPT !.spec = n] \in [spec: Nat, original: Nat, ports: Nat]
          OBVIOUS
        <4>4. \A r \in [spec: Nat, original: Nat, ports: Nat], m, n \in Nat :
                 [r EXCEPT !.spec = m, !.original = n]
                    \in [spec: Nat, original: Nat, ports: Nat]
          OBVIOUS
        <4>5. now \in [spec: Nat, original: Nat, ports: Nat]
          BY <3>1, <4>1, <4>2, <4>3, <4>4, Zenon
        <4> QED
          BY <4>1, <4>5 DEF TypeOK
      <3>3. CASE what = "ports"
        BY <1>1, <3>3 DEF SourceChange, TypeOK
      <3> QED
        BY <1>1, <3>2, <3>3
    <2> QED
      BY <1>1, <2>1 DEF SourceChange, TypeOK
  <1>2. ASSUME NEW what \in {"spec", "ports"}, EventLost(w, what)
        PROVE  TypeOK'
    BY <1>2 DEF EventLost, TypeOK
  <1>3. CASE WorkloadEventSkipped(w)
    BY <1>3 DEF WorkloadEventSkipped, Disturb, TypeOK
  <1> QED
    BY <1>1, <1>2, <1>3

\* Every state has the declared types: rows are never lost, and an update in
\* flight is always about a workload.
THEOREM CatalogTypeCorrect == Spec => []TypeOK
  <1>1. Init => TypeOK
    <2>1. NoUpdate \in UpdateRecord /\ NoUpdate.at = "idle"
      BY DEF NoUpdate, UpdateRecord, UpdateSteps, Definition, Blank
    <2>2. NoSync \in SyncRecord
      BY DEF NoSync, NoRow, InstRecord, SyncRecord, Definition, Blank
    <2>3. Blank \in Definition
      BY DEF Definition, Blank
    <2> QED
      <3>1. SUFFICES ASSUME Init PROVE TypeOK
        OBVIOUS
      <3>4. shown \in [Workloads -> SUBSET Containers]
        BY <2>3, <3>1, DefinitionRecords DEF Init
      <3>2. /\ source \in [Workloads -> [spec: Nat, original: Nat, ports: Nat]]
            /\ env \in [ver: Nat, status: {"idle", "syncing"}]
            /\ inst \in [Workloads -> InstRecord]
        BY <2>3, <3>1 DEF Init, InstRecord
      <3>3. /\ upd \in [Handlers -> UpdateRecord]
            /\ \A h \in Handlers : upd[h].at # "idle" => upd[h].w \in Workloads
            /\ sync \in [Syncs -> SyncRecord]
        BY <2>1, <2>2, <3>1 DEF Init
      <3> QED
        BY <2>3, <3>1, <3>2, <3>3, <3>4, ListedAssumption DEF Init, TypeOK
  <1>2. TypeOK /\ [Next]_vars => TypeOK'
    <2>1. SUFFICES ASSUME TypeOK, [Next]_vars PROVE TypeOK'
      OBVIOUS
    <2>2. CASE UNCHANGED vars
      BY <2>1, <2>2 DEF vars, TypeOK
    <2>3. CASE Next
      BY <2>1, <2>3, TypeCluster, TypeRequest, TypeUpdateStep, TypeSync DEF Next
    <2> QED
      BY <2>1, <2>2, <2>3
  <1> QED
    BY <1>1, <1>2, PTL DEF Spec

----------------------------------------------------------------------------
(* Visible, by action.                                                     *)

\* The steps of the cluster and of its watchers keep Visible.
LEMMA VisibleCluster ==
    ASSUME TypeOK, Visible, NEW w \in Workloads,
           \/ \E what \in {"spec", "ports"} : SourceChange(w, what) \/ EventLost(w, what)
           \/ WorkloadEventSkipped(w)
    PROVE  Visible'
  <1>1. /\ UNCHANGED <<row, def, version, catalog, inst, upd, sync>>
        /\ disturbed \subseteq disturbed'
    BY DEF SourceChange, EventLost, WorkloadEventSkipped, Disturb, catalogVars, envVars,
       syncVars, pastVars
  <1> QED
    BY <1>1, VisibleFrame

\* An edit starts as an update of its workload.
LEMMA EditStarts ==
    ASSUME NEW h, NEW w, EditRequest(h, w)
    PROVE  \E d : Start(h, [op |-> "edit", at |-> "edit", w |-> w, read |-> Blank,
                           new |-> d, ver |-> 0])
  BY DEF EditRequest

\* The steps that start an update keep Visible.
LEMMA VisibleRequest ==
    ASSUME TypeOK, Visible, NEW h \in Handlers, NEW w \in Workloads, UpdateRequest(h, w)
    PROVE  Visible'
  <1>1. UNCHANGED <<row, def, version, catalog, inst, sync>>
    BY DEF UpdateRequest, WorkloadEvent, ServiceEvent, DependencyEvent, EditRequest,
       AddRequest, RemoveRequest, catalogVars, envVars, syncVars
  <1>2. \E u : /\ Start(h, u) /\ u.at \notin {"idle", "version"}
               /\ u.op = "remove" => u.at = "remove"
    <2>1. CASE EditRequest(h, w)
      <3>1. \E d : Start(h, [op |-> "edit", at |-> "edit", w |-> w, read |-> Blank,
                            new |-> d, ver |-> 0])
        BY <2>1, EditStarts
      <3> QED
        BY <3>1
    <2>2. CASE ~EditRequest(h, w)
      BY <2>2 DEF UpdateRequest, WorkloadEvent, ServiceEvent, DependencyEvent,
         AddRequest, RemoveRequest
    <2> QED
      BY <2>1, <2>2
  <1> QED
    BY <1>1, <1>2, VisibleStart

\* The statements of an update keep Visible.
LEMMA VisibleUpdateStep ==
    ASSUME TypeOK, Visible, NEW h \in Handlers, UpdateStep(h) \/ UpdateCut(h)
    PROVE  Visible'
  <1> USE DEF catalogVars, envVars, syncVars
  <1>1. upd[h] \in UpdateRecord /\ (upd[h].at # "idle" => upd[h].w \in Workloads)
    BY DEF TypeOK
  <1>2. NoUpdate.at = "idle" /\ NoUpdate.op # "remove"
    BY DEF NoUpdate
  <1>removing. upd[h].op = "remove" => upd[h].at \in {"remove", "bump"}
    BY DEF Visible, VersionsBounded
  <1>3. CASE ServiceMatch(h)
    <2>1. upd[h].at = "match" /\ UNCHANGED <<row, def, version, catalog, inst, sync>>
      BY <1>3 DEF ServiceMatch
    <2> DEFINE d == [upd[h].read EXCEPT !.ports = def[upd[h].w].ports]
               u == [upd[h] EXCEPT !.at = "compute", !.read = d]
    <2>3. u.at = "compute" /\ u.w = upd[h].w /\ u.op # "remove"
      BY <1>1, <1>removing, <2>1 DEF UpdateRecord
    <2>4. Becomes(h, u) \/ Becomes(h, NoUpdate)
      BY <1>3 DEF ServiceMatch, Done
    <2> QED
      BY <1>2, <2>1, <2>3, <2>4, VisibleQuietStep
  <1>4. CASE ComputeUpdate(h)
    <2>1. upd[h].at = "compute" /\ UNCHANGED <<row, def, version, catalog, inst, sync>>
      BY <1>4 DEF ComputeUpdate
    <2> DEFINE new == [upd[h].new EXCEPT !.ports = cache[upd[h].w]]
               u == [upd[h] EXCEPT !.at = "write", !.new = new]
    <2>3. u.at = "write" /\ u.w = upd[h].w /\ u.op # "remove"
      BY <1>1, <1>removing, <2>1 DEF UpdateRecord
    <2>4. Becomes(h, u) \/ Becomes(h, NoUpdate)
      BY <1>4 DEF ComputeUpdate, Done
    <2> QED
      BY <1>2, <2>1, <2>3, <2>4, VisibleQuietStep
  <1>5. CASE WriteDefinition(h) \/ WriteEdit(h)
    <2>1. /\ UNCHANGED <<row, version, catalog, inst, sync, disturbed>>
          /\ upd' = [upd EXCEPT ![h] = [upd[h] EXCEPT !.at = "bump"]]
          /\ upd[h].at \in {"write", "edit"}
      BY <1>5 DEF WriteDefinition, WriteEdit, Step, Becomes, pastVars
    <2>2. \A w \in Workloads : w # upd[h].w => row'[w] = row[w] /\ def'[w] = def[w]
      BY <1>5, <2>1 DEF WriteDefinition, WriteEdit, SetDefinition, TypeOK
    <2>3. \A w \in Workloads : row[w] = "deleted" => row'[w] = "deleted"
      BY <2>1
    <2> QED
      BY <2>1, <2>2, <2>3, VisibleWrite
  <1>6. CASE AddInsert(h)
    <2>1. upd[h].at = "insert" /\ UNCHANGED <<version, catalog, inst, sync>>
      BY <1>6 DEF AddInsert
    <2>2. CASE row[upd[h].w] = "absent"
      <3>1. /\ upd' = [upd EXCEPT ![h] = [upd[h] EXCEPT !.at = "bump"]]
            /\ UNCHANGED disturbed
            /\ \A w \in Workloads : w # upd[h].w => row'[w] = row[w] /\ def'[w] = def[w]
            /\ \A w \in Workloads : row[w] = "deleted" => row'[w] = "deleted"
        BY <1>6, <2>2 DEF AddInsert, SetDefinition, Step, Becomes, pastVars, TypeOK
      <3> QED
        BY <2>1, <3>1, VisibleWrite
    <2>3. CASE row[upd[h].w] # "absent"
      <3>1. Becomes(h, NoUpdate) /\ UNCHANGED <<row, def>>
        BY <1>6, <2>3 DEF AddInsert, Done
      <3> QED
        BY <1>2, <2>1, <3>1, VisibleQuietStep
    <2> QED
      BY <2>2, <2>3
  <1>7. CASE RemoveRow(h)
    <2>1. /\ UNCHANGED <<def, version, catalog, inst, sync, disturbed>>
          /\ upd' = [upd EXCEPT ![h] = [upd[h] EXCEPT !.at = "bump"]]
          /\ upd[h].at = "remove"
      BY <1>7 DEF RemoveRow, Step, Becomes, pastVars
    <2>2. /\ \A w \in Workloads : w # upd[h].w => row'[w] = row[w] /\ def'[w] = def[w]
          /\ \A w \in Workloads : row[w] = "deleted" => row'[w] = "deleted"
          /\ row'[upd[h].w] = "deleted"
      BY <1>1, <1>7, <2>1 DEF RemoveRow, TypeOK
    <2> QED
      BY <2>1, <2>2, VisibleWrite
  <1>8. CASE BumpVersion(h)
    BY <1>8, VisibleBump
  <1>9. CASE StoreVersion(h)
    BY <1>9, VisibleStore
  <1>10. CASE UpdateCut(h)
    BY <1>10, VisibleCut
  <1> QED
    BY <1>3, <1>4, <1>5, <1>6, <1>7, <1>8, <1>9, <1>10 DEF UpdateStep

\* The inductive invariant: what the environment has, and what a sync in flight
\* is about to store, is the catalog's definition or known to be older.
THEOREM VisibleInvariant == Spec => []Visible
  <1>1. Init => Visible
    BY DEF Init, Visible, OneUpdate, VersionsBounded, RowsVisible, SyncsVisible, NoUpdate,
       NoSync
  <1>2. TypeOK /\ Visible /\ [Next]_vars => Visible'
    <2>1. SUFFICES ASSUME TypeOK, Visible, [Next]_vars PROVE Visible'
      OBVIOUS
    <2>2. CASE UNCHANGED vars
      BY <2>1, <2>2, VisibleFrame DEF vars, pastVars
    <2>3. CASE Next
      BY <2>1, <2>3, VisibleCluster, VisibleRequest, VisibleUpdateStep, VisibleSync
         DEF Next
    <2> QED
      BY <2>1, <2>2, <2>3
  <1> QED
    BY <1>1, <1>2, CatalogTypeCorrect, PTL DEF Spec

\* However many updates and syncs interleave, the environment's row for an
\* undisturbed workload never differs from the catalog's without a version that
\* makes the next sync deploy it, or an update still in flight.
THEOREM StaleVisible == Spec => []StaleIsVisible
  <1>1. Visible => StaleIsVisible
    BY DEF Visible, RowsVisible, Newer, StaleIsVisible, Updating
  <1> QED
    BY <1>1, VisibleInvariant, PTL

=============================================================================
