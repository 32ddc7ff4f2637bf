------------------------ MODULE CatalogTrackingProofs ------------------------
(***************************************************************************)
(* More proofs about CatalogSync, for any sets of workloads, update slots  *)
(* and sync slots and any bounds: the catalog follows the cluster          *)
(* (CatalogTracksSource), a failed deployment is retried                   *)
(* (FailedDeployIsRetried), and sync_status has an owner                   *)
(* (SyncingHasOwner).                                                      *)
(*                                                                         *)
(* CatalogTracksSource is proved in two halves.  For the ports, Tracked    *)
(* says what an update that is alone on its workload has read and is about *)
(* to write.  For the yaml and the containers, Followed says it of the     *)
(* one event in flight (OneEvent) and of an addition, whatever other       *)
(* updates of the workload are in flight.  FailedDeployIsRetried needs     *)
(* what a sync in flight may have deployed already (Retried) and that      *)
(* there is only one such sync (OneSync).                                  *)
(***************************************************************************)
EXTENDS CatalogSyncProofs

----------------------------------------------------------------------------
(* What each statement of an update does, field by field.                  *)

\* Every statement is about one workload and one slot, and marks no workload but
\* its own.
LEMMA StepFrame ==
    ASSUME TypeOK, NEW h \in Handlers, UpdateStep(h)
    PROVE  /\ upd[h].at # "idle" /\ upd[h].w \in Workloads
           /\ UNCHANGED <<source, owed, cache, disturbed>>
           /\ unfollowed \subseteq unfollowed'
           /\ unfollowed' \subseteq unfollowed \cup {upd[h].w}
           /\ \A g \in Handlers \ {h} : upd'[g] = upd[g]
  <1>1. /\ upd[h].at # "idle" /\ UNCHANGED <<source, owed, cache, disturbed>>
        /\ unfollowed \subseteq unfollowed'
        /\ unfollowed' \subseteq unfollowed \cup {upd[h].w}
    BY DEF UpdateStep, ServiceMatch, ComputeUpdate, WriteDefinition, WriteEdit, AddInsert,
       RemoveRow, BumpVersion, StoreVersion, Done, Step, Becomes, pastVars, clusterVars,
       catalogVars
  <1>2. \E u : upd' = [upd EXCEPT ![h] = u]
    BY DEF UpdateStep, ServiceMatch, ComputeUpdate, WriteDefinition, WriteEdit, AddInsert,
       RemoveRow, BumpVersion, StoreVersion, Done, Step, Becomes
  <1> QED
    BY <1>1, <1>2 DEF TypeOK

\* Every request only takes a slot for one workload, and may replace the cached
\* service of that workload.
LEMMA RequestFrame ==
    ASSUME NEW h \in Handlers, NEW w \in Workloads, UpdateRequest(h, w)
    PROVE  /\ UNCHANGED <<row, def, version, source, envVars, syncVars>>
           /\ disturbed \subseteq disturbed'
           /\ \E u : Start(h, u) /\ u.w = w
  <1>1. UNCHANGED <<row, def, version, source, envVars, syncVars>>
    BY DEF UpdateRequest, WorkloadEvent, ServiceEvent, DependencyEvent, EditRequest,
       AddRequest, RemoveRequest, clusterVars, catalogVars
  <1>2. \E u : Start(h, u) /\ u.w = w
    <2>1. CASE EditRequest(h, w)
      <3>1. \E d : Start(h, [op |-> "edit", at |-> "edit", w |-> w, read |-> Blank,
                            new |-> d, ver |-> 0])
        BY <2>1, EditStarts
      <3> QED
        BY <3>1
    <2>2. CASE ~EditRequest(h, w)
      BY <2>2 DEF UpdateRequest, WorkloadEvent, ServiceEvent, DependencyEvent, AddRequest,
         RemoveRequest
    <2> QED
      BY <2>1, <2>2
  <1>3. disturbed \subseteq disturbed'
    BY <1>2 DEF Start, Disturb
  <1> QED
    BY <1>1, <1>2, <1>3

\* A sync leaves the cluster, the catalog and its updates alone.
LEMMA SyncFrame ==
    ASSUME NEW s \in Syncs, SyncRequest(s) \/ SyncStep(s) \/ SyncCut(s)
    PROVE  UNCHANGED <<source, owed, cache, row, def, upd, disturbed, unfollowed>>
  BY DEF SyncRequest, SyncStep, SyncReadExisting, SyncReadCatalog, SyncDeploy, SyncCommit,
     SyncCut, clusterVars, catalogVars, pastVars

\* A slot whose record only moves on to another statement.
LEMMA MovesOn ==
    ASSUME TypeOK, NEW h \in Handlers, NEW a,
           upd' = [upd EXCEPT ![h] = [upd[h] EXCEPT !.at = a]]
    PROVE  upd'[h].at = a /\ upd'[h].w = upd[h].w /\ upd'[h].op = upd[h].op
  <1>1. upd[h] \in UpdateRecord /\ upd'[h] = [upd[h] EXCEPT !.at = a]
    BY DEF TypeOK
  <1> QED
    BY <1>1 DEF UpdateRecord

\* A slot that is given back.
LEMMA GivenBack ==
    ASSUME TypeOK, NEW h \in Handlers, Done(h)
    PROVE  upd'[h].at = "idle" /\ upd'[h].op = "none"
  BY DEF Done, Becomes, NoUpdate, TypeOK

\* A service event ends where no live workload is selected, and otherwise has read
\* the ports of its row.
LEMMA MatchEffect ==
    ASSUME TypeOK, NEW h \in Handlers, ServiceMatch(h), NEW w \in Workloads, w = upd[h].w
    PROVE  /\ upd[h].at = "match" /\ UNCHANGED <<row, def, unfollowed>>
           /\ \/ row[w] # "live" /\ upd'[h].at = "idle" /\ upd'[h].op = "none"
              \/ /\ upd'[h].at = "compute" /\ upd'[h].w = w /\ upd'[h].op = upd[h].op
                 /\ upd'[h].new = upd[h].new /\ upd'[h].read.ports = def[w].ports
                 /\ upd'[h].read.spec = upd[h].read.spec
                 /\ upd'[h].read.original = upd[h].read.original
  <1>1. upd[h].at = "match" /\ UNCHANGED <<row, def, unfollowed>>
    BY DEF ServiceMatch, Done, Becomes, pastVars, catalogVars
  <1>2. CASE row[w] = "live"
    <2>1. upd'[h] = [upd[h] EXCEPT !.at = "compute",
                                   !.read = [@ EXCEPT !.ports = def[w].ports]]
      BY <1>2 DEF ServiceMatch, Becomes, TypeOK
    <2>2. upd[h] \in UpdateRecord /\ upd[h].read \in Definition
      BY DEF TypeOK, UpdateRecord
    <2> QED
      BY <1>1, <2>1, <2>2 DEF UpdateRecord, Definition
  <1>3. CASE row[w] # "live"
    BY <1>1, <1>3, GivenBack DEF ServiceMatch
  <1> QED
    BY <1>2, <1>3

\* An update ends if it is no change, and otherwise is about to write the cached
\* ports and what it found in the cluster.
LEMMA ComputeEffect ==
    ASSUME TypeOK, NEW h \in Handlers, ComputeUpdate(h), NEW w \in Workloads, w = upd[h].w
    PROVE  /\ upd[h].at = "compute" /\ UNCHANGED <<row, def, unfollowed>>
           /\ \/ /\ upd'[h].at = "idle" /\ upd'[h].op = "none"
                 /\ upd[h].read.ports = cache[w] /\ upd[h].read.spec = upd[h].new.spec
                 /\ upd[h].read.original = upd[h].new.original
              \/ /\ upd'[h].at = "write" /\ upd'[h].w = w /\ upd'[h].op = upd[h].op
                 /\ upd'[h].read = upd[h].read /\ upd'[h].new.ports = cache[w]
                 /\ upd'[h].new.spec = upd[h].new.spec
                 /\ upd'[h].new.original = upd[h].new.original
  <1> DEFINE new == [upd[h].new EXCEPT !.ports = cache[w]]
  <1>1. upd[h].at = "compute" /\ UNCHANGED <<row, def, unfollowed>>
    BY DEF ComputeUpdate, Done, Becomes, pastVars, catalogVars
  <1>2. upd[h] \in UpdateRecord /\ upd[h].new \in Definition
    BY DEF TypeOK, UpdateRecord
  <1>3. /\ new.ports = cache[w] /\ new.spec = upd[h].new.spec
        /\ new.original = upd[h].new.original
    BY <1>2 DEF Definition
  <1>4. CASE new = upd[h].read
    <2>1. upd'[h].at = "idle" /\ upd'[h].op = "none"
      BY <1>4, GivenBack DEF ComputeUpdate
    <2> QED
      BY <1>1, <1>3, <1>4, <2>1
  <1>5. CASE new # upd[h].read
    <2>1. upd'[h] = [upd[h] EXCEPT !.at = "write", !.new = new]
      BY <1>5 DEF ComputeUpdate, Becomes, TypeOK
    <2> HIDE DEF new
    <2> QED
      BY <1>1, <1>2, <1>3, <2>1 DEF UpdateRecord
  <1> QED
    BY <1>4, <1>5

\* A write replaces the parts of the definition that changed.
LEMMA WriteEffect ==
    ASSUME TypeOK, NEW h \in Handlers, WriteDefinition(h), NEW w \in Workloads, w = upd[h].w
    PROVE  /\ upd[h].at = "write" /\ UNCHANGED <<row, unfollowed>>
           /\ upd'[h].at = "bump" /\ upd'[h].w = w /\ upd'[h].op = upd[h].op
           /\ \A v \in Workloads \ {w} : def'[v] = def[v]
           /\ def'[w].spec = IF upd[h].new.spec # upd[h].read.spec THEN upd[h].new.spec
                                                                   ELSE def[w].spec
           /\ def'[w].original = IF upd[h].new.original # upd[h].read.original
                                 THEN upd[h].new.original ELSE def[w].original
           /\ def'[w].ports = IF upd[h].new.ports # upd[h].read.ports THEN upd[h].new.ports
                                                                      ELSE def[w].ports
  <1>1. /\ upd[h].at = "write" /\ UNCHANGED <<row, unfollowed>>
        /\ upd' = [upd EXCEPT ![h] = [upd[h] EXCEPT !.at = "bump"]]
    BY DEF WriteDefinition, Step, Becomes, pastVars
  <1>2. def' = [def EXCEPT ![w] = Merged(def[w], upd[h].read, upd[h].new)]
    BY DEF WriteDefinition, SetDefinition
  <1>3. /\ def'[w] = Merged(def[w], upd[h].read, upd[h].new)
        /\ \A v \in Workloads \ {w} : def'[v] = def[v]
    BY <1>2 DEF TypeOK
  <1>4. upd'[h].at = "bump" /\ upd'[h].w = w /\ upd'[h].op = upd[h].op
    BY <1>1, MovesOn
  <1> QED
    BY <1>1, <1>3, <1>4 DEF Merged

\* An edit writes no spec and no ports; where it changes the cluster's part of the
\* containers, it leaves its workload unfollowed.
LEMMA EditEffect ==
    ASSUME TypeOK, NEW h \in Handlers, WriteEdit(h), NEW w \in Workloads, w = upd[h].w
    PROVE  /\ upd[h].at = "edit" /\ UNCHANGED row
           /\ upd'[h].at = "bump" /\ upd'[h].w = w /\ upd'[h].op = upd[h].op
           /\ \A v \in Workloads \ {w} : def'[v] = def[v]
           /\ def'[w].spec = def[w].spec /\ def'[w].ports = def[w].ports
           /\ w \notin unfollowed' => def'[w].original = def[w].original
  <1>1. /\ upd[h].at = "edit" /\ UNCHANGED row
        /\ upd' = [upd EXCEPT ![h] = [upd[h] EXCEPT !.at = "bump"]]
    BY DEF WriteEdit
  <1> DEFINE d == [def[w] EXCEPT !.original = upd[h].new.original,
                                 !.edit = upd[h].new.edit]
  <1>2. def' = [def EXCEPT ![w] = d]
    BY DEF WriteEdit, SetDefinition
  <1>3. def'[w] = d /\ \A v \in Workloads \ {w} : def'[v] = def[v]
    <2> HIDE DEF d
    <2> QED
      BY <1>2 DEF TypeOK
  <1>4. upd'[h].at = "bump" /\ upd'[h].w = w /\ upd'[h].op = upd[h].op
    BY <1>1, MovesOn
  <1>5. w \notin unfollowed' => upd[h].new.original = def[w].original
    BY DEF WriteEdit
  <1>6. def[w] \in Definition
    BY DEF TypeOK
  <1> QED
    BY <1>1, <1>3, <1>4, <1>5, <1>6 DEF Definition

\* An addition stores the definition it read from the cluster, or finds a row.
LEMMA InsertEffect ==
    ASSUME TypeOK, NEW h \in Handlers, AddInsert(h), NEW w \in Workloads, w = upd[h].w
    PROVE  /\ upd[h].at = "insert" /\ UNCHANGED unfollowed
           /\ \/ /\ row[w] = "absent" /\ row'[w] = "live" /\ def'[w] = upd[h].new
                 /\ upd'[h].at = "bump" /\ upd'[h].w = w /\ upd'[h].op = upd[h].op
                 /\ \A v \in Workloads \ {w} : row'[v] = row[v] /\ def'[v] = def[v]
              \/ /\ upd'[h].at = "idle" /\ upd'[h].op = "none"
                 /\ UNCHANGED <<row, def>>
  <1>1. upd[h].at = "insert" /\ UNCHANGED unfollowed
    BY DEF AddInsert, Step, Done, Becomes, pastVars
  <1>2. CASE row[w] = "absent"
    <2>1. /\ row' = [row EXCEPT ![w] = "live"] /\ def' = [def EXCEPT ![w] = upd[h].new]
          /\ upd' = [upd EXCEPT ![h] = [upd[h] EXCEPT !.at = "bump"]]
      BY <1>2 DEF AddInsert, SetDefinition, Step, Becomes
    <2>2. upd'[h].at = "bump" /\ upd'[h].w = w /\ upd'[h].op = upd[h].op
      BY <2>1, MovesOn
    <2> QED
      BY <1>1, <1>2, <2>1, <2>2 DEF TypeOK
  <1>3. CASE row[w] # "absent"
    BY <1>1, <1>3, GivenBack DEF AddInsert
  <1> QED
    BY <1>2, <1>3

\* A removal deletes its row and no other.
LEMMA RemoveEffect ==
    ASSUME TypeOK, NEW h \in Handlers, RemoveRow(h), NEW w \in Workloads, w = upd[h].w
    PROVE  /\ upd[h].at = "remove" /\ UNCHANGED <<def, unfollowed>>
           /\ row'[w] = "deleted" /\ \A v \in Workloads \ {w} : row'[v] = row[v]
           /\ upd'[h].at = "bump" /\ upd'[h].w = w /\ upd'[h].op = upd[h].op
  <1>1. /\ upd[h].at = "remove" /\ UNCHANGED <<def, unfollowed>>
        /\ row' = [row EXCEPT ![w] = "deleted"]
        /\ upd' = [upd EXCEPT ![h] = [upd[h] EXCEPT !.at = "bump"]]
    BY DEF RemoveRow, Step, Becomes, pastVars
  <1> QED
    BY <1>1, MovesOn DEF TypeOK

\* The two statements after a write touch neither the row nor its definition.
LEMMA VersionEffect ==
    ASSUME TypeOK, NEW h \in Handlers, BumpVersion(h) \/ StoreVersion(h)
    PROVE  /\ upd[h].at \in {"bump", "version"} /\ UNCHANGED <<row, def, unfollowed>>
           /\ \/ upd'[h].at = "idle" /\ upd'[h].op = "none"
              \/ upd'[h].at = "version" /\ upd'[h].w = upd[h].w /\ upd'[h].op = upd[h].op
  <1>1. upd[h].at \in {"bump", "version"} /\ UNCHANGED <<row, def, unfollowed>>
    BY DEF BumpVersion, StoreVersion, Done, Becomes, pastVars
  <1>2. CASE Done(h)
    BY <1>1, <1>2, GivenBack
  <1>3. CASE ~Done(h)
    <2>1. upd' = [upd EXCEPT ![h] = [upd[h] EXCEPT !.at = "version", !.ver = catalog + 1]]
      BY <1>3 DEF BumpVersion, StoreVersion, Becomes
    <2>2. /\ upd'[h] = [upd[h] EXCEPT !.at = "version", !.ver = catalog + 1]
          /\ upd[h] \in UpdateRecord
      BY <2>1 DEF TypeOK
    <2> QED
      BY <1>1, <2>2 DEF UpdateRecord
  <1> QED
    BY <1>2, <1>3

----------------------------------------------------------------------------
(* The ports.                                                              *)

\* The cached service is the cluster's, or its event is owed.
CacheTracks(w) == <<w, "ports">> \notin owed => cache[w] = source[w].ports

\* The ports in the catalog are the cluster's, or an event is owed or handled.
PortsTrack(w) ==
    row[w] = "live" /\ <<w, "ports">> \notin owed /\ def[w].ports # source[w].ports
        => \E h \in Handlers :
              upd[h].w = w /\ upd[h].at \in {"match", "compute", "write"}

\* The ports the update in slot h has read are still what the catalog has, and
\* those it is about to write are the cached or, in an addition, the cluster's.
PortsRead(h) ==
    LET u == upd[h]
        w == u.w
    IN  /\ u.at \in {"compute", "write"} => u.read.ports = def[w].ports
        /\ u.at = "write" => u.new.ports = cache[w]
        /\ u.at = "insert" => <<w, "ports">> \in owed \/ u.new.ports = source[w].ports

Tracks(w) ==
    /\ CacheTracks(w)
    /\ PortsTrack(w)
    /\ \A h \in Handlers : upd[h].w = w => PortsRead(h)

\* The inductive form of the second half of CatalogTracksSource.
Tracked == \A w \in Workloads \ disturbed : Tracks(w)

\* A step that is about workload w, in slot h, leaves the other workloads alone:
\* if it keeps Tracks(w), it keeps Tracked.
LEMMA TrackedAbout ==
    ASSUME Tracked, NEW h \in Handlers, NEW w \in Workloads,
           disturbed \subseteq disturbed',
           \A g \in Handlers \ {h} : upd'[g] = upd[g],
           upd[h].at = "idle" \/ upd[h].w = w,
           upd'[h].at = "idle" \/ upd'[h].w = w,
           \A v \in Workloads \ {w} :
              /\ row'[v] = row[v] /\ def'[v] = def[v]
              /\ cache'[v] = cache[v] /\ source'[v] = source[v]
              /\ <<v, "ports">> \in owed' <=> <<v, "ports">> \in owed,
           w \notin disturbed' => Tracks(w)'
    PROVE  Tracked'
  <1>1. SUFFICES ASSUME NEW v \in Workloads \ {w}, v \notin disturbed'
                 PROVE  Tracks(v)'
    BY DEF Tracked
  <1>2. Tracks(v)
    BY <1>1 DEF Tracked
  <1>3. CacheTracks(v)'
    BY <1>1, <1>2 DEF Tracks, CacheTracks
  <1>4. PortsTrack(v)'
    BY <1>1, <1>2 DEF Tracks, PortsTrack
  <1>5. ASSUME NEW g \in Handlers, upd'[g].w = v
        PROVE  PortsRead(g)'
    <2>1. CASE upd'[g].at = "idle"
      BY <2>1 DEF PortsRead
    <2>2. CASE upd'[g].at # "idle"
      <3>1. upd'[g] = upd[g] /\ PortsRead(g)
        BY <1>1, <1>2, <1>5, <2>2 DEF Tracks
      <3> QED
        BY <1>1, <1>5, <3>1 DEF PortsRead
    <2> QED
      BY <2>1, <2>2
  <1> QED
    BY <1>3, <1>4, <1>5 DEF Tracks

\* The only update in flight on an undisturbed workload is the one that steps.
LEMMA Alone ==
    ASSUME TypeOK, OneUpdate, NEW h \in Handlers, upd[h].at # "idle",
           upd[h].w \notin disturbed
    PROVE  \A g \in Handlers \ {h} : upd[g].w = upd[h].w => upd[g].at = "idle"
  BY DEF OneUpdate

\* The same for an update that starts.
LEMMA AloneAtStart ==
    ASSUME TypeOK, NEW h \in Handlers, NEW u, Start(h, u), u.w \notin disturbed'
    PROVE  \A g \in Handlers : upd[g].w = u.w => upd[g].at = "idle"
  BY DEF Start, Disturb, Updating

\* The steps of the cluster and of its watchers keep Tracked: a change is owed an
\* event, and a lost event disturbs its workload.
LEMMA TrackedCluster ==
    ASSUME TypeOK, Tracked, NEW w \in Workloads,
           \/ \E what \in {"spec", "ports"} : SourceChange(w, what) \/ EventLost(w, what)
           \/ WorkloadEventSkipped(w)
    PROVE  Tracked'
  <1>1. UNCHANGED <<row, def, cache, upd>> /\ disturbed \subseteq disturbed'
    BY DEF SourceChange, EventLost, WorkloadEventSkipped, Disturb, catalogVars, pastVars
  <1>2. \A v \in Workloads \ disturbed' :
           \/ /\ source'[v].ports = source[v].ports
              /\ <<v, "ports">> \in owed' <=> <<v, "ports">> \in owed
           \/ <<v, "ports">> \in owed'
    <2>1. ASSUME NEW what \in {"spec", "ports"}, SourceChange(w, what)
          PROVE  \A v \in Workloads :
                    \/ /\ source'[v].ports = source[v].ports
                       /\ <<v, "ports">> \in owed' <=> <<v, "ports">> \in owed
                    \/ <<v, "ports">> \in owed'
      <3>1. owed' = owed \cup {<<w, what>>}
        BY <2>1 DEF SourceChange
      <3>2. CASE what = "ports"
        <4>1. \A v \in Workloads \ {w} : source'[v] = source[v]
          BY <2>1, <3>2 DEF SourceChange, TypeOK
        <4> QED
          BY <3>1, <3>2, <4>1
      <3>3. CASE what = "spec"
        <4>1. PICK now \in {[source[w] EXCEPT !.spec = @ + 1, !.original = @ + 1],
                           [source[w] EXCEPT !.spec = @ + 1], source[w]} :
                 source' = [source EXCEPT ![w] = now]
          BY <2>1, <3>3 DEF SourceChange
        <4>2. now.ports = source[w].ports
          BY ZenonT(40), <4>1 DEF TypeOK
        <4>3. \A v \in Workloads : source'[v].ports = source[v].ports
          BY <4>1, <4>2 DEF TypeOK
        <4> QED
          BY <3>1, <3>3, <4>3
      <3> QED
        BY <2>1, <3>2, <3>3
    <2>2. ASSUME NEW what \in {"spec", "ports"}, EventLost(w, what)
          PROVE  /\ UNCHANGED source /\ w \in disturbed'
                 /\ \A v \in Workloads \ {w} : <<v, "ports">> \in owed' <=> <<v, "ports">> \in owed
      BY <2>2 DEF EventLost
    <2>3. CASE WorkloadEventSkipped(w)
      BY <2>3 DEF WorkloadEventSkipped
    <2> QED
      BY <2>1, <2>2, <2>3
  <1>3. SUFFICES ASSUME NEW v \in Workloads \ disturbed' PROVE Tracks(v)'
    BY DEF Tracked
  <1>4. Tracks(v)
    BY <1>1, <1>3 DEF Tracked
  <1>5. CacheTracks(v)' /\ PortsTrack(v)'
    BY <1>1, <1>2, <1>3, <1>4 DEF Tracks, CacheTracks, PortsTrack
  <1>6. \A g \in Handlers : upd'[g].w = v => PortsRead(g)'
    BY <1>1, <1>2, <1>3, <1>4 DEF Tracks, PortsRead
  <1> QED
    BY <1>5, <1>6 DEF Tracks

\* The steps that start an update keep Tracked: it has just read the catalog and
\* the cluster, and takes over from the event it handles.
LEMMA TrackedRequest ==
    ASSUME TypeOK, Tracked, NEW h \in Handlers, NEW w \in Workloads, UpdateRequest(h, w)
    PROVE  Tracked'
  <1>1. UNCHANGED <<row, def, source>> /\ disturbed \subseteq disturbed'
    BY RequestFrame
  <1>2. PICK u : Start(h, u) /\ u.w = w
    BY RequestFrame
  <1>3. /\ upd[h].at = "idle" /\ upd'[h] = u
        /\ \A g \in Handlers \ {h} : upd'[g] = upd[g]
    BY <1>2 DEF Start, TypeOK
  <1>4. \/ UNCHANGED cache /\ \A v \in Workloads : <<v, "ports">> \in owed' <=> <<v, "ports">> \in owed
        \/ /\ ServiceEvent(h, w) /\ cache'[w] = source[w].ports
           /\ \A v \in Workloads \ {w} :
                 /\ cache'[v] = cache[v]
                 /\ <<v, "ports">> \in owed' <=> <<v, "ports">> \in owed
    <2>1. CASE ServiceEvent(h, w)
      BY <2>1 DEF ServiceEvent, TypeOK
    <2>2. CASE ~ServiceEvent(h, w)
      BY <2>2 DEF UpdateRequest, WorkloadEvent, DependencyEvent, EditRequest, AddRequest,
         RemoveRequest, clusterVars, catalogVars
    <2> QED
      BY <2>1, <2>2
  <1>5. ASSUME w \notin disturbed' PROVE Tracks(w)'
    <2>1. Tracks(w)
      BY <1>1, <1>5 DEF Tracked
    <2>2. \A g \in Handlers : upd[g].w = w => upd[g].at = "idle"
      BY <1>2, <1>5, AloneAtStart
    <2>3. row[w] = "live" /\ <<w, "ports">> \notin owed => def[w].ports = source[w].ports
      BY <2>1, <2>2 DEF Tracks, PortsTrack
    <2>4. \A g \in Handlers \ {h} : upd'[g].w = w => PortsRead(g)'
      BY <1>3, <2>2 DEF PortsRead
    <2>5. CASE ServiceEvent(h, w)
      <3>1. upd'[h].at = "match" /\ upd'[h].w = w /\ cache'[w] = source[w].ports
        BY <2>5 DEF ServiceEvent, Start, TypeOK
      <3>2. CacheTracks(w)' /\ PortsTrack(w)' /\ PortsRead(h)'
        BY <1>1, <3>1 DEF CacheTracks, PortsTrack, PortsRead
      <3> QED
        BY <2>4, <3>2 DEF Tracks
    <2>6. CASE ~ServiceEvent(h, w)
      <3>1. /\ UNCHANGED cache
            /\ <<w, "ports">> \in owed' <=> <<w, "ports">> \in owed
        BY <1>4, <2>6
      <3>2. CacheTracks(w)' /\ PortsTrack(w)'
        BY <1>1, <2>1, <2>3, <3>1 DEF Tracks, CacheTracks, PortsTrack
      <3>3. PortsRead(h)'
        <4>1. CASE WorkloadEvent(h, w)
          <5>1. /\ upd'[h].at = "compute" /\ upd'[h].w = w
                /\ upd'[h].read = def[w]
            BY <4>1 DEF WorkloadEvent, Start, TypeOK
          <5> QED
            BY <1>1, <5>1 DEF PortsRead
        <4>2. CASE EditRequest(h, w)
          <5>1. PICK d : Start(h, [op |-> "edit", at |-> "edit", w |-> w, read |-> Blank,
                                   new |-> d, ver |-> 0])
            BY <4>2, EditStarts
          <5>2. upd'[h].at = "edit"
            BY <5>1 DEF Start, TypeOK
          <5> QED
            BY <5>2 DEF PortsRead
        <4>3. CASE AddRequest(h, w)
          <5>1. /\ upd'[h].at = "insert" /\ upd'[h].w = w
                /\ upd'[h].new.ports = source[w].ports
            BY <4>3 DEF AddRequest, Start, TypeOK
          <5> QED
            BY <1>1, <5>1 DEF PortsRead
        <4>4. CASE DependencyEvent(h, w) \/ RemoveRequest(h, w)
          <5>1. upd'[h].at \in {"bump", "remove"}
            BY <4>4 DEF DependencyEvent, RemoveRequest, Start, TypeOK
          <5> QED
            BY <5>1 DEF PortsRead
        <4> QED
          BY <2>6, <4>1, <4>2, <4>3, <4>4 DEF UpdateRequest
      <3> QED
        BY <2>4, <3>2, <3>3 DEF Tracks
    <2> QED
      BY <2>5, <2>6
  <1> QED
    BY <1>1, <1>2, <1>3, <1>4, <1>5, TrackedAbout

\* A statement of an update that is alone on its workload keeps Tracked if it
\* leaves the ports as they were, or as the cluster has them, and ends the
\* reading or goes on with it.
LEMMA TrackedStep ==
    ASSUME TypeOK, OneUpdate, Tracked, NEW h \in Handlers, UpdateStep(h),
           NEW w \in Workloads, w = upd[h].w,
           upd'[h].at = "idle" \/ upd'[h].w = w,
           \A v \in Workloads \ {w} : row'[v] = row[v] /\ def'[v] = def[v],
           CacheTracks(w) /\ PortsRead(h)
           /\ (upd[h].at \notin {"match", "compute", "write"}
                 => (row[w] = "live" /\ <<w, "ports">> \notin owed
                        => def[w].ports = source[w].ports))
             => PortsTrack(w)' /\ PortsRead(h)'
    PROVE  Tracked'
  <1>1. /\ upd[h].at # "idle" /\ UNCHANGED <<source, owed, cache, disturbed>>
        /\ \A g \in Handlers \ {h} : upd'[g] = upd[g]
    BY StepFrame
  <1>2. ASSUME w \notin disturbed' PROVE Tracks(w)'
    <2>1. Tracks(w)
      BY <1>1, <1>2 DEF Tracked
    <2>2. \A g \in Handlers \ {h} : upd[g].w = w => upd[g].at = "idle"
      BY <1>1, <1>2, Alone
    <2>3. \A g \in Handlers \ {h} : upd'[g].w = w => PortsRead(g)'
      BY <1>1, <2>2 DEF PortsRead
    <2>4. CacheTracks(w)'
      BY <1>1, <2>1 DEF Tracks, CacheTracks
    <2>5. upd[h].at \notin {"match", "compute", "write"}
             => (row[w] = "live" /\ <<w, "ports">> \notin owed
                    => def[w].ports = source[w].ports)
      BY <2>1, <2>2 DEF Tracks, PortsTrack
    <2>6. PortsTrack(w)' /\ PortsRead(h)'
      BY <2>1, <2>5 DEF Tracks
    <2> QED
      BY <2>3, <2>4, <2>6 DEF Tracks
  <1> QED
    BY <1>1, <1>2, TrackedAbout

\* The statements of an update keep Tracked.
LEMMA TrackedUpdateStep ==
    ASSUME TypeOK, OneUpdate, Tracked, NEW h \in Handlers, UpdateStep(h)
    PROVE  Tracked'
  <1>1. PICK w \in Workloads : w = upd[h].w
    BY StepFrame
  <1>2. UNCHANGED <<source, owed, cache>>
    BY StepFrame
  <1> DEFINE Settled == upd[h].at \notin {"match", "compute", "write"}
                           => (row[w] = "live" /\ <<w, "ports">> \notin owed
                                  => def[w].ports = source[w].ports)
  <1>3. CASE ServiceMatch(h)
    <2>1. /\ upd[h].at = "match" /\ UNCHANGED <<row, def>>
          /\ \/ row[w] # "live" /\ upd'[h].at = "idle"
             \/ upd'[h].at = "compute" /\ upd'[h].w = w /\ upd'[h].read.ports = def[w].ports
      BY <1>1, <1>3, MatchEffect
    <2>2. ASSUME CacheTracks(w), PortsRead(h), Settled
          PROVE  PortsTrack(w)' /\ PortsRead(h)'
      BY <1>1, <1>2, <2>1, <2>2 DEF CacheTracks, PortsTrack, PortsRead
    <2> QED
      BY <1>1, <2>1, <2>2, TrackedStep
  <1>4. CASE ComputeUpdate(h)
    <2>1. /\ upd[h].at = "compute" /\ UNCHANGED <<row, def>>
          /\ \/ upd'[h].at = "idle" /\ upd[h].read.ports = cache[w]
             \/ /\ upd'[h].at = "write" /\ upd'[h].w = w
                /\ upd'[h].read = upd[h].read /\ upd'[h].new.ports = cache[w]
      BY <1>1, <1>4, ComputeEffect
    <2>2. ASSUME CacheTracks(w), PortsRead(h), Settled
          PROVE  PortsTrack(w)' /\ PortsRead(h)'
      BY <1>1, <1>2, <2>1, <2>2 DEF CacheTracks, PortsTrack, PortsRead
    <2> QED
      BY <1>1, <2>1, <2>2, TrackedStep
  <1>5. CASE WriteDefinition(h)
    <2>1. /\ upd[h].at = "write" /\ UNCHANGED row
          /\ upd'[h].at = "bump" /\ upd'[h].w = w
          /\ \A v \in Workloads \ {w} : def'[v] = def[v]
          /\ def'[w].ports = IF upd[h].new.ports # upd[h].read.ports THEN upd[h].new.ports
                                                                     ELSE def[w].ports
      BY <1>1, <1>5, WriteEffect
    <2>2. ASSUME CacheTracks(w), PortsRead(h), Settled
          PROVE  PortsTrack(w)' /\ PortsRead(h)'
      BY <1>1, <1>2, <2>1, <2>2 DEF CacheTracks, PortsTrack, PortsRead
    <2> QED
      BY <1>1, <2>1, <2>2, TrackedStep
  <1>6. CASE WriteEdit(h)
    <2>1. /\ upd[h].at = "edit" /\ UNCHANGED row
          /\ upd'[h].at = "bump" /\ upd'[h].w = w /\ def'[w].ports = def[w].ports
          /\ \A v \in Workloads \ {w} : def'[v] = def[v]
      BY <1>1, <1>6, EditEffect
    <2>2. ASSUME CacheTracks(w), PortsRead(h), Settled
          PROVE  PortsTrack(w)' /\ PortsRead(h)'
      BY <1>1, <1>2, <2>1, <2>2 DEF CacheTracks, PortsTrack, PortsRead
    <2> QED
      BY <1>1, <2>1, <2>2, TrackedStep
  <1>7. CASE AddInsert(h)
    <2>1. /\ upd[h].at = "insert"
          /\ \/ /\ def'[w] = upd[h].new /\ upd'[h].at = "bump" /\ upd'[h].w = w
                /\ \A v \in Workloads \ {w} : row'[v] = row[v] /\ def'[v] = def[v]
             \/ upd'[h].at = "idle" /\ UNCHANGED <<row, def>>
      BY <1>1, <1>7, InsertEffect
    <2>2. ASSUME CacheTracks(w), PortsRead(h), Settled
          PROVE  PortsTrack(w)' /\ PortsRead(h)'
      BY <1>1, <1>2, <2>1, <2>2 DEF CacheTracks, PortsTrack, PortsRead
    <2> QED
      BY <1>1, <2>1, <2>2, TrackedStep
  <1>8. CASE RemoveRow(h)
    <2>1. /\ row'[w] = "deleted" /\ upd'[h].at = "bump" /\ upd'[h].w = w /\ UNCHANGED def
          /\ \A v \in Workloads \ {w} : row'[v] = row[v]
      BY <1>1, <1>8, RemoveEffect
    <2>2. PortsTrack(w)' /\ PortsRead(h)'
      BY <2>1 DEF PortsTrack, PortsRead
    <2> QED
      BY <1>1, <2>1, <2>2, TrackedStep
  <1>9. CASE BumpVersion(h) \/ StoreVersion(h)
    <2>1. /\ upd[h].at \in {"bump", "version"} /\ UNCHANGED <<row, def>>
          /\ upd'[h].at = "idle" \/ (upd'[h].at = "version" /\ upd'[h].w = w)
      BY <1>1, <1>9, VersionEffect
    <2>2. ASSUME Settled PROVE PortsTrack(w)' /\ PortsRead(h)'
      BY <1>2, <2>1, <2>2 DEF PortsTrack, PortsRead
    <2> QED
      BY <1>1, <2>1, <2>2, TrackedStep
  <1> QED
    BY <1>3, <1>4, <1>5, <1>6, <1>7, <1>8, <1>9 DEF UpdateStep

\* The inductive invariant for the ports.
THEOREM TrackedInvariant == Spec => []Tracked
  <1>1. Init => Tracked
    <2>1. SUFFICES ASSUME Init, NEW w \in Workloads PROVE Tracks(w)
      BY DEF Tracked
    <2>2. \A h \in Handlers : upd[h].at = "idle"
      BY <2>1 DEF Init, NoUpdate
    <2>3. CacheTracks(w) /\ PortsTrack(w)
      BY <2>1 DEF Init, Blank, CacheTracks, PortsTrack
    <2>4. \A h \in Handlers : PortsRead(h)
      BY <2>2 DEF PortsRead
    <2> QED
      BY <2>3, <2>4 DEF Tracks
  <1>2. TypeOK /\ Visible /\ Tracked /\ [Next]_vars => Tracked'
    <2>1. SUFFICES ASSUME TypeOK, OneUpdate, Tracked, [Next]_vars PROVE Tracked'
      BY DEF Visible
    <2>2. ASSUME UNCHANGED <<source, owed, cache, row, def, upd, disturbed>>
          PROVE  Tracked'
      <3>1. \A w \in Workloads :
               /\ CacheTracks(w)' <=> CacheTracks(w)
               /\ PortsTrack(w)' <=> PortsTrack(w)
        BY <2>2 DEF CacheTracks, PortsTrack
      <3>2. \A h \in Handlers : PortsRead(h)' <=> PortsRead(h)
        BY <2>2 DEF PortsRead
      <3> QED
        BY <2>1, <2>2, <3>1, <3>2 DEF Tracked, Tracks
    <2>3. CASE UNCHANGED vars
      BY <2>2, <2>3 DEF vars
    <2>4. ASSUME NEW h \in Handlers, UpdateCut(h) PROVE Tracked'
      <3>1. /\ UNCHANGED <<source, owed, cache, row, def>>
            /\ upd[h].w \in Workloads /\ upd'[h].at = "idle"
            /\ \A g \in Handlers \ {h} : upd'[g] = upd[g]
            /\ disturbed' = disturbed \cup {upd[h].w}
        BY <2>1, <2>4 DEF UpdateCut, NoUpdate, TypeOK, clusterVars, catalogVars
      <3>2. PICK w \in Workloads : w = upd[h].w
        BY <3>1
      <3> QED
        BY <2>1, <3>1, <3>2, TrackedAbout
    <2>5. ASSUME NEW s \in Syncs, SyncRequest(s) \/ SyncStep(s) \/ SyncCut(s)
          PROVE  Tracked'
      BY <2>2, <2>5, SyncFrame
    <2>6. CASE Next
      BY <2>1, <2>4, <2>5, <2>6, TrackedCluster, TrackedRequest, TrackedUpdateStep DEF Next
    <2> QED
      BY <2>1, <2>3, <2>6
  <1> QED
    BY <1>1, <1>2, CatalogTypeCorrect, VisibleInvariant, PTL DEF Spec

----------------------------------------------------------------------------
(* The yaml and the containers.                                            *)

\* What the operation of an update says of its place, its row and what it writes:
\* a service event leaves the yaml and the containers as it read them.
Kind(h) ==
    LET u == upd[h]
    IN  /\ u.at \in {"match", "compute", "write"} => u.op \in {"event", "service"}
        /\ u.op = "service" /\ u.at \in {"match", "compute", "write"}
              => u.new.spec = u.read.spec /\ u.new.original = u.read.original
        /\ u.op = "event" => /\ u.at \in {"compute", "write", "bump", "version"}
                             /\ row[u.w] # "absent"
        /\ u.at = "match" => u.op = "service"
        /\ u.at = "insert" => u.op = "add"

\* The events of a workload are handled one after the other.
OneEvent ==
    \A g, h \in Handlers :
        g # h /\ upd[g].op = "event" /\ upd[h].op = "event" => upd[g].w # upd[h].w

Sorted == (\A h \in Handlers : Kind(h)) /\ OneEvent

\* d has the cluster's yaml and containers, or an event is owed.
Pending(w, d) ==
    \/ <<w, "spec">> \in owed
    \/ d.spec = source[w].spec /\ d.original = source[w].original

\* The catalog's definition is pending, or an event is being handled.
RowFollows(w) == row[w] = "live" => Pending(w, def[w]) \/ Following(w)

\* What an event has read is what the catalog still has, and what an event or an
\* addition is about to write is pending.
SpecRead(h) ==
    LET u == upd[h]
        w == u.w
    IN  /\ row[w] = "live" /\ u.op = "event" /\ u.at \in {"compute", "write"}
              => /\ u.read.spec = def[w].spec /\ u.read.original = def[w].original
                 /\ Pending(w, u.new)
        /\ row[w] = "absent" /\ u.at = "insert" => Pending(w, u.new)

Follows(w) == RowFollows(w) /\ \A h \in Handlers : upd[h].w = w => SpecRead(h)

\* The inductive form of the first half of CatalogTracksSource.
Followed == \A w \in Workloads \ unfollowed : Follows(w)

\* A step in one slot keeps Sorted if the slot's new record fits its operation
\* and takes no event next to another; rows are never forgotten.
LEMMA SortedStep ==
    ASSUME TypeOK, Sorted, NEW h \in Handlers,
           \A g \in Handlers \ {h} : upd'[g] = upd[g],
           \A w \in Workloads : row[w] # "absent" => row'[w] # "absent",
           Kind(h)',
           upd'[h].op = "event"
             => \/ upd[h].op = "event" /\ upd'[h].w = upd[h].w
                \/ \A g \in Handlers \ {h} : upd[g].op = "event" => upd[g].w # upd'[h].w
    PROVE  Sorted'
  <1>1. OneEvent'
    BY DEF Sorted, OneEvent
  <1>2. ASSUME NEW g \in Handlers \ {h} PROVE Kind(g)'
    <2>1. Kind(g) /\ upd'[g] = upd[g]
      BY DEF Sorted
    <2>2. upd[g].op = "event" => upd[g].w \in Workloads
      BY <2>1 DEF Kind, TypeOK
    <2> QED
      BY <2>1, <2>2 DEF Kind
  <1> QED
    BY <1>1, <1>2 DEF Sorted

\* A slot that is given back, or goes on to its last statements, is sorted.
LEMMA SortedEnd ==
    ASSUME TypeOK, Sorted, NEW h \in Handlers, UpdateStep(h),
           \A w \in Workloads : row[w] # "absent" => row'[w] # "absent",
           \/ upd'[h].at = "idle" /\ upd'[h].op = "none"
           \/ /\ upd'[h].at \in {"bump", "version"}
              /\ upd'[h].op = upd[h].op /\ upd'[h].w = upd[h].w
    PROVE  Sorted'
  <1>1. \A g \in Handlers \ {h} : upd'[g] = upd[g]
    BY StepFrame
  <1>2. Kind(h) /\ upd[h].w \in Workloads
    BY StepFrame DEF Sorted
  <1>3. Kind(h)'
    BY <1>2 DEF Kind
  <1> QED
    BY <1>1, <1>3, SortedStep

\* The statements of an update keep Sorted.
LEMMA SortedUpdateStep ==
    ASSUME TypeOK, Sorted, NEW h \in Handlers, UpdateStep(h)
    PROVE  Sorted'
  <1>1. PICK w \in Workloads : w = upd[h].w
    BY StepFrame
  <1>2. \A g \in Handlers \ {h} : upd'[g] = upd[g]
    BY StepFrame
  <1>3. Kind(h)
    BY DEF Sorted
  <1>4. CASE ServiceMatch(h)
    <2>1. /\ UNCHANGED row /\ upd[h].at = "match"
          /\ \/ upd'[h].at = "idle" /\ upd'[h].op = "none"
             \/ /\ upd'[h].at = "compute" /\ upd'[h].w = w /\ upd'[h].op = upd[h].op
                /\ upd'[h].new = upd[h].new /\ upd'[h].read.spec = upd[h].read.spec
                /\ upd'[h].read.original = upd[h].read.original
      BY <1>1, <1>4, MatchEffect
    <2>2. Kind(h)' /\ upd'[h].op # "event"
      BY <1>3, <2>1 DEF Kind
    <2> QED
      BY <1>2, <2>1, <2>2, SortedStep
  <1>5. CASE ComputeUpdate(h)
    <2>1. /\ UNCHANGED row /\ upd[h].at = "compute"
          /\ \/ upd'[h].at = "idle" /\ upd'[h].op = "none"
             \/ /\ upd'[h].at = "write" /\ upd'[h].w = w /\ upd'[h].op = upd[h].op
                /\ upd'[h].read = upd[h].read /\ upd'[h].new.spec = upd[h].new.spec
                /\ upd'[h].new.original = upd[h].new.original
      BY <1>1, <1>5, ComputeEffect
    <2>2. Kind(h)'
      BY <1>1, <1>3, <2>1 DEF Kind
    <2> QED
      BY <1>1, <1>2, <2>1, <2>2, SortedStep
  <1>6. CASE WriteDefinition(h)
    BY <1>1, <1>6, WriteEffect, SortedEnd
  <1>7. CASE WriteEdit(h)
    BY <1>1, <1>7, EditEffect, SortedEnd
  <1>8. CASE AddInsert(h)
    BY <1>1, <1>8, InsertEffect, SortedEnd
  <1>9. CASE RemoveRow(h)
    BY <1>1, <1>9, RemoveEffect, SortedEnd
  <1>10. CASE BumpVersion(h) \/ StoreVersion(h)
    BY <1>10, VersionEffect, SortedEnd
  <1> QED
    BY <1>4, <1>5, <1>6, <1>7, <1>8, <1>9, <1>10 DEF UpdateStep

\* The steps that start an update keep Sorted: an event waits for the one before.
LEMMA SortedRequest ==
    ASSUME TypeOK, Sorted, NEW h \in Handlers, NEW w \in Workloads, UpdateRequest(h, w)
    PROVE  Sorted'
  <1>1. UNCHANGED row /\ \E u : Start(h, u)
    BY RequestFrame
  <1>2. \A g \in Handlers \ {h} : upd'[g] = upd[g]
    BY <1>1 DEF Start, TypeOK
  <1>3. CASE WorkloadEvent(h, w)
    <2>1. /\ upd'[h].op = "event" /\ upd'[h].at = "compute" /\ upd'[h].w = w
          /\ row[w] = "live" /\ ~Handling("event", w)
      BY <1>3 DEF WorkloadEvent, Start, TypeOK
    <2>2. Kind(h)'
      BY <1>1, <2>1 DEF Kind
    <2> QED
      BY <1>1, <1>2, <2>1, <2>2, SortedStep DEF Handling
  <1>4. CASE ServiceEvent(h, w)
    <2>1. /\ upd'[h].op = "service" /\ upd'[h].at = "match"
          /\ upd'[h].read = Blank /\ upd'[h].new = Blank
      BY <1>4 DEF ServiceEvent, Start, TypeOK
    <2>2. Kind(h)'
      BY <2>1 DEF Kind
    <2> QED
      BY <1>1, <1>2, <2>1, <2>2, SortedStep
  <1>5. CASE EditRequest(h, w)
    <2>1. PICK d : Start(h, [op |-> "edit", at |-> "edit", w |-> w, read |-> Blank,
                             new |-> d, ver |-> 0])
      BY <1>5, EditStarts
    <2>2. upd'[h].op = "edit" /\ upd'[h].at = "edit"
      BY <2>1 DEF Start, TypeOK
    <2>3. Kind(h)'
      BY <2>2 DEF Kind
    <2> QED
      BY <1>1, <1>2, <2>2, <2>3, SortedStep
  <1>6. CASE DependencyEvent(h, w) \/ AddRequest(h, w) \/ RemoveRequest(h, w)
    <2>1. \/ upd'[h].op = "dependency" /\ upd'[h].at = "bump"
          \/ upd'[h].op = "add" /\ upd'[h].at = "insert"
          \/ upd'[h].op = "remove" /\ upd'[h].at = "remove"
      BY <1>6 DEF DependencyEvent, AddRequest, RemoveRequest, Start, TypeOK
    <2>2. Kind(h)'
      BY <2>1 DEF Kind
    <2> QED
      BY <1>1, <1>2, <2>1, <2>2, SortedStep
  <1> QED
    BY <1>3, <1>4, <1>5, <1>6 DEF UpdateRequest

\* A step that is about workload w leaves the other workloads alone.
LEMMA FollowedAbout ==
    ASSUME Followed, NEW h \in Handlers, NEW w \in Workloads,
           \A g \in Handlers \ {h} : upd'[g] = upd[g],
           upd[h].at = "idle" \/ upd[h].w = w,
           upd'[h].at = "idle" \/ upd'[h].w = w,
           \A v \in Workloads \ {w} :
              /\ v \in unfollowed => v \in unfollowed'
              /\ row'[v] = row[v] /\ def'[v] = def[v] /\ source'[v] = source[v]
              /\ <<v, "spec">> \in owed' <=> <<v, "spec">> \in owed,
           w \notin unfollowed' => Follows(w)'
    PROVE  Followed'
  <1>1. SUFFICES ASSUME NEW v \in Workloads \ {w}, v \notin unfollowed'
                 PROVE  Follows(v)'
    BY DEF Followed
  <1>2. Follows(v)
    BY <1>1 DEF Followed
  <1>3. RowFollows(v)'
    <2>1. Pending(v, def[v])' <=> Pending(v, def[v])
      BY <1>1 DEF Pending
    <2>2. Following(v) => Following(v)'
      BY <1>1 DEF Following
    <2> QED
      BY <1>1, <1>2, <2>1, <2>2 DEF Follows, RowFollows
  <1>4. ASSUME NEW g \in Handlers, upd'[g].w = v
        PROVE  SpecRead(g)'
    <2>1. CASE upd'[g].at = "idle"
      BY <2>1 DEF SpecRead
    <2>2. CASE upd'[g].at # "idle"
      <3>1. upd'[g] = upd[g] /\ SpecRead(g)
        BY <1>1, <1>2, <1>4, <2>2 DEF Follows
      <3> QED
        BY <1>1, <1>4, <3>1 DEF SpecRead, Pending
    <2> QED
      BY <2>1, <2>2
  <1> QED
    BY <1>3, <1>4 DEF Follows

\* The steps of the cluster and of its watchers keep Followed: an event that is
\* dropped, or skipped while its workload is being added, is recorded.
LEMMA FollowedCluster ==
    ASSUME TypeOK, Sorted, Followed, NEW w \in Workloads,
           \/ \E what \in {"spec", "ports"} : SourceChange(w, what) \/ EventLost(w, what)
           \/ WorkloadEventSkipped(w)
    PROVE  Followed'
  <1>1. UNCHANGED <<row, def, upd>> /\ unfollowed \subseteq unfollowed'
    BY DEF SourceChange, EventLost, WorkloadEventSkipped, catalogVars, pastVars
  <1>2. SUFFICES ASSUME NEW v \in Workloads \ unfollowed' PROVE Follows(v)'
    BY DEF Followed
  <1>3. Follows(v)
    BY <1>1, <1>2 DEF Followed
  <1>4. ASSUME \/ <<v, "spec">> \in owed'
               \/ source'[v] = source[v] /\ (<<v, "spec">> \in owed => <<v, "spec">> \in owed')
               \/ /\ source'[v].spec = source[v].spec
                  /\ source'[v].original = source[v].original
                  /\ <<v, "spec">> \in owed => <<v, "spec">> \in owed'
        PROVE  Follows(v)'
    <2>1. \A d : Pending(v, d) => Pending(v, d)'
      BY <1>4 DEF Pending
    <2>2. RowFollows(v)'
      BY <1>1, <1>3, <1>4 DEF Follows, RowFollows, Following, Pending
    <2>3. \A g \in Handlers : upd'[g].w = v => SpecRead(g)'
      BY <1>1, <1>3, <1>4 DEF Follows, SpecRead, Pending
    <2> QED
      BY <2>2, <2>3 DEF Follows
  <1>5. ASSUME NEW what \in {"spec", "ports"}, SourceChange(w, what)
        PROVE  Follows(v)'
    <2>1. owed' = owed \cup {<<w, what>>}
      BY <1>5 DEF SourceChange
    <2>2. CASE v # w
      <3>1. source'[v] = source[v]
        <4>1. \E now : source' = [source EXCEPT ![w] = now]
          BY <1>5 DEF SourceChange
        <4> QED
          BY <2>2, <4>1 DEF TypeOK
      <3> QED
        BY <1>4, <2>1, <3>1
    <2>3. CASE v = w /\ what = "spec"
      BY <1>4, <2>1, <2>3
    <2>4. CASE v = w /\ what = "ports"
      <3>1. source'[v].spec = source[v].spec /\ source'[v].original = source[v].original
        BY <1>5, <2>4 DEF SourceChange, TypeOK
      <3> QED
        BY <1>4, <2>1, <3>1
    <2> QED
      BY <1>5, <2>2, <2>3, <2>4
  <1>6. ASSUME NEW what \in {"spec", "ports"}, EventLost(w, what)
        PROVE  Follows(v)'
    <2>1. /\ UNCHANGED source /\ owed' = owed \ {<<w, what>>}
          /\ what = "spec" => w \in unfollowed'
      BY <1>6 DEF EventLost
    <2>2. <<v, "spec">> \in owed => <<v, "spec">> \in owed'
      BY <1>2, <2>1
    <2> QED
      BY <1>4, <2>1, <2>2
  <1>7. CASE WorkloadEventSkipped(w)
    <2>1. /\ UNCHANGED source /\ owed' = owed \ {<<w, "spec">>} /\ row[w] # "live"
          /\ Handling("add", w) => w \in unfollowed'
      BY <1>7 DEF WorkloadEventSkipped
    <2>2. CASE v # w
      BY <1>4, <2>1, <2>2
    <2>3. CASE v = w
      <3>1. \A g \in Handlers : upd[g].w = w => upd[g].at # "insert"
        BY <1>2, <2>1, <2>3 DEF Handling, Sorted, Kind
      <3>2. RowFollows(v)' /\ \A g \in Handlers : upd'[g].w = v => SpecRead(g)'
        BY <1>1, <2>1, <2>3, <3>1 DEF RowFollows, SpecRead
      <3> QED
        BY <3>2 DEF Follows
    <2> QED
      BY <2>2, <2>3
  <1> QED
    BY <1>5, <1>6, <1>7

\* The steps that start an update keep Followed: an event has just read the row
\* and the cluster, an addition the cluster.
LEMMA FollowedRequest ==
    ASSUME TypeOK, Sorted, Followed, NEW h \in Handlers, NEW w \in Workloads,
           UpdateRequest(h, w)
    PROVE  Followed'
  <1>1. UNCHANGED <<row, def, source>>
    BY RequestFrame
  <1>2. PICK u : Start(h, u) /\ u.w = w
    BY RequestFrame
  <1>3. /\ upd[h].at = "idle" /\ upd'[h] = u
        /\ \A g \in Handlers \ {h} : upd'[g] = upd[g]
    BY <1>2 DEF Start, TypeOK
  <1>4. CASE WorkloadEvent(h, w)
    <2>1. /\ upd'[h].op = "event" /\ upd'[h].at = "compute" /\ upd'[h].w = w
          /\ upd'[h].read = def[w] /\ upd'[h].new.spec = source[w].spec
          /\ upd'[h].new.original = source[w].original
          /\ row[w] = "live" /\ ~Handling("event", w)
      <3> DEFINE new == [def[w] EXCEPT !.spec = source[w].spec,
                                        !.original = source[w].original]
      <3>1. upd'[h] = [op |-> "event", at |-> "compute", w |-> w, read |-> def[w],
                       new |-> new, ver |-> 0]
        BY <1>4 DEF WorkloadEvent, Start, TypeOK
      <3>2. new.spec = source[w].spec /\ new.original = source[w].original
        BY DEF TypeOK, Definition
      <3>3. row[w] = "live" /\ ~Handling("event", w)
        BY <1>4 DEF WorkloadEvent
      <3> HIDE DEF new
      <3> QED
        BY <3>1, <3>2, <3>3
    <2>2. /\ owed' = owed \ {<<w, "spec">>} /\ unfollowed' = unfollowed \ {w}
      BY <1>4 DEF WorkloadEvent
    <2>3. RowFollows(w)'
      BY <2>1 DEF RowFollows, Following
    <2>4. SpecRead(h)'
      BY <1>1, <2>1 DEF SpecRead, Pending
    <2>5. ASSUME NEW g \in Handlers \ {h}, upd'[g].w = w PROVE SpecRead(g)'
      <3>1. upd'[g].op # "event" /\ row'[w] = "live"
        BY <1>1, <1>3, <2>1, <2>5 DEF Handling
      <3> QED
        BY <2>5, <3>1 DEF SpecRead
    <2>6. Follows(w)'
      BY <2>3, <2>4, <2>5 DEF Follows
    <2> QED
      BY <1>1, <1>2, <1>3, <2>2, <2>6, FollowedAbout
  <1>5. CASE ~WorkloadEvent(h, w)
    <2>1. /\ UNCHANGED unfollowed
          /\ \A v \in Workloads : <<v, "spec">> \in owed' <=> <<v, "spec">> \in owed
      BY <1>5 DEF UpdateRequest, ServiceEvent, DependencyEvent, EditRequest, AddRequest,
         RemoveRequest, clusterVars, catalogVars
    <2>2. \/ upd'[h].at \in {"match", "bump", "edit", "remove"}
          \/ /\ upd'[h].at = "insert" /\ upd'[h].w = w /\ upd'[h].op = "add"
             /\ upd'[h].new.spec = source[w].spec
             /\ upd'[h].new.original = source[w].original
      <3>1. CASE EditRequest(h, w)
        <4>1. PICK d : Start(h, [op |-> "edit", at |-> "edit", w |-> w, read |-> Blank,
                                 new |-> d, ver |-> 0])
          BY <3>1, EditStarts
        <4> QED
          BY <4>1 DEF Start, TypeOK
      <3>2. CASE ~EditRequest(h, w)
        BY <1>5, <3>2 DEF UpdateRequest, ServiceEvent, DependencyEvent, AddRequest,
           RemoveRequest, Start, TypeOK
      <3> QED
        BY <3>1, <3>2
    <2>3. ASSUME w \notin unfollowed' PROVE Follows(w)'
      <3>1. Follows(w)
        BY <2>1, <2>3 DEF Followed
      <3>2. RowFollows(w)'
        <4>1. Following(w) => Following(w)'
          BY <1>3 DEF Following
        <4> QED
          BY <1>1, <2>1, <3>1, <4>1 DEF Follows, RowFollows, Pending
      <3>3. SpecRead(h)'
        BY <1>1, <2>2 DEF SpecRead, Pending
      <3>4. \A g \in Handlers \ {h} : upd'[g].w = w => SpecRead(g)'
        BY <1>1, <1>3, <2>1, <3>1 DEF Follows, SpecRead, Pending
      <3> QED
        BY <3>2, <3>3, <3>4 DEF Follows
    <2> QED
      BY <1>1, <1>2, <1>3, <2>1, <2>3, FollowedAbout
  <1> QED
    BY <1>4, <1>5

\* The statements of an update keep Followed: only the event in flight writes the
\* yaml, and an edit that writes other containers is recorded.
LEMMA FollowedUpdateStep ==
    ASSUME TypeOK, Sorted, Followed, NEW h \in Handlers, UpdateStep(h)
    PROVE  Followed'
  <1>1. PICK w \in Workloads : w = upd[h].w
    BY StepFrame
  <1>2. /\ UNCHANGED <<source, owed>> /\ unfollowed \subseteq unfollowed'
        /\ \A g \in Handlers \ {h} : upd'[g] = upd[g]
    BY StepFrame
  <1>3. Kind(h)
    BY DEF Sorted
  <1> DEFINE Others == \A v \in Workloads \ {w} : row'[v] = row[v] /\ def'[v] = def[v]
             Slot == upd'[h].at = "idle" \/ upd'[h].w = w
             Same == /\ def'[w].spec = def[w].spec /\ def'[w].original = def[w].original
                     /\ row'[w] = row[w]
  <1>4. ASSUME Others, Slot, w \notin unfollowed' => (Follows(w) => Follows(w)')
        PROVE  Followed'
    <2>1. w \notin unfollowed' => Follows(w)'
      BY <1>2, <1>4 DEF Followed
    <2> QED
      BY <1>1, <1>2, <1>4, <2>1, FollowedAbout
  <1>5. ASSUME Follows(w), Same, SpecRead(h)', upd'[h].w = w \/ upd'[h].at = "idle",
               \/ Following(w) => Following(w)'
               \/ row[w] = "live" => Pending(w, def[w])
        PROVE  Follows(w)'
    <2>1. RowFollows(w)'
      BY <1>2, <1>5 DEF Follows, RowFollows, Pending
    <2>2. \A g \in Handlers \ {h} : upd'[g].w = w => SpecRead(g)'
      BY <1>2, <1>5 DEF Follows, SpecRead, Pending
    <2> QED
      BY <1>5, <2>1, <2>2 DEF Follows
  <1>6. ASSUME Follows(w), Same, Slot,
               upd[h].op # "event" \/ upd[h].at \notin {"compute", "write"},
               upd'[h].at \in {"idle", "bump", "version"}
        PROVE  Follows(w)'
    <2>1. Following(w) => Following(w)'
      BY <1>2, <1>6 DEF Following
    <2>2. SpecRead(h)'
      BY <1>6 DEF SpecRead
    <2> QED
      BY <1>5, <1>6, <2>1, <2>2
  <1>7. CASE ServiceMatch(h)
    <2>1. /\ upd[h].at = "match" /\ UNCHANGED <<row, def>>
          /\ \/ upd'[h].at = "idle"
             \/ upd'[h].at = "compute" /\ upd'[h].w = w /\ upd'[h].op = upd[h].op
      BY <1>1, <1>7, MatchEffect
    <2>2. upd[h].op = "service"
      BY <1>3, <2>1 DEF Kind
    <2>3. SpecRead(h)'
      BY <2>1, <2>2 DEF SpecRead
    <2>4. Following(w) => Following(w)'
      BY <1>2, <2>2 DEF Following
    <2> QED
      BY <1>4, <1>5, <2>1, <2>3, <2>4
  <1>8. CASE ComputeUpdate(h)
    <2>1. /\ upd[h].at = "compute" /\ UNCHANGED <<row, def>>
          /\ \/ /\ upd'[h].at = "idle"
                /\ upd[h].read.spec = upd[h].new.spec
                /\ upd[h].read.original = upd[h].new.original
             \/ /\ upd'[h].at = "write" /\ upd'[h].w = w /\ upd'[h].op = upd[h].op
                /\ upd'[h].read = upd[h].read /\ upd'[h].new.spec = upd[h].new.spec
                /\ upd'[h].new.original = upd[h].new.original
      BY <1>1, <1>8, ComputeEffect
    <2>2. ASSUME Follows(w) PROVE Follows(w)'
      <3>1. SpecRead(h)
        BY <1>1, <2>2 DEF Follows
      <3>2. SpecRead(h)'
        BY <1>1, <1>2, <2>1, <3>1 DEF SpecRead, Pending
      <3>3. CASE upd'[h].at = "write"
        <4>1. Following(w) => Following(w)'
          BY <1>1, <1>2, <2>1, <3>3 DEF Following
        <4> QED
          BY <1>5, <2>1, <2>2, <3>2, <4>1
      <3>4. CASE upd'[h].at = "idle" /\ upd[h].op = "event"
        <4>1. row[w] = "live" => Pending(w, def[w])
          BY <1>1, <2>1, <3>1, <3>4 DEF SpecRead, Pending
        <4> QED
          BY <1>5, <2>1, <2>2, <3>2, <3>4, <4>1
      <3>5. CASE upd'[h].at = "idle" /\ upd[h].op # "event"
        BY <1>6, <2>1, <2>2, <3>5
      <3> QED
        BY <2>1, <3>3, <3>4, <3>5
    <2> QED
      BY <1>4, <2>1, <2>2
  <1>9. CASE WriteDefinition(h)
    <2>1. /\ upd[h].at = "write" /\ UNCHANGED row
          /\ upd'[h].at = "bump" /\ upd'[h].w = w
          /\ \A v \in Workloads \ {w} : def'[v] = def[v]
          /\ def'[w].spec = IF upd[h].new.spec # upd[h].read.spec THEN upd[h].new.spec
                                                                  ELSE def[w].spec
          /\ def'[w].original = IF upd[h].new.original # upd[h].read.original
                                THEN upd[h].new.original ELSE def[w].original
      BY <1>1, <1>9, WriteEffect
    <2>2. ASSUME Follows(w) PROVE Follows(w)'
      <3>1. CASE upd[h].op = "service"
        <4>1. Same
          BY <1>3, <2>1, <3>1 DEF Kind
        <4> QED
          BY <1>6, <2>1, <2>2, <3>1, <4>1
      <3>2. CASE upd[h].op = "event"
        <4>1. SpecRead(h)
          BY <1>1, <2>2 DEF Follows
        <4>2. row[w] = "live" => Pending(w, def[w])'
          BY <1>1, <1>2, <2>1, <3>2, <4>1 DEF SpecRead, Pending
        <4>3. SpecRead(h)'
          BY <2>1 DEF SpecRead
        <4>4. ASSUME NEW g \in Handlers \ {h}, upd'[g].w = w PROVE SpecRead(g)'
          <5>1. upd[g].op # "event" /\ SpecRead(g)
            BY <1>1, <1>2, <2>2, <3>2, <4>4 DEF Sorted, OneEvent, Follows
          <5> QED
            BY <1>2, <2>1, <4>4, <5>1 DEF SpecRead, Pending
        <4> QED
          BY <2>1, <4>2, <4>3, <4>4 DEF Follows, RowFollows
      <3> QED
        BY <1>3, <2>1, <3>1, <3>2 DEF Kind
    <2> QED
      BY <1>4, <2>1, <2>2
  <1>10. CASE WriteEdit(h)
    <2>1. /\ upd[h].at = "edit" /\ UNCHANGED row
          /\ upd'[h].at = "bump" /\ upd'[h].w = w
          /\ \A v \in Workloads \ {w} : def'[v] = def[v]
          /\ def'[w].spec = def[w].spec
          /\ w \notin unfollowed' => def'[w].original = def[w].original
      BY <1>1, <1>10, EditEffect
    <2>2. ASSUME w \notin unfollowed', Follows(w) PROVE Follows(w)'
      BY <1>6, <2>1, <2>2
    <2> QED
      BY <1>4, <2>1, <2>2
  <1>11. CASE AddInsert(h)
    <2>1. /\ upd[h].at = "insert"
          /\ \/ /\ row[w] = "absent" /\ row'[w] = "live" /\ def'[w] = upd[h].new
                /\ upd'[h].at = "bump" /\ upd'[h].w = w /\ Others
             \/ upd'[h].at = "idle" /\ UNCHANGED <<row, def>>
      BY <1>1, <1>11, InsertEffect
    <2>2. CASE upd'[h].at = "idle"
      BY <1>4, <1>6, <2>1, <2>2
    <2>3. CASE upd'[h].at # "idle"
      <3>1. ASSUME Follows(w) PROVE Follows(w)'
        <4>1. SpecRead(h)
          BY <1>1, <3>1 DEF Follows
        <4>2. RowFollows(w)'
          BY <1>1, <1>2, <2>1, <2>3, <4>1 DEF RowFollows, SpecRead, Pending
        <4>3. SpecRead(h)'
          BY <2>1, <2>3 DEF SpecRead
        <4>4. ASSUME NEW g \in Handlers \ {h}, upd'[g].w = w PROVE SpecRead(g)'
          <5>1. upd'[g].op # "event"
            BY <1>2, <2>1, <2>3, <4>4 DEF Sorted, Kind
          <5> QED
            BY <2>1, <2>3, <4>4, <5>1 DEF SpecRead
        <4> QED
          BY <4>2, <4>3, <4>4 DEF Follows
      <3> QED
        BY <1>4, <2>1, <2>3, <3>1
    <2> QED
      BY <2>2, <2>3
  <1>12. CASE RemoveRow(h)
    <2>1. /\ UNCHANGED def /\ row'[w] = "deleted"
          /\ \A v \in Workloads \ {w} : row'[v] = row[v]
          /\ upd'[h].at = "bump" /\ upd'[h].w = w
      BY <1>1, <1>12, RemoveEffect
    <2>2. Follows(w)'
      BY <2>1 DEF Follows, RowFollows, SpecRead
    <2> QED
      BY <1>4, <2>1, <2>2
  <1>13. CASE BumpVersion(h) \/ StoreVersion(h)
    <2>1. /\ upd[h].at \in {"bump", "version"} /\ UNCHANGED <<row, def>>
          /\ \/ upd'[h].at = "idle"
             \/ upd'[h].at = "version" /\ upd'[h].w = w
      BY <1>1, <1>13, VersionEffect
    <2> QED
      BY <1>4, <1>6, <2>1
  <1> QED
    BY <1>7, <1>8, <1>9, <1>10, <1>11, <1>12, <1>13 DEF UpdateStep

\* An update that is cut off keeps both: an event that had not written what it
\* read is recorded.
LEMMA FollowedCut ==
    ASSUME TypeOK, Sorted, Followed, NEW h \in Handlers, UpdateCut(h)
    PROVE  Sorted' /\ Followed'
  <1>1. /\ UNCHANGED <<source, owed, row, def>> /\ unfollowed \subseteq unfollowed'
        /\ upd'[h].at = "idle" /\ upd'[h].op = "none"
        /\ \A g \in Handlers \ {h} : upd'[g] = upd[g]
        /\ upd[h].op = "event" /\ upd[h].at \in {"compute", "write"}
              => upd[h].w \in unfollowed'
    BY DEF UpdateCut, NoUpdate, TypeOK, clusterVars, catalogVars
  <1>2. PICK w \in Workloads : w = upd[h].w
    BY DEF UpdateCut, TypeOK
  <1>3. Kind(h)'
    BY <1>1 DEF Kind
  <1>4. Sorted'
    BY <1>1, <1>3, SortedStep
  <1>5. ASSUME w \notin unfollowed' PROVE Follows(w)'
    <2>1. Follows(w)
      BY <1>1, <1>5 DEF Followed
    <2>2. Following(w) => Following(w)'
      BY <1>1, <1>2, <1>5 DEF Following
    <2>3. RowFollows(w)'
      BY <1>1, <2>1, <2>2 DEF Follows, RowFollows, Pending
    <2>4. \A g \in Handlers : upd'[g].w = w => SpecRead(g)'
      BY <1>1, <2>1 DEF Follows, SpecRead, Pending
    <2> QED
      BY <2>3, <2>4 DEF Follows
  <1> QED
    BY <1>1, <1>2, <1>4, <1>5, FollowedAbout

\* The inductive invariant for the yaml and the containers.
THEOREM FollowedInvariant == Spec => [](Sorted /\ Followed)
  <1>1. Init => Sorted /\ Followed
    <2>1. SUFFICES ASSUME Init PROVE Sorted /\ Followed
      OBVIOUS
    <2>2. \A h \in Handlers : upd[h].at = "idle" /\ upd[h].op = "none"
      BY <2>1 DEF Init, NoUpdate
    <2>3. Sorted
      BY <2>2 DEF Sorted, Kind, OneEvent
    <2>4. \A w \in Workloads : RowFollows(w)
      BY <2>1 DEF Init, Blank, RowFollows, Pending
    <2>5. \A h \in Handlers : SpecRead(h)
      BY <2>2 DEF SpecRead
    <2> QED
      BY <2>3, <2>4, <2>5 DEF Followed, Follows
  <1>2. TypeOK /\ Sorted /\ Followed /\ [Next]_vars => Sorted' /\ Followed'
    <2>1. SUFFICES ASSUME TypeOK, Sorted, Followed, [Next]_vars PROVE Sorted' /\ Followed'
      OBVIOUS
    <2>2. ASSUME UNCHANGED <<row, upd>> PROVE Sorted'
      BY <2>1, <2>2 DEF Sorted, Kind, OneEvent
    <2>3. ASSUME UNCHANGED <<source, owed, row, def, upd, unfollowed>> PROVE Followed'
      <3>1. \A w \in Workloads : RowFollows(w)' <=> RowFollows(w)
        BY <2>3 DEF RowFollows, Pending, Following
      <3>2. \A h \in Handlers : SpecRead(h)' <=> SpecRead(h)
        BY <2>3 DEF SpecRead, Pending
      <3> QED
        BY <2>1, <2>3, <3>1, <3>2 DEF Followed, Follows
    <2>4. CASE UNCHANGED vars
      BY <2>2, <2>3, <2>4 DEF vars
    <2>5. ASSUME NEW s \in Syncs, SyncRequest(s) \/ SyncStep(s) \/ SyncCut(s)
          PROVE  Sorted' /\ Followed'
      BY <2>2, <2>3, <2>5, SyncFrame
    <2>6. ASSUME NEW w \in Workloads,
                 \/ \E what \in {"spec", "ports"} : SourceChange(w, what) \/ EventLost(w, what)
                 \/ WorkloadEventSkipped(w)
          PROVE  Sorted' /\ Followed'
      <3>1. UNCHANGED <<row, upd>>
        BY <2>6 DEF SourceChange, EventLost, WorkloadEventSkipped, catalogVars
      <3> QED
        BY <2>1, <2>2, <2>6, <3>1, FollowedCluster
    <2>7. CASE Next
      BY <2>1, <2>5, <2>6, <2>7, SortedRequest, FollowedRequest, SortedUpdateStep,
         FollowedUpdateStep, FollowedCut DEF Next
    <2> QED
      BY <2>1, <2>4, <2>7
  <1> QED
    BY <1>1, <1>2, CatalogTypeCorrect, PTL DEF Spec

\* Every change of a workload or of its service in the cluster reaches the
\* catalog: once its event is handled, the catalog has the cluster's definition,
\* the yaml and the containers whichever updates ran before or next to it.
THEOREM CatalogTracks == Spec => []CatalogTracksSource
  <1>1. Tracked /\ Followed => CatalogTracksSource
    <2>1. SUFFICES ASSUME Tracked, Followed, NEW w \in Workloads, row[w] = "live"
                   PROVE  /\ w \notin unfollowed /\ <<w, "spec">> \notin owed
                             /\ ~Following(w)
                                => /\ def[w].spec = source[w].spec
                                   /\ def[w].original = source[w].original
                          /\ w \notin disturbed /\ <<w, "ports">> \notin owed
                             /\ ~Updating(w)
                                => def[w].ports = source[w].ports
      BY DEF CatalogTracksSource
    <2>2. ASSUME w \notin unfollowed, <<w, "spec">> \notin owed, ~Following(w)
          PROVE  def[w].spec = source[w].spec /\ def[w].original = source[w].original
      BY <2>1, <2>2 DEF Followed, Follows, RowFollows, Pending
    <2>3. ASSUME w \notin disturbed, <<w, "ports">> \notin owed, ~Updating(w)
          PROVE  def[w].ports = source[w].ports
      BY <2>1, <2>3 DEF Tracked, Tracks, PortsTrack, Updating
    <2> QED
      BY <2>2, <2>3
  <1> QED
    BY <1>1, TrackedInvariant, FollowedInvariant, PTL

----------------------------------------------------------------------------
(* Syncs.                                                                  *)

\* Two syncs in flight at once are recorded in the history.
OneSync ==
    ~overlapped =>
        \A s, t \in Syncs : s # t => sync[s].at = "idle" \/ sync[t].at = "idle"

\* Where the cluster runs something other than the environment's row says, or a
\* sync is about to make it so, the row is known to be older.
Retried ==
    ~overlapped =>
        /\ \A w \in Workloads \ disturbed :
              inst[w].live /\ deployed[w] # inst[w].def => version[w] > inst[w].ver
        /\ \A s \in Syncs :
              /\ sync[s].at = "catalog" => sync[s].seen = inst
              /\ sync[s].at \in {"deploy", "commit"}
                    => \A w \in sync[s].todo \ disturbed :
                          inst[w].live => version[w] > inst[w].ver
              /\ sync[s].at = "commit"
                    => \A w \in sync[s].todo : deployed[w] = sync[s].def[w]

\* A step outside the syncs keeps both: the version of an undisturbed workload
\* only grows.
LEMMA RetriedFrame ==
    ASSUME TypeOK, OneSync, Retried, UNCHANGED <<inst, deployed, sync, overlapped>>,
           disturbed \subseteq disturbed', version' \in [Workloads -> Nat],
           \A w \in Workloads \ disturbed' : version'[w] >= version[w]
    PROVE  OneSync' /\ Retried'
  <1>1. \A s \in Syncs : sync[s].todo \subseteq Workloads
    BY DEF TypeOK, SyncRecord
  <1>2. \A w \in Workloads : version[w] \in Nat /\ inst[w].ver \in Nat
    BY DEF TypeOK, InstRecord
  <1>3. OneSync'
    BY DEF OneSync
  <1>4. Retried'
    <2>1. SUFFICES ASSUME ~overlapped PROVE Retried'
      BY DEF Retried
    <2>2. \A w \in Workloads \ disturbed' :
             inst'[w].live /\ deployed'[w] # inst'[w].def => version'[w] > inst'[w].ver
      BY <1>2, <2>1 DEF Retried
    <2>3. ASSUME NEW s \in Syncs, sync'[s].at \in {"deploy", "commit"},
                 NEW w \in sync'[s].todo \ disturbed', inst'[w].live
          PROVE  version'[w] > inst'[w].ver
      <3>1. w \in Workloads /\ version[w] > inst[w].ver
        BY <1>1, <2>1, <2>3 DEF Retried
      <3> QED
        BY <1>2, <2>3, <3>1
    <2>4. \A s \in Syncs :
             /\ sync'[s].at = "catalog" => sync'[s].seen = inst'
             /\ sync'[s].at = "commit"
                   => \A w \in sync'[s].todo : deployed'[w] = sync'[s].def[w]
      BY <2>1 DEF Retried
    <2> QED
      BY <2>2, <2>3, <2>4 DEF Retried
  <1> QED
    BY <1>3, <1>4

\* The steps of the cluster and of updates keep both.
LEMMA RetriedUpdate ==
    ASSUME TypeOK, TypeOK', Visible, OneSync, Retried, NEW h \in Handlers,
           UpdateStep(h) \/ UpdateCut(h)
    PROVE  OneSync' /\ Retried'
  <1>1. UNCHANGED <<inst, deployed, sync, overlapped>> /\ disturbed \subseteq disturbed'
    BY DEF UpdateStep, UpdateCut, ServiceMatch, ComputeUpdate, WriteDefinition, WriteEdit,
       AddInsert, RemoveRow, BumpVersion, StoreVersion, Done, Step, Becomes, envVars,
       syncVars, pastVars
  <1>2. \A w \in Workloads \ disturbed' : version'[w] >= version[w]
    <2>1. \A w \in Workloads : version[w] \in Nat
      BY DEF TypeOK
    <2>2. CASE StoreVersion(h)
      <3>1. /\ upd[h].at = "version" /\ version' = [version EXCEPT ![upd[h].w] = upd[h].ver]
            /\ upd[h].ver \in Nat /\ disturbed' = disturbed
        BY <2>2 DEF StoreVersion, Done, Becomes, pastVars, TypeOK, UpdateRecord
      <3>2. upd[h].w \notin disturbed => upd[h].ver > version[upd[h].w]
        BY <3>1 DEF Visible, VersionsBounded
      <3> QED
        BY <2>1, <3>1, <3>2 DEF TypeOK
    <2>3. CASE ~StoreVersion(h)
      <3>1. version' = version
        BY <2>3 DEF UpdateStep, UpdateCut, ServiceMatch, ComputeUpdate, WriteDefinition,
           WriteEdit, AddInsert, RemoveRow, BumpVersion, catalogVars
      <3> QED
        BY <2>1, <3>1
    <2> QED
      BY <2>2, <2>3
  <1> QED
    BY <1>1, <1>2, RetriedFrame DEF TypeOK

\* The steps of a sync keep both.
LEMMA RetriedSync ==
    ASSUME TypeOK, OneSync, Retried, NEW s \in Syncs,
           SyncRequest(s) \/ SyncStep(s) \/ SyncCut(s)
    PROVE  OneSync' /\ Retried'
  <1>1. /\ UNCHANGED <<row, def, version, disturbed>>
        /\ \A t \in Syncs \ {s} : sync'[t] = sync[t]
        /\ overlapped' = FALSE => overlapped = FALSE
    BY DEF SyncRequest, SyncStep, SyncReadExisting, SyncReadCatalog, SyncDeploy, SyncCommit,
       SyncCut, SyncBecomes, catalogVars, syncVars, pastVars, TypeOK
  <1>2. SUFFICES ASSUME ~overlapped' PROVE OneSync' /\ Retried'
    BY DEF OneSync, Retried
  <1>3. ~overlapped
    BY <1>1, <1>2 DEF TypeOK
  <1>4. \A t \in Syncs \ {s} : sync[t].at = "idle"
    <2>1. CASE SyncRequest(s)
      BY <1>2, <2>1 DEF SyncRequest, Syncing
    <2>2. CASE SyncStep(s) \/ SyncCut(s)
      <3>1. sync[s].at # "idle"
        BY <2>2 DEF SyncStep, SyncReadExisting, SyncReadCatalog, SyncDeploy, SyncCommit,
           SyncCut
      <3> QED
        BY <1>3, <3>1 DEF OneSync
    <2> QED
      BY <2>1, <2>2
  <1>5. OneSync'
    BY <1>1, <1>4 DEF OneSync
  <1>6. sync[s] \in SyncRecord
    BY DEF TypeOK
  <1> DEFINE Rows == \A w \in Workloads \ disturbed :
                        inst'[w].live /\ deployed'[w] # inst'[w].def
                           => version[w] > inst'[w].ver
             Slot == /\ sync'[s].at = "catalog" => sync'[s].seen = inst'
                     /\ sync'[s].at \in {"deploy", "commit"}
                           => \A w \in sync'[s].todo \ disturbed :
                                 inst'[w].live => version[w] > inst'[w].ver
                     /\ sync'[s].at = "commit"
                           => \A w \in sync'[s].todo : deployed'[w] = sync'[s].def[w]
  <1>7. SUFFICES Rows /\ Slot
    BY <1>1, <1>4, <1>5 DEF Retried
  <1>8. ASSUME UNCHANGED <<inst, deployed>> PROVE Rows
    BY <1>3, <1>8 DEF Retried
  <1>9. NoSync.at = "idle"
    BY DEF NoSync
  <1>10. CASE SyncRequest(s)
    <2>1. UNCHANGED <<inst, deployed>> /\ sync'[s].at = "existing"
      BY <1>10 DEF SyncRequest, SyncBecomes, NoSync, TypeOK
    <2> QED
      BY <1>8, <2>1
  <1>11. CASE SyncReadExisting(s)
    <2>1. UNCHANGED <<inst, deployed>> /\ sync'[s].at = "catalog" /\ sync'[s].seen = inst
      BY <1>6, <1>11 DEF SyncReadExisting, SyncBecomes, SyncRecord, envVars, TypeOK
    <2> QED
      BY <1>8, <2>1
  <1>12. CASE SyncReadCatalog(s)
    <2>1. UNCHANGED <<inst, deployed>> /\ sync[s].at = "catalog"
      BY <1>12 DEF SyncReadCatalog, envVars
    <2>2. sync'[s].at = "deploy" /\ \A w \in sync'[s].todo : Outdated(s, w)
      BY <1>12 DEF SyncReadCatalog, SyncBecomes, NoSync, TypeOK
    <2>3. sync[s].seen = inst
      BY <1>3, <2>1 DEF Retried
    <2>4. Slot
      BY <2>1, <2>2, <2>3 DEF Outdated
    <2> QED
      BY <1>8, <2>1, <2>4
  <1>13. CASE SyncDeploy(s)
    <2>1. /\ sync[s].at = "deploy" /\ UNCHANGED inst
          /\ sync[s].todo \subseteq Workloads
      BY <1>6, <1>13 DEF SyncDeploy, SyncRecord
    <2>2. \A w \in sync[s].todo \ disturbed : inst[w].live => version[w] > inst[w].ver
      BY <1>3, <2>1 DEF Retried
    <2>3. \A w \in Workloads \ sync[s].todo : deployed'[w] = deployed[w]
      BY <1>13 DEF SyncDeploy, Applied
    <2>4. Rows
      BY <1>3, <2>1, <2>2, <2>3 DEF Retried
    <2>5. CASE deployed' = Applied(s, sync[s].todo)
               /\ SyncBecomes(s, [sync[s] EXCEPT !.at = "commit"])
      <3>1. /\ sync'[s].at = "commit" /\ sync'[s].todo = sync[s].todo
            /\ sync'[s].def = sync[s].def
        BY <1>6, <2>5 DEF SyncBecomes, SyncRecord, TypeOK
      <3>2. \A w \in sync[s].todo : deployed'[w] = sync[s].def[w]
        BY <2>1, <2>5 DEF Applied
      <3> QED
        BY <2>1, <2>2, <2>4, <3>1, <3>2
    <2>6. CASE SyncBecomes(s, NoSync)
      BY <1>9, <2>4, <2>6 DEF SyncBecomes, TypeOK
    <2> QED
      BY <1>13, <2>5, <2>6 DEF SyncDeploy
  <1>14. CASE SyncCommit(s)
    <2>1. sync[s].at = "commit" /\ sync'[s] = NoSync /\ UNCHANGED deployed
      BY <1>14 DEF SyncCommit, SyncBecomes, TypeOK
    <2>2. \A w \in Workloads :
             \/ w \in sync[s].todo /\ inst'[w].def = sync[s].def[w]
             \/ /\ inst'[w].live => inst[w].live
                /\ inst'[w].def = inst[w].def /\ inst'[w].ver = inst[w].ver
      BY <1>14 DEF SyncCommit, TypeOK, InstRecord
    <2>3. \A w \in sync[s].todo : deployed[w] = sync[s].def[w]
      BY <1>3, <2>1 DEF Retried
    <2>4. Rows
      BY <1>3, <2>1, <2>2, <2>3 DEF Retried
    <2> QED
      BY <1>9, <2>1, <2>4
  <1>15. CASE SyncCut(s)
    <2>1. UNCHANGED <<inst, deployed>> /\ sync'[s] = NoSync
      BY <1>15 DEF SyncCut, SyncBecomes, envVars, TypeOK
    <2> QED
      BY <1>8, <1>9, <2>1
  <1> QED
    BY <1>10, <1>11, <1>12, <1>13, <1>14, <1>15 DEF SyncStep

\* The inductive invariant: a deployment that was never committed, in whatever
\* part, was of workloads whose rows stay older than the catalog's.
THEOREM RetriedInvariant == Spec => [](OneSync /\ Retried)
  <1>1. Init => OneSync /\ Retried
    BY DEF Init, OneSync, Retried, NoSync
  <1>2. TypeOK /\ TypeOK' /\ Visible /\ OneSync /\ Retried /\ [Next]_vars
           => OneSync' /\ Retried'
    <2>1. SUFFICES ASSUME TypeOK, TypeOK', Visible, OneSync, Retried, [Next]_vars
                   PROVE  OneSync' /\ Retried'
      OBVIOUS
    <2>2. ASSUME UNCHANGED <<inst, deployed, sync, overlapped, version>>,
                 disturbed \subseteq disturbed'
          PROVE  OneSync' /\ Retried'
      <3>1. \A w \in Workloads : version[w] \in Nat
        BY <2>1 DEF TypeOK
      <3> QED
        BY <2>1, <2>2, <3>1, RetriedFrame DEF TypeOK
    <2>3. CASE UNCHANGED vars
      BY <2>2, <2>3 DEF vars
    <2>4. ASSUME NEW w \in Workloads,
                 \/ \E what \in {"spec", "ports"} : SourceChange(w, what) \/ EventLost(w, what)
                 \/ WorkloadEventSkipped(w)
                 \/ \E h \in Handlers : UpdateRequest(h, w)
          PROVE  OneSync' /\ Retried'
      <3>1. CASE \E h \in Handlers : UpdateRequest(h, w)
        BY <2>2, <3>1, RequestFrame DEF envVars, syncVars
      <3>2. CASE ~\E h \in Handlers : UpdateRequest(h, w)
        BY <2>2, <2>4, <3>2 DEF SourceChange, EventLost, WorkloadEventSkipped, Disturb,
           catalogVars, envVars, syncVars, pastVars
      <3> QED
        BY <3>1, <3>2
    <2>5. CASE Next
      BY <2>1, <2>4, <2>5, RetriedUpdate, RetriedSync DEF Next
    <2> QED
      BY <2>1, <2>3, <2>5
  <1> QED
    BY <1>1, <1>2, CatalogTypeCorrect, VisibleInvariant, PTL DEF Spec

\* After a deployment that failed half way, was cut off or was never committed,
\* every workload whose running definition differs from its row is deployed by
\* the next sync.
THEOREM FailedRetried == Spec => []FailedDeployIsRetried
  <1>1. Retried => FailedDeployIsRetried
    BY DEF Retried, FailedDeployIsRetried
  <1> QED
    BY <1>1, RetriedInvariant, PTL

\* sync_status stays syncing without a sync in flight only after a sync was cut
\* off or its transaction failed, however syncs overlap.
THEOREM SyncingOwned == Spec => []SyncingHasOwner
  <1>1. Init => SyncingHasOwner
    BY DEF Init, SyncingHasOwner
  <1>2. TypeOK /\ SyncingHasOwner /\ [Next]_vars => SyncingHasOwner'
    <2>1. SUFFICES ASSUME TypeOK, SyncingHasOwner, [Next]_vars PROVE SyncingHasOwner'
      OBVIOUS
    <2>2. ASSUME UNCHANGED <<env, sync, stranded>> PROVE SyncingHasOwner'
      BY <2>1, <2>2 DEF SyncingHasOwner, Syncing
    <2>3. ASSUME NEW s \in Syncs, SyncRequest(s) \/ SyncStep(s) \/ SyncCut(s)
          PROVE  SyncingHasOwner'
      <3>1. sync[s] \in SyncRecord /\ env \in [ver: Nat, status: {"idle", "syncing"}]
        BY <2>1 DEF TypeOK
      <3>2. ASSUME sync'[s].at # "idle" PROVE SyncingHasOwner'
        BY <3>2 DEF SyncingHasOwner, Syncing
      <3>3. ASSUME env'.status = "idle" PROVE SyncingHasOwner'
        BY <3>3 DEF SyncingHasOwner
      <3>4. CASE SyncRequest(s)
        <4>1. sync'[s].at = "existing"
          BY <2>1, <3>4 DEF SyncRequest, SyncBecomes, NoSync, TypeOK
        <4> QED
          BY <3>2, <4>1
      <3>5. CASE SyncReadExisting(s)
        <4>1. sync'[s].at = "catalog"
          BY <2>1, <3>1, <3>5 DEF SyncReadExisting, SyncBecomes, TypeOK, SyncRecord
        <4> QED
          BY <3>2, <4>1
      <3>6. CASE SyncReadCatalog(s)
        <4>1. sync'[s].at = "deploy"
          BY <2>1, <3>6 DEF SyncReadCatalog, SyncBecomes, NoSync, TypeOK
        <4> QED
          BY <3>2, <4>1
      <3>7. CASE SyncDeploy(s)
        <4>1. CASE SyncBecomes(s, [sync[s] EXCEPT !.at = "commit"])
          <5>1. sync'[s].at = "commit"
            BY <2>1, <3>1, <4>1 DEF SyncBecomes, TypeOK, SyncRecord
          <5> QED
            BY <3>2, <5>1
        <4>2. CASE env' = [env EXCEPT !.status = "idle"]
          <5>1. env'.status = "idle"
            BY <3>1, <4>2
          <5> QED
            BY <3>3, <5>1
        <4> QED
          BY <3>7, <4>1, <4>2 DEF SyncDeploy
      <3>8. CASE SyncCommit(s)
        BY <3>3, <3>8 DEF SyncCommit
      <3>9. CASE SyncCut(s)
        BY <3>9 DEF SyncCut, SyncingHasOwner
      <3> QED
        BY <2>3, <3>4, <3>5, <3>6, <3>7, <3>8, <3>9 DEF SyncStep
    <2>4. CASE UNCHANGED vars
      BY <2>2, <2>4 DEF vars
    <2>5. CASE Next
      <3>1. \/ UNCHANGED <<env, sync, stranded>>
            \/ \E s \in Syncs : SyncRequest(s) \/ SyncStep(s) \/ SyncCut(s)
        <4> USE DEF envVars, syncVars
        <4>1. ASSUME NEW w \in Workloads,
                     \/ \E what \in {"spec", "ports"} :
                           SourceChange(w, what) \/ EventLost(w, what)
                     \/ WorkloadEventSkipped(w)
              PROVE  UNCHANGED <<env, sync, stranded>>
          BY <4>1 DEF SourceChange, EventLost, WorkloadEventSkipped
        <4>2. ASSUME NEW w \in Workloads, NEW h \in Handlers, UpdateRequest(h, w)
              PROVE  UNCHANGED <<env, sync, stranded>>
          BY <4>2 DEF UpdateRequest, WorkloadEvent, ServiceEvent, DependencyEvent,
             EditRequest, AddRequest, RemoveRequest
        <4>3. ASSUME NEW h \in Handlers, UpdateStep(h) \/ UpdateCut(h)
              PROVE  UNCHANGED <<env, sync, stranded>>
          BY <4>3 DEF UpdateStep, UpdateCut, ServiceMatch, ComputeUpdate, WriteDefinition,
             WriteEdit, AddInsert, RemoveRow, BumpVersion, StoreVersion
        <4> QED
          BY <2>5, <4>1, <4>2, <4>3 DEF Next
      <3> QED
        BY <2>2, <2>3, <3>1
    <2> QED
      BY <2>1, <2>4, <2>5
  <1> QED
    BY <1>1, <1>2, CatalogTypeCorrect, PTL DEF Spec

=============================================================================
