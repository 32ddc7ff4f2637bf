--------------------- MODULE EnvironmentLifecycleProofs ---------------------
(***************************************************************************)
(* Theorems about EnvironmentLifecycle, for every set of environments and  *)
(* task slots and any number of restarts.                                  *)
(***************************************************************************)
EXTENDS EnvironmentLifecycle, TLAPS

----------------------------------------------------------------------------
(* Type correctness.                                                        *)

\* The environments a new request clashes with are environments.
LEMMA ClashType ==
    ASSUME TypeOK, NEW e \in Envs
    PROVE  Clash(e) \in SUBSET Envs
  BY DEF TypeOK, Clash, Busy

\* Starting, advancing and ending a request keep the types of its variables.
TaskTypeOK ==
    /\ task \in [Tasks -> [op: Ops, at: Steps, env: Envs \cup {NoEnv}]]
    /\ \A t \in Tasks : task[t].at # "idle" => task[t].env \in Envs
    /\ contended \in SUBSET Envs

\* A request that begins keeps the types.
LEMMA BeginType ==
    ASSUME TypeOK, NEW t \in Tasks, NEW e \in Envs, NEW o \in Ops,
           NEW a \in Steps, Begin(t, o, a, e)
    PROVE  TaskTypeOK'
  BY ClashType DEF TypeOK, TaskTypeOK, Begin

\* A task that goes on keeps the types.
LEMMA GotoType ==
    ASSUME TypeOK, NEW t \in Tasks, NEW a \in Steps, Goto(t, a),
           task[t].at # "idle"
    PROVE  TaskTypeOK'
  BY DEF TypeOK, TaskTypeOK, Goto

\* A task that ends keeps the types.
LEMMA EndType ==
    ASSUME TypeOK, NEW t \in Tasks, End(t)
    PROVE  TaskTypeOK'
  BY DEF TypeOK, TaskTypeOK, End, Idle, Ops, Steps

\* Each request in its first step keeps the types.
LEMMA RequestType ==
    ASSUME TypeOK, NEW t \in Tasks, Request(t)
    PROVE  TypeOK'
  <1> PICK e \in Envs :
        \/ \E k \in Deployable : CreateEnvironment(t, e, k)
        \/ BranchValidate(t, e)
        \/ DeleteLoad(t, e)
        \/ PauseRequest(t, e)
        \/ ResumeRequest(t, e)
        \/ UpdateWorkload(t, e)
        \/ RemoveWorkload(t, e)
        \/ SyncEnvironment(t, e)
        \/ RebaseBranch(t, e)
    BY DEF Request
  <1>1. ASSUME NEW k \in Deployable, CreateEnvironment(t, e, k) PROVE TypeOK'
    <2>1. TaskTypeOK'
      BY <1>1, BeginType DEF CreateEnvironment, Ops, Steps
    <2>2. k \in Kinds
      BY DeployableAssumption DEF Kinds
    <2> QED
      BY <1>1, <2>1, <2>2 DEF CreateEnvironment, UpdateStatus, TypeOK, TaskTypeOK,
         clusterVars, proxyVars, clientVars, crashVars, KubeEnvironmentStatus, Transient
  <1>2. CASE BranchValidate(t, e)
    <2>1. TaskTypeOK'
      BY <1>2, BeginType DEF BranchValidate, Ops, Steps
    <2> QED
      BY <1>2, <2>1 DEF BranchValidate, TypeOK, TaskTypeOK, rowVars,
         clusterVars, proxyVars, clientVars,
           crashVars
  <1>3. CASE DeleteLoad(t, e)
    <2>1. TaskTypeOK'
      BY <1>3, BeginType DEF DeleteLoad, Ops, Steps
    <2> QED
      BY <1>3, <2>1 DEF DeleteLoad, TypeOK, TaskTypeOK, rowVars,
         clusterVars, proxyVars, clientVars, crashVars
  <1>4. CASE PauseRequest(t, e)
    <2>1. TaskTypeOK'
      BY <1>4, BeginType DEF PauseRequest, Ops, Steps
    <2> QED
      BY <1>4, <2>1 DEF PauseRequest, TypeOK, TaskTypeOK, rowVars,
         clusterVars, proxyVars, clientVars,
           crashVars
  <1>5. CASE ResumeRequest(t, e)
    <2>1. TaskTypeOK'
      BY <1>5, BeginType DEF ResumeRequest, Ops, Steps
    <2> QED
      BY <1>5, <2>1 DEF ResumeRequest, TypeOK, TaskTypeOK, rowVars,
         clusterVars, proxyVars, clientVars,
           crashVars
  <1>6. CASE UpdateWorkload(t, e)
    <2>1. TaskTypeOK'
      BY <1>6, BeginType DEF UpdateWorkload, Ops, Steps
    <2> QED
      BY <1>6, <2>1 DEF UpdateWorkload, TypeOK, TaskTypeOK, rowVars,
         clusterVars, proxyVars, clientVars,
           crashVars
  <1>7. CASE RemoveWorkload(t, e)
    <2>1. TaskTypeOK'
      BY <1>7, BeginType DEF RemoveWorkload, Ops, Steps
    <2> QED
      BY <1>7, <2>1 DEF RemoveWorkload, TypeOK, TaskTypeOK, rowVars,
         clusterVars, proxyVars, clientVars,
           crashVars
  <1>8. CASE SyncEnvironment(t, e)
    <2>1. TaskTypeOK'
      BY <1>8, BeginType DEF SyncEnvironment, Ops, Steps
    <2> QED
      BY <1>8, <2>1 DEF SyncEnvironment, TypeOK, TaskTypeOK, rowVars,
         clusterVars, proxyVars, clientVars,
           crashVars
  <1>9. CASE RebaseBranch(t, e)
    <2>1. TaskTypeOK'
      BY <1>9, BeginType DEF RebaseBranch, Ops, Steps
    <2> QED
      BY <1>9, <2>1 DEF RebaseBranch, TypeOK, TaskTypeOK, rowVars,
         clusterVars, proxyVars, clientVars,
           crashVars
  <1> QED
    BY <1>1, <1>2, <1>3, <1>4, <1>5, <1>6, <1>7, <1>8, <1>9

\* The later steps of a creation keep the types.
LEMMA CreateType ==
    ASSUME TypeOK, NEW t \in Tasks, CreateStep(t)
    PROVE  TypeOK'
  <1>1. CASE CreateWatch(t)
    <2>1. TaskTypeOK'
      BY <1>1, GotoType, EndType DEF CreateWatch, At, Steps
    <2> QED
      BY <1>1, <2>1 DEF CreateWatch, At, TypeOK, TaskTypeOK, rowVars,
         clusterVars, proxyVars, clientVars,
         crashVars
  <1>2. CASE CreateDeploy(t)
    <2>1. TaskTypeOK'
      BY <1>2, GotoType, EndType DEF CreateDeploy, At, DeployResources, Steps
    <2> QED
      BY <1>2, <2>1 DEF CreateDeploy, At, DeployResources, TypeOK, TaskTypeOK, rowVars,
           clusterVars, proxyVars, clientVars,
         crashVars
  <1>3. CASE CreateSettle(t)
    <2>1. TaskTypeOK'
      BY <1>3, GotoType, EndType DEF CreateSettle, At, Steps
    <2> QED
      BY <1>3, <2>1 DEF CreateSettle, At, TypeOK, TaskTypeOK, rowVars,
         clusterVars, proxyVars, clientVars,
         crashVars, UpdateStatus, KubeEnvironmentStatus, Transient
  <1> QED
    BY <1>1, <1>2, <1>3 DEF CreateStep

\* The later steps of a deletion keep the types.
LEMMA DeleteType ==
    ASSUME TypeOK, NEW t \in Tasks, DeleteStep(t)
    PROVE  TypeOK'
  <1>1. CASE DeleteCheckBranches(t)
    <2>1. TaskTypeOK'
      BY <1>1, GotoType, EndType DEF DeleteCheckBranches, At, Steps
    <2> QED
      BY <1>1, <2>1 DEF DeleteCheckBranches, At, TypeOK, TaskTypeOK, rowVars,
           clusterVars, proxyVars, clientVars,
         crashVars
  <1>2. CASE DeleteNotify(t)
    <2>1. TaskTypeOK'
      BY <1>2, GotoType, EndType DEF DeleteNotify, At, Steps
    <2> QED
      BY <1>2, <2>1 DEF DeleteNotify, RemoveBranch, RemoveBranchFails, At, TypeOK, TaskTypeOK, rowVars,
         clusterVars, proxyVars, clientVars,
         crashVars
  <1>3. CASE DeleteMark(t)
    <2>1. TaskTypeOK'
      BY <1>3, GotoType, EndType DEF DeleteMark, At, Steps
    <2> QED
      BY <1>3, <2>1 DEF DeleteMark, At, TypeOK, TaskTypeOK, rowVars,
         clusterVars, proxyVars, clientVars,
         crashVars, UpdateStatus, KubeEnvironmentStatus, Transient
  <1>4. CASE DeleteNamespace(t)
    <2>1. TaskTypeOK'
      BY <1>4, GotoType, EndType DEF DeleteNamespace, At, Steps
    <2> QED
      BY <1>4, <2>1 DEF DeleteNamespace, At, TypeOK, TaskTypeOK, rowVars,
         clusterVars, proxyVars, clientVars,
         crashVars
  <1>5. CASE DeleteBranchResources(t)
    <2>1. TaskTypeOK'
      BY <1>5, GotoType, EndType DEF DeleteBranchResources, At, Steps
    <2> QED
      BY <1>5, <2>1 DEF DeleteBranchResources, At, TypeOK, TaskTypeOK, rowVars,
           clusterVars, proxyVars, clientVars,
         crashVars
  <1>6. CASE DeleteRecord(t)
    <2>1. TaskTypeOK'
      BY <1>6, GotoType, EndType DEF DeleteRecord, At, Steps
    <2> QED
      BY <1>6, <2>1 DEF DeleteRecord, At, TypeOK, TaskTypeOK, rowVars,
         clusterVars, proxyVars, clientVars,
         crashVars
  <1>7. CASE DeleteUnwatch(t)
    <2>1. TaskTypeOK'
      BY <1>7, GotoType, EndType DEF DeleteUnwatch, At, Steps
    <2> QED
      BY <1>7, <2>1 DEF DeleteUnwatch, At, TypeOK, TaskTypeOK, rowVars,
         clusterVars, proxyVars, clientVars,
         crashVars
  <1>8. CASE DeleteFail(t)
    <2>1. TaskTypeOK'
      BY <1>8, GotoType, EndType DEF DeleteFail, At, Steps
    <2> QED
      BY <1>8, <2>1 DEF DeleteFail, At, TypeOK, TaskTypeOK, rowVars,
         clusterVars, proxyVars, clientVars,
         crashVars, UpdateStatus, KubeEnvironmentStatus, Transient
  <1> QED
    BY <1>1, <1>2, <1>3, <1>4, <1>5, <1>6, <1>7, <1>8 DEF DeleteStep

\* The later steps of a pause or a resume keep the types.
LEMMA ScaleType ==
    ASSUME TypeOK, NEW t \in Tasks, ScaleStep(t)
    PROVE  TypeOK'
  <1>1. CASE PauseMark(t)
    <2>1. TaskTypeOK'
      BY <1>1, GotoType, EndType DEF PauseMark, At, Steps
    <2> QED
      BY <1>1, <2>1 DEF PauseMark, At, TypeOK, TaskTypeOK, rowVars,
         clusterVars, proxyVars, clientVars,
         crashVars, UpdateStatus, KubeEnvironmentStatus, Transient
  <1>2. CASE PauseLoad(t)
    <2>1. TaskTypeOK'
      BY <1>2, GotoType, EndType DEF PauseLoad, At, LoadEnvironment, Steps
    <2> QED
      BY <1>2, <2>1 DEF PauseLoad, At, LoadEnvironment, TypeOK, TaskTypeOK, rowVars,
           clusterVars, proxyVars, clientVars,
         crashVars
  <1>3. CASE PauseDeploy(t)
    <2>1. TaskTypeOK'
      BY <1>3, GotoType, EndType DEF PauseDeploy, At, DeployResources, AfterDeploy,
           Steps
    <2> QED
      BY <1>3, <2>1 DEF PauseDeploy, At, DeployResources, AfterDeploy, TypeOK,
           TaskTypeOK, rowVars, clusterVars, proxyVars, clientVars,
         crashVars
  <1>4. CASE PauseNotify(t)
    <2>1. TaskTypeOK'
      BY <1>4, GotoType, EndType DEF PauseNotify, At, Steps
    <2> QED
      BY <1>4, <2>1 DEF PauseNotify, RemoveBranch, RemoveBranchFails, At, TypeOK, TaskTypeOK, rowVars,
         clusterVars, proxyVars, clientVars,
         crashVars
  <1>5. CASE PauseSettle(t)
    <2>1. TaskTypeOK'
      BY <1>5, GotoType, EndType DEF PauseSettle, At, Steps
    <2> QED
      BY <1>5, <2>1 DEF PauseSettle, At, TypeOK, TaskTypeOK, rowVars,
         clusterVars, proxyVars, clientVars,
         crashVars, UpdateStatus, KubeEnvironmentStatus, Transient
  <1>6. CASE ResumeMark(t)
    <2>1. TaskTypeOK'
      BY <1>6, GotoType, EndType DEF ResumeMark, At, Steps
    <2> QED
      BY <1>6, <2>1 DEF ResumeMark, At, TypeOK, TaskTypeOK, rowVars,
         clusterVars, proxyVars, clientVars,
         crashVars, UpdateStatus, KubeEnvironmentStatus, Transient
  <1>7. CASE ResumeLoad(t)
    <2>1. TaskTypeOK'
      BY <1>7, GotoType, EndType DEF ResumeLoad, At, LoadEnvironment, Steps
    <2> QED
      BY <1>7, <2>1 DEF ResumeLoad, At, LoadEnvironment, TypeOK, TaskTypeOK, rowVars,
           clusterVars, proxyVars, clientVars,
         crashVars
  <1>8. CASE ResumeDeploy(t)
    <2>1. TaskTypeOK'
      BY <1>8, GotoType, EndType DEF ResumeDeploy, At, DeployResources, AfterDeploy,
           Steps
    <2> QED
      BY <1>8, <2>1 DEF ResumeDeploy, At, DeployResources, AfterDeploy, TypeOK,
           TaskTypeOK, rowVars, clusterVars, proxyVars, clientVars,
         crashVars
  <1>9. CASE ResumeNotify(t)
    <2>1. TaskTypeOK'
      BY <1>9, GotoType, EndType DEF ResumeNotify, At, AddBranch, Steps
    <2> QED
      BY <1>9, <2>1 DEF ResumeNotify, At, AddBranch, TypeOK, TaskTypeOK, rowVars,
           clusterVars, proxyVars, clientVars,
         crashVars
  <1>10. CASE ResumeSettle(t)
    <2>1. TaskTypeOK'
      BY <1>10, GotoType, EndType DEF ResumeSettle, At, Steps
    <2> QED
      BY <1>10, <2>1 DEF ResumeSettle, At, TypeOK, TaskTypeOK, rowVars,
         clusterVars, proxyVars, clientVars,
         crashVars, UpdateStatus, KubeEnvironmentStatus, Transient
  <1> QED
    BY <1>1, <1>2, <1>3, <1>4, <1>5, <1>6, <1>7, <1>8, <1>9, <1>10 DEF ScaleStep

\* The later steps of a workload change keep the types.
LEMMA WorkloadType ==
    ASSUME TypeOK, NEW t \in Tasks, WorkloadStep(t)
    PROVE  TypeOK'
  <1>1. CASE UpdateOverride(t)
    <2>1. TaskTypeOK'
      BY <1>1, GotoType, EndType DEF UpdateOverride, At, Steps
    <2> QED
      BY <1>1, <2>1 DEF UpdateOverride, At, TypeOK, TaskTypeOK, rowVars,
         clusterVars, proxyVars, clientVars,
         crashVars
  <1>2. CASE UpdateDeploy(t)
    <2>1. TaskTypeOK'
      BY <1>2, GotoType, EndType DEF UpdateDeploy, At, Steps
    <2> QED
      BY <1>2, <2>1 DEF UpdateDeploy, At, TypeOK, TaskTypeOK, rowVars,
         clusterVars, proxyVars, clientVars,
         crashVars
  <1>3. CASE RemoveResources(t)
    <2>1. TaskTypeOK'
      BY <1>3, GotoType, EndType DEF RemoveResources, At, Steps
    <2> QED
      BY <1>3, <2>1 DEF RemoveResources, At, TypeOK, TaskTypeOK, rowVars,
         clusterVars, proxyVars, clientVars,
         crashVars
  <1>4. CASE RemoveRecord(t)
    <2>1. TaskTypeOK'
      BY <1>4, GotoType, EndType DEF RemoveRecord, At, Steps
    <2> QED
      BY <1>4, <2>1 DEF RemoveRecord, At, TypeOK, TaskTypeOK, rowVars,
         clusterVars, proxyVars, clientVars,
         crashVars
  <1>5. CASE SyncDeploy(t)
    <2>1. TaskTypeOK'
      BY <1>5, GotoType, EndType DEF SyncDeploy, At, Steps
    <2> QED
      BY <1>5, <2>1 DEF SyncDeploy, At, TypeOK, TaskTypeOK, rowVars,
         clusterVars, proxyVars, clientVars,
         crashVars
  <1>6. CASE SyncRecord(t)
    <2>1. TaskTypeOK'
      BY <1>6, GotoType, EndType DEF SyncRecord, At, Steps
    <2> QED
      BY <1>6, <2>1 DEF SyncRecord, At, TypeOK, TaskTypeOK, rowVars,
         clusterVars, proxyVars, clientVars,
         crashVars
  <1>7. CASE RebaseDeploy(t)
    <2>1. TaskTypeOK'
      BY <1>7, GotoType, EndType DEF RebaseDeploy, At, Steps
    <2> QED
      BY <1>7, <2>1 DEF RebaseDeploy, At, TypeOK, TaskTypeOK, rowVars,
         clusterVars, proxyVars, clientVars,
         crashVars
  <1> QED
    BY <1>1, <1>2, <1>3, <1>4, <1>5, <1>6, <1>7 DEF WorkloadStep

\* The later steps of a branch creation keep the types.
LEMMA BranchType ==
    ASSUME TypeOK, NEW t \in Tasks, BranchStep(t)
    PROVE  TypeOK'
  <1>1. ASSUME NEW x \in Envs, BranchInsert(t, x) PROVE TypeOK'
    BY <1>1 DEF BranchInsert, At, TypeOK,
         clusterVars, proxyVars, clientVars, crashVars, UpdateStatus,
       KubeEnvironmentStatus, Transient, Kinds, Ops, Steps
  <1>2. CASE BranchNotify(t)
    <2>1. TaskTypeOK'
      BY <1>2, GotoType, EndType DEF BranchNotify, AddBranch, At, Steps
    <2> QED
      BY <1>2, <2>1 DEF BranchNotify, AddBranch, At, TypeOK, TaskTypeOK, rowVars,
           clusterVars, proxyVars, clientVars,
         crashVars
  <1>3. CASE BranchFinish(t)
    <2>1. TaskTypeOK'
      BY <1>3, GotoType, EndType DEF BranchFinish, At, Steps
    <2> QED
      BY <1>3, <2>1 DEF BranchFinish, At, TypeOK, TaskTypeOK, rowVars,
         clusterVars, proxyVars, clientVars,
         crashVars, UpdateStatus, KubeEnvironmentStatus, Transient
  <1> QED
    BY <1>1, <1>2, <1>3 DEF BranchStep

\* Every variable keeps its type through any interleaving of requests, failed
\* RPCs and restarts; in particular a request in flight has an environment.
THEOREM TypeCorrect == Spec => []TypeOK
  <1>1. Init => TypeOK
    BY NoEnvAssumption DEF Init, TypeOK, Idle, Kinds, KubeEnvironmentStatus, Transient,
       Ops, Steps
  <1>2. TypeOK /\ [Next]_vars => TypeOK'
    <2> SUFFICES ASSUME TypeOK, [Next]_vars PROVE TypeOK'
      OBVIOUS
    <2>1. CASE Crash
      BY <2>1 DEF Crash, TypeOK, Busy, Idle, Ops, Steps, rowVars,
         clusterVars, proxyVars, clientVars
    <2>4. CASE ProxyStep
      BY <2>4 DEF ProxyStep, LoseProxies, RegisterProxy, TypeOK, rowVars, crashVars
    <2>2. ASSUME NEW t \in Tasks, Request(t) \/ TaskStep(t) PROVE TypeOK'
      BY <2>2, RequestType, CreateType, BranchType, DeleteType, ScaleType, WorkloadType
         DEF TaskStep
    <2>3. CASE UNCHANGED vars
      BY <2>3 DEF vars, TypeOK
    <2> QED
      BY <2>1, <2>2, <2>3, <2>4 DEF Next
  <1> QED
    BY <1>1, <1>2, PTL DEF Spec

----------------------------------------------------------------------------
(* Every transient status has a task that will end it.                      *)

\* A first step writes a transient status only for the environment it creates,
\* and the new request owns that environment.
LEMMA RequestOwner ==
    ASSUME TypeOK, TransientHasOwner, NEW t \in Tasks, Request(t)
    PROVE  TransientHasOwner'
  <1> PICK e \in Envs :
        \/ \E k \in Deployable : CreateEnvironment(t, e, k)
        \/ BranchValidate(t, e)
        \/ DeleteLoad(t, e)
        \/ PauseRequest(t, e)
        \/ ResumeRequest(t, e)
        \/ UpdateWorkload(t, e)
        \/ RemoveWorkload(t, e)
        \/ SyncEnvironment(t, e)
        \/ RebaseBranch(t, e)
    BY DEF Request
  <1> USE DEF TypeOK, TransientHasOwner, Owns, Begin, Busy
  <1>1. ASSUME NEW k \in Deployable, CreateEnvironment(t, e, k)
        PROVE  TransientHasOwner'
    BY <1>1 DEF CreateEnvironment, UpdateStatus, crashVars, Transient
  <1>2. CASE BranchValidate(t, e)
    BY <1>2 DEF BranchValidate, rowVars, crashVars
  <1>3. CASE DeleteLoad(t, e)
    BY <1>3 DEF DeleteLoad, rowVars, crashVars
  <1>4. CASE PauseRequest(t, e)
    BY <1>4 DEF PauseRequest, rowVars, crashVars
  <1>5. CASE ResumeRequest(t, e)
    BY <1>5 DEF ResumeRequest, rowVars, crashVars
  <1>6. CASE UpdateWorkload(t, e)
    BY <1>6 DEF UpdateWorkload, rowVars, crashVars
  <1>7. CASE RemoveWorkload(t, e)
    <2>1. UNCHANGED <<row, status, orphaned>>
      BY <1>7 DEF RemoveWorkload, rowVars, crashVars
    <2>2. CASE Begin(t, "remove", "destroy", e)
      BY <2>1, <2>2
    <2>3. CASE Begin(t, "remove", "record", e)
      BY <2>1, <2>3
    <2> QED
      BY <1>7, <2>2, <2>3 DEF RemoveWorkload
  <1>8. CASE SyncEnvironment(t, e)
    BY <1>8 DEF SyncEnvironment, rowVars, crashVars
  <1>9. CASE RebaseBranch(t, e)
    BY <1>9 DEF RebaseBranch, rowVars, crashVars
  <1> QED
    BY <1>1, <1>2, <1>3, <1>4, <1>5, <1>6, <1>7, <1>8, <1>9

\* A later step keeps the ownership its request has, or ends the request with a
\* settled status or a deleted row.
LEMMA StepOwner ==
    ASSUME TypeOK, TransientHasOwner, NEW t \in Tasks, TaskStep(t)
    PROVE  TransientHasOwner'
  <1> USE DEF TypeOK, TransientHasOwner, Owns, At, Goto, End, Idle, UpdateStatus,
          rowVars, crashVars, Transient
  <1>1. ASSUME NEW x \in Envs, BranchInsert(t, x) PROVE TransientHasOwner'
    BY <1>1 DEF BranchInsert
  <1>2. CASE CreateWatch(t)
    BY <1>2 DEF CreateWatch
  <1>3. CASE CreateDeploy(t)
    BY <1>3 DEF CreateDeploy, DeployResources
  <1>4. CASE CreateSettle(t)
    BY <1>4 DEF CreateSettle
  <1>5. CASE BranchNotify(t)
    BY <1>5 DEF BranchNotify
  <1>6. CASE BranchFinish(t)
    BY <1>6 DEF BranchFinish
  <1>7. CASE DeleteCheckBranches(t)
    BY SMTT(30), <1>7 DEF DeleteCheckBranches
  <1>8. CASE DeleteNotify(t)
    <2>1. UNCHANGED <<row, status, orphaned>> /\ (Goto(t, "mark") \/ End(t))
      BY <1>8 DEF DeleteNotify
    <2>2. task[t].op = "delete" /\ task[t].at = "notify"
      BY <1>8 DEF DeleteNotify
    <2> QED
      BY SMTT(30), <2>1, <2>2
  <1>9. CASE DeleteMark(t)
    BY <1>9 DEF DeleteMark
  <1>10. CASE DeleteNamespace(t)
    BY <1>10 DEF DeleteNamespace
  <1>11. CASE DeleteBranchResources(t)
    BY SMTT(30), <1>11 DEF DeleteBranchResources
  <1>12. CASE DeleteRecord(t)
    <2>1. task[t].op = "delete" /\ task[t].at = "record"
      BY <1>12 DEF DeleteRecord
    <2>2. UNCHANGED <<status, orphaned>>
      BY <1>12 DEF DeleteRecord
    <2>3. \/ /\ row' = [row EXCEPT ![task[t].env] = "deleted"]
             /\ End(t) \/ Goto(t, "unwatch")
          \/ UNCHANGED row /\ Goto(t, "fail")
      BY <1>12 DEF DeleteRecord
    <2> QED
      BY <2>1, <2>2, <2>3
  <1>13. CASE DeleteUnwatch(t)
    BY <1>13 DEF DeleteUnwatch
  <1>14. CASE DeleteFail(t)
    BY <1>14 DEF DeleteFail
  <1>15. CASE PauseMark(t)
    BY <1>15 DEF PauseMark
  <1>16. CASE PauseLoad(t)
    BY <1>16 DEF PauseLoad, LoadEnvironment
  <1>17. CASE PauseDeploy(t)
    BY <1>17 DEF PauseDeploy, DeployResources, AfterDeploy
  <1>18. CASE PauseNotify(t)
    BY <1>18 DEF PauseNotify, RemoveBranch, RemoveBranchFails
  <1>19. CASE PauseSettle(t)
    BY <1>19 DEF PauseSettle
  <1>20. CASE ResumeMark(t)
    BY <1>20 DEF ResumeMark
  <1>21. CASE ResumeLoad(t)
    BY <1>21 DEF ResumeLoad, LoadEnvironment
  <1>22. CASE ResumeDeploy(t)
    BY <1>22 DEF ResumeDeploy, DeployResources, AfterDeploy
  <1>23. CASE ResumeNotify(t)
    BY <1>23 DEF ResumeNotify, AddBranch
  <1>24. CASE ResumeSettle(t)
    BY <1>24 DEF ResumeSettle
  <1>25. CASE UpdateOverride(t)
    BY <1>25 DEF UpdateOverride
  <1>26. CASE UpdateDeploy(t)
    BY <1>26 DEF UpdateDeploy
  <1>27. CASE RemoveResources(t)
    <2>1. UNCHANGED <<row, status, orphaned>>
      BY <1>27 DEF RemoveResources
    <2>2. CASE Goto(t, "record")
      BY <1>27, <2>1, <2>2 DEF RemoveResources
    <2>3. CASE End(t)
      BY <1>27, <2>1, <2>3 DEF RemoveResources
    <2> QED
      BY <1>27, <2>2, <2>3 DEF RemoveResources
  <1>28. CASE RemoveRecord(t)
    BY <1>28 DEF RemoveRecord
  <1>29. CASE SyncDeploy(t)
    <2>1. UNCHANGED <<row, status, orphaned>>
      BY <1>29 DEF SyncDeploy
    <2>2. At(t, "sync", "deploy")
      BY <1>29 DEF SyncDeploy
    <2>3. CASE Goto(t, "record")
      BY <2>1, <2>2, <2>3
    <2>4. CASE Goto(t, "finish")
      BY <2>1, <2>2, <2>4
    <2>5. CASE End(t)
      BY <2>1, <2>2, <2>5
    <2> QED
      BY <1>29, <2>3, <2>4, <2>5 DEF SyncDeploy
  <1>30. CASE SyncRecord(t)
    BY <1>30 DEF SyncRecord
  <1>31. CASE RebaseDeploy(t)
    BY <1>31 DEF RebaseDeploy
  <1> QED
    BY <1>1, <1>2, <1>3, <1>4, <1>5, <1>6, <1>7, <1>8, <1>9, <1>10,
       <1>11, <1>12, <1>13, <1>14, <1>15, <1>16, <1>17, <1>18, <1>19, <1>20,
       <1>21, <1>22, <1>23, <1>24, <1>25, <1>26, <1>27, <1>28, <1>29, <1>30,
       <1>31
       DEF TaskStep, CreateStep, BranchStep, DeleteStep, ScaleStep, WorkloadStep

\* However requests on an environment overlap, and whichever of their RPCs fail,
\* its transient status belongs to a task in flight that will settle it; only a
\* restart of the API server can strand it.
THEOREM TransientOwned == Spec => []TransientHasOwner
  <1>1. Init => TransientHasOwner
    BY DEF Init, TransientHasOwner
  <1>2. TypeOK /\ TransientHasOwner /\ [Next]_vars => TransientHasOwner'
    <2> SUFFICES ASSUME TypeOK, TransientHasOwner, [Next]_vars
                 PROVE  TransientHasOwner'
      OBVIOUS
    <2>1. CASE Crash
      BY <2>1 DEF Crash, TypeOK, TransientHasOwner, Owns, Busy, rowVars
    <2>4. CASE ProxyStep
      BY <2>4 DEF ProxyStep, LoseProxies, RegisterProxy, TransientHasOwner, Owns, rowVars,
         crashVars
    <2>2. ASSUME NEW t \in Tasks, Request(t) \/ TaskStep(t)
          PROVE  TransientHasOwner'
      BY <2>2, RequestOwner, StepOwner
    <2>3. CASE UNCHANGED vars
      BY <2>3 DEF vars, TransientHasOwner, Owns
    <2> QED
      BY <2>1, <2>2, <2>3, <2>4 DEF Next
  <1> QED
    BY <1>1, <1>2, TypeCorrect, PTL DEF Spec

=============================================================================
