--------------------- MODULE EnvironmentIsolationProofs ---------------------
(***************************************************************************)
(* Theorems about environments on which no two requests overlapped: the    *)
(* inductive invariant Undisturbed of EnvironmentLifecycle, proved one     *)
(* conjunct at a time, and the safety properties it contains.              *)
(***************************************************************************)
EXTENDS EnvironmentLifecycleProofs

\* The three promises the invariant is for.
Safe == RunningIsUp /\ DeletedIsGone /\ BaseOutlivesUncontended

----------------------------------------------------------------------------
(* The environment table.                                                   *)

\* A first step keeps the shape of the environment table: a new environment has
\* no base, and a branch request starts on a live shared environment.
LEMMA ShapeRequest ==
    ASSUME TypeOK, Shape, NEW t \in Tasks, Request(t)
    PROVE  Shape'
  <1> PICK e \in Envs :
        \/ \E k \in Deployable : CreateEnvironment(t, e, k)
        \/ BranchValidate(t, e)
        \/ DeleteLoad(t, e)
        \/ PauseRequest(t, e)
        \/ ResumeRequest(t, e)
        \/ UpdateWorkload(t, e)
        \/ RemoveWorkload(t, e)
        \/ SyncEnvironment(t, e)
        \/ RebaseBranch(t, e)
    BY DEF Request
  <1> USE NoEnvAssumption DEF TypeOK, Shape, BranchesOfShared, TaskOnCreated, At, Busy,
       Begin, rowVars
  <1>1. ASSUME NEW k \in Deployable, CreateEnvironment(t, e, k) PROVE Shape'
    BY <1>1, DeployableAssumption DEF CreateEnvironment
  <1>2. CASE BranchValidate(t, e)
    BY <1>2 DEF BranchValidate
  <1>3. CASE DeleteLoad(t, e)
    BY <1>3 DEF DeleteLoad
  <1>4. CASE PauseRequest(t, e)
    BY <1>4 DEF PauseRequest, PausableFrom
  <1>5. CASE ResumeRequest(t, e)
    BY <1>5 DEF ResumeRequest, ResumableFrom
  <1>6. CASE UpdateWorkload(t, e)
    BY <1>6 DEF UpdateWorkload
  <1>7. CASE RemoveWorkload(t, e)
    BY <1>7 DEF RemoveWorkload
  <1>8. CASE SyncEnvironment(t, e)
    BY <1>8 DEF SyncEnvironment
  <1>9. CASE RebaseBranch(t, e)
    BY <1>9 DEF RebaseBranch
  <1> QED
    BY <1>1, <1>2, <1>3, <1>4, <1>5, <1>6, <1>7, <1>8, <1>9

\* A later step keeps the shape: only a branch insertion gives a base, to an
\* environment nobody knew before, and a deleted row stays created.
LEMMA ShapeStep ==
    ASSUME TypeOK, Shape, NEW t \in Tasks, TaskStep(t)
    PROVE  Shape'
  <1> USE NoEnvAssumption DEF TypeOK, Shape, BranchesOfShared, TaskOnCreated, At, Busy,
       Goto, End, Idle, rowVars
  <1>1. ASSUME NEW x \in Envs, BranchInsert(t, x) PROVE Shape'
    BY <1>1 DEF BranchInsert
  <1>2. CASE CreateWatch(t)
    BY <1>2 DEF CreateWatch
  <1>3. CASE CreateDeploy(t)
    BY <1>3 DEF CreateDeploy, DeployResources
  <1>4. CASE CreateSettle(t)
    BY <1>4 DEF CreateSettle
  <1>5. CASE BranchNotify(t)
    BY <1>5 DEF BranchNotify, AddBranch
  <1>6. CASE BranchFinish(t)
    BY <1>6 DEF BranchFinish
  <1>7. CASE DeleteCheckBranches(t)
    BY <1>7 DEF DeleteCheckBranches
  <1>8. CASE DeleteNotify(t)
    BY <1>8 DEF DeleteNotify, RemoveBranch, RemoveBranchFails
  <1>9. CASE DeleteMark(t)
    BY <1>9 DEF DeleteMark
  <1>10. CASE DeleteNamespace(t)
    BY <1>10 DEF DeleteNamespace
  <1>11. CASE DeleteBranchResources(t)
    BY <1>11 DEF DeleteBranchResources
  <1>12. CASE DeleteRecord(t)
    <2>1. CASE UNCHANGED row
      BY <1>12, <2>1 DEF DeleteRecord
    <2>2. CASE row' = [row EXCEPT ![task[t].env] = "deleted"]
      <3>1. UNCHANGED <<kind, base>>
        BY <1>12 DEF DeleteRecord
      <3>2. \A x \in Envs : row'[x] = "absent" <=> row[x] = "absent"
        BY <1>12, <2>2 DEF DeleteRecord
      <3>3. BranchesOfShared'
        BY <3>1, <3>2
      <3>4. TaskOnCreated'
        BY <1>12, <3>1, <3>2 DEF DeleteRecord
      <3> QED
        BY <3>3, <3>4
    <2> QED
      BY <1>12, <2>1, <2>2 DEF DeleteRecord
  <1>13. CASE DeleteUnwatch(t)
    BY <1>13 DEF DeleteUnwatch
  <1>14. CASE DeleteFail(t)
    BY <1>14 DEF DeleteFail
  <1>15. CASE PauseMark(t)
    BY <1>15 DEF PauseMark
  <1>16. CASE PauseLoad(t)
    BY <1>16 DEF PauseLoad, LoadEnvironment
  <1>17. CASE PauseDeploy(t)
    BY <1>17 DEF PauseDeploy, DeployResources, AfterDeploy
  <1>18. CASE PauseNotify(t)
    BY <1>18 DEF PauseNotify, RemoveBranch, RemoveBranchFails
  <1>19. CASE PauseSettle(t)
    BY <1>19 DEF PauseSettle
  <1>20. CASE ResumeMark(t)
    BY <1>20 DEF ResumeMark
  <1>21. CASE ResumeLoad(t)
    BY <1>21 DEF ResumeLoad, LoadEnvironment
  <1>22. CASE ResumeDeploy(t)
    BY <1>22 DEF ResumeDeploy, DeployResources, AfterDeploy
  <1>23. CASE ResumeNotify(t)
    BY <1>23 DEF ResumeNotify, AddBranch
  <1>24. CASE ResumeSettle(t)
    BY <1>24 DEF ResumeSettle
  <1>25. CASE UpdateOverride(t)
    BY <1>25 DEF UpdateOverride
  <1>26. CASE UpdateDeploy(t)
    BY <1>26 DEF UpdateDeploy
  <1>27. CASE RemoveResources(t)
    BY <1>27 DEF RemoveResources
  <1>28. CASE RemoveRecord(t)
    BY <1>28 DEF RemoveRecord
  <1>29. CASE SyncDeploy(t)
    BY <1>29 DEF SyncDeploy
  <1>30. CASE SyncRecord(t)
    BY <1>30 DEF SyncRecord
  <1>31. CASE RebaseDeploy(t)
    BY <1>31 DEF RebaseDeploy
  <1> QED
    BY <1>1, <1>2, <1>3, <1>4, <1>5, <1>6, <1>7, <1>8, <1>9, <1>10,
       <1>11, <1>12, <1>13, <1>14, <1>15, <1>16, <1>17, <1>18, <1>19, <1>20,
       <1>21, <1>22, <1>23, <1>24, <1>25, <1>26, <1>27, <1>28, <1>29, <1>30,
       <1>31
       DEF TaskStep, CreateStep, BranchStep, DeleteStep, ScaleStep, WorkloadStep

----------------------------------------------------------------------------
(* Overlapping requests.                                                    *)

\* A new request on e and any request in flight it is related to both clash.
LEMMA ClashFacts ==
    ASSUME TypeOK, NEW e \in Envs, NEW u \in Tasks, Busy(u),
           Related(e, task[u].env)
    PROVE  e \in Clash(e) /\ task[u].env \in Clash(e)
  BY DEF Clash

\* Beginning a request records every overlap it causes.
LEMMA OverlapBegin ==
    ASSUME TypeOK, OverlapIsContended, NEW t \in Tasks, NEW e \in Envs,
           NEW o \in Ops, NEW a \in Steps, Begin(t, o, a, e), base' = base
    PROVE  OverlapIsContended'
  <1> SUFFICES ASSUME NEW u \in Tasks, NEW v \in Tasks, u # v, Busy(u)', Busy(v)',
                      Related(task[u].env, task[v].env)'
               PROVE  task'[u].env \in contended'
    BY DEF OverlapIsContended
  <1> USE NoEnvAssumption DEF TypeOK, Begin, Busy, Related
  <1>1. CASE u = t
    <2>1. task'[u].env = e /\ task'[v] = task[v]
      BY <1>1
    <2> QED
      BY <1>1, <2>1, ClashFacts
  <1>2. CASE v = t
    <2>1. task'[v].env = e /\ task'[u] = task[u]
      BY <1>2
    <2> QED
      BY <1>2, <2>1, ClashFacts
  <1>3. CASE u # t /\ v # t
    BY <1>3 DEF OverlapIsContended
  <1> QED
    BY <1>1, <1>2, <1>3

\* A request that begins next to another marks both environments contended.
LEMMA OverlapRequest ==
    ASSUME TypeOK, Undisturbed, NEW t \in Tasks, Request(t)
    PROVE  OverlapIsContended'
  <1> PICK e \in Envs :
        \/ \E k \in Deployable : CreateEnvironment(t, e, k)
        \/ BranchValidate(t, e)
        \/ DeleteLoad(t, e)
        \/ PauseRequest(t, e)
        \/ ResumeRequest(t, e)
        \/ UpdateWorkload(t, e)
        \/ RemoveWorkload(t, e)
        \/ SyncEnvironment(t, e)
        \/ RebaseBranch(t, e)
    BY DEF Request
  <1> USE NoEnvAssumption DEF TypeOK, Undisturbed, Shape, OverlapIsContended, Related,
       Busy, rowVars
  <1>1. ASSUME NEW k \in Deployable, CreateEnvironment(t, e, k) PROVE OverlapIsContended'
    BY <1>1, OverlapBegin DEF CreateEnvironment, Ops, Steps
  <1>2. CASE BranchValidate(t, e)
    BY <1>2, OverlapBegin DEF BranchValidate, rowVars, Ops, Steps
  <1>3. CASE DeleteLoad(t, e)
    BY <1>3, OverlapBegin DEF DeleteLoad, rowVars, Ops, Steps
  <1>4. CASE PauseRequest(t, e)
    BY <1>4, OverlapBegin DEF PauseRequest, rowVars, Ops, Steps
  <1>5. CASE ResumeRequest(t, e)
    BY <1>5, OverlapBegin DEF ResumeRequest, rowVars, Ops, Steps
  <1>6. CASE UpdateWorkload(t, e)
    BY <1>6, OverlapBegin DEF UpdateWorkload, rowVars, Ops, Steps
  <1>7. CASE RemoveWorkload(t, e)
    BY <1>7, OverlapBegin DEF RemoveWorkload, rowVars, Ops, Steps
  <1>8. CASE SyncEnvironment(t, e)
    BY <1>8, OverlapBegin DEF SyncEnvironment, rowVars, Ops, Steps
  <1>9. CASE RebaseBranch(t, e)
    BY <1>9, OverlapBegin DEF RebaseBranch, rowVars, Ops, Steps
  <1> QED
    BY <1>1, <1>2, <1>3, <1>4, <1>5, <1>6, <1>7, <1>8, <1>9

\* A later step brings no new pair of related requests, except that a branch
\* insertion moves its request from the base to the branch.
LEMMA OverlapStep ==
    ASSUME TypeOK, Undisturbed, NEW t \in Tasks, TaskStep(t)
    PROVE  OverlapIsContended'
  <1> USE NoEnvAssumption DEF TypeOK, Undisturbed, Shape, OverlapIsContended, Related,
       Busy, At, Goto, End, Idle, rowVars, BranchesOfShared, TaskOnCreated
  <1>1. ASSUME NEW x \in Envs, BranchInsert(t, x) PROVE OverlapIsContended'
    <2>1. /\ \A u \in Tasks : Busy(u) => task[u].env # x /\ base[task[u].env] # x
          /\ row[task[t].env] # "absent"
      BY <1>1 DEF BranchInsert
    <2> SUFFICES ASSUME NEW u \in Tasks, NEW v \in Tasks, u # v, Busy(u)', Busy(v)',
                        Related(task[u].env, task[v].env)'
                 PROVE  task'[u].env \in contended'
      BY DEF OverlapIsContended
    <2>2. CASE u = t
      BY <1>1, <2>1, <2>2 DEF BranchInsert
    <2>3. CASE v = t
      BY <1>1, <2>1, <2>3 DEF BranchInsert
    <2>4. CASE u # t /\ v # t
      BY <1>1, <2>1, <2>4 DEF BranchInsert
    <2> QED
      BY <2>2, <2>3, <2>4
  <1>2. CASE CreateWatch(t)
    BY <1>2 DEF CreateWatch
  <1>3. CASE CreateDeploy(t)
    BY <1>3 DEF CreateDeploy, DeployResources
  <1>4. CASE CreateSettle(t)
    BY <1>4 DEF CreateSettle
  <1>5. CASE BranchNotify(t)
    BY <1>5 DEF BranchNotify, AddBranch
  <1>6. CASE BranchFinish(t)
    BY <1>6 DEF BranchFinish
  <1>7. CASE DeleteCheckBranches(t)
    BY <1>7 DEF DeleteCheckBranches
  <1>8. CASE DeleteNotify(t)
    BY <1>8 DEF DeleteNotify, RemoveBranch, RemoveBranchFails
  <1>9. CASE DeleteMark(t)
    BY <1>9 DEF DeleteMark
  <1>10. CASE DeleteNamespace(t)
    BY <1>10 DEF DeleteNamespace
  <1>11. CASE DeleteBranchResources(t)
    BY <1>11 DEF DeleteBranchResources
  <1>12. CASE DeleteRecord(t)
    BY <1>12 DEF DeleteRecord
  <1>13. CASE DeleteUnwatch(t)
    BY <1>13 DEF DeleteUnwatch
  <1>14. CASE DeleteFail(t)
    BY <1>14 DEF DeleteFail
  <1>15. CASE PauseMark(t)
    BY <1>15 DEF PauseMark
  <1>16. CASE PauseLoad(t)
    BY <1>16 DEF PauseLoad, LoadEnvironment
  <1>17. CASE PauseDeploy(t)
    BY <1>17 DEF PauseDeploy, DeployResources, AfterDeploy
  <1>18. CASE PauseNotify(t)
    BY <1>18 DEF PauseNotify, RemoveBranch, RemoveBranchFails
  <1>19. CASE PauseSettle(t)
    BY <1>19 DEF PauseSettle
  <1>20. CASE ResumeMark(t)
    BY <1>20 DEF ResumeMark
  <1>21. CASE ResumeLoad(t)
    BY <1>21 DEF ResumeLoad, LoadEnvironment
  <1>22. CASE ResumeDeploy(t)
    BY <1>22 DEF ResumeDeploy, DeployResources, AfterDeploy
  <1>23. CASE ResumeNotify(t)
    BY <1>23 DEF ResumeNotify, AddBranch
  <1>24. CASE ResumeSettle(t)
    BY <1>24 DEF ResumeSettle
  <1>25. CASE UpdateOverride(t)
    BY <1>25 DEF UpdateOverride
  <1>26. CASE UpdateDeploy(t)
    BY <1>26 DEF UpdateDeploy
  <1>27. CASE RemoveResources(t)
    BY <1>27 DEF RemoveResources
  <1>28. CASE RemoveRecord(t)
    BY <1>28 DEF RemoveRecord
  <1>29. CASE SyncDeploy(t)
    BY <1>29 DEF SyncDeploy
  <1>30. CASE SyncRecord(t)
    BY <1>30 DEF SyncRecord
  <1>31. CASE RebaseDeploy(t)
    BY <1>31 DEF RebaseDeploy
  <1> QED
    BY <1>1, <1>2, <1>3, <1>4, <1>5, <1>6, <1>7, <1>8, <1>9, <1>10,
       <1>11, <1>12, <1>13, <1>14, <1>15, <1>16, <1>17, <1>18, <1>19, <1>20,
       <1>21, <1>22, <1>23, <1>24, <1>25, <1>26, <1>27, <1>28, <1>29, <1>30,
       <1>31
       DEF TaskStep, CreateStep, BranchStep, DeleteStep, ScaleStep, WorkloadStep

----------------------------------------------------------------------------
(* What a request that is alone relies on.                                  *)

\* A request that begins alone finds what its check of the row established.
LEMMA SoloRequest ==
    ASSUME TypeOK, Undisturbed, NEW t \in Tasks, Request(t)
    PROVE  SoloTasks'
  <1> PICK e \in Envs :
        \/ \E k \in Deployable : CreateEnvironment(t, e, k)
        \/ BranchValidate(t, e)
        \/ DeleteLoad(t, e)
        \/ PauseRequest(t, e)
        \/ ResumeRequest(t, e)
        \/ UpdateWorkload(t, e)
        \/ RemoveWorkload(t, e)
        \/ SyncEnvironment(t, e)
        \/ RebaseBranch(t, e)
    BY DEF Request
  <1> USE NoEnvAssumption DEF TypeOK, Undisturbed, SoloTasks, SoloTask,
       OverlapIsContended,
          BaseOutlivesUncontended, Shape, BranchesOfShared, TaskOnCreated, NamespaceEmpty,
          HasBranches, Busy, Related, UpdateStatus, Begin, Clash, rowVars,
         clusterVars, proxyVars, clientVars
  <1>1. ASSUME NEW k \in Deployable, CreateEnvironment(t, e, k) PROVE SoloTasks'
    BY SMTT(30), <1>1, DeployableAssumption DEF CreateEnvironment
  <1>2. CASE BranchValidate(t, e)
    BY SMTT(30), <1>2 DEF BranchValidate
  <1>3. CASE DeleteLoad(t, e)
    <2>1. UNCHANGED <<row, kind, base, status, res>>
      BY <1>3 DEF DeleteLoad
    <2>2. CASE kind[e] = "shared" /\ Begin(t, "delete", "branches", e)
      BY SMTT(30), <1>3, <2>1, <2>2 DEF DeleteLoad
    <2>3. CASE kind[e] = "branch" /\ Begin(t, "delete", "notify", e)
      BY SMTT(30), <1>3, <2>1, <2>3 DEF DeleteLoad
    <2>4. CASE kind[e] = "personal" /\ Begin(t, "delete", "mark", e)
      <3>1. ~HasBranches(e)
        BY <2>4
      <3> QED
        BY SMTT(30), <1>3, <2>1, <2>4, <3>1 DEF DeleteLoad
    <2> QED
      BY <1>3, <2>2, <2>3, <2>4 DEF DeleteLoad
  <1>4. CASE PauseRequest(t, e)
    BY SMTT(30), <1>4 DEF PauseRequest, PausableFrom
  <1>5. CASE ResumeRequest(t, e)
    BY SMTT(30), <1>5 DEF ResumeRequest, ResumableFrom
  <1>6. CASE UpdateWorkload(t, e)
    <2>1. UNCHANGED <<row, kind, base, status, res>> /\ row[e] = "live"
      BY <1>6 DEF UpdateWorkload
    <2>2. CASE Begin(t, "update", "deploy", e)
      BY SMTT(30), <2>1, <2>2
    <2>3. CASE Begin(t, "update", "override", e)
      BY SMTT(30), <2>1, <2>3
    <2> QED
      BY <1>6, <2>2, <2>3 DEF UpdateWorkload
  <1>7. CASE RemoveWorkload(t, e)
    <2>1. UNCHANGED <<row, kind, base, status, res>> /\ row[e] = "live"
      BY <1>7 DEF RemoveWorkload
    <2>2. CASE kind[e] = "branch" /\ Begin(t, "remove", "destroy", e)
      BY SMTT(30), <2>1, <2>2
    <2>3. CASE Begin(t, "remove", "record", e)
      BY SMTT(30), <2>1, <2>3
    <2> QED
      BY <1>7, <2>2, <2>3 DEF RemoveWorkload
  <1>8. CASE SyncEnvironment(t, e)
    BY SMTT(30), <1>8 DEF SyncEnvironment
  <1>9. CASE RebaseBranch(t, e)
    BY SMTT(30), <1>9 DEF RebaseBranch
  <1> QED
    BY <1>1, <1>2, <1>3, <1>4, <1>5, <1>6, <1>7, <1>8, <1>9

\* A later step of a request that is alone leaves what its next step relies on,
\* and a step of another request touches no environment that is not contended.
LEMMA SoloStep ==
    ASSUME TypeOK, Undisturbed, NEW t \in Tasks, TaskStep(t)
    PROVE  SoloTasks'
  <1> USE NoEnvAssumption DEF TypeOK, Undisturbed, SoloTasks, SoloTask,
       OverlapIsContended,
          BaseOutlivesUncontended, Shape, BranchesOfShared, TaskOnCreated, NamespaceEmpty,
          HasBranches, Busy, Related, UpdateStatus, At, Goto, End, Idle, rowVars,
          clusterVars, proxyVars, clientVars
  <1>1. ASSUME NEW x \in Envs, BranchInsert(t, x) PROVE SoloTasks'
    BY <1>1 DEF BranchInsert
  <1>2. CASE CreateWatch(t)
    BY <1>2 DEF CreateWatch
  <1>3. CASE CreateDeploy(t)
    <2>1. UNCHANGED <<row, kind, base, status>>
      BY <1>3 DEF CreateDeploy
    <2>2. CASE Goto(t, "finish") /\ res' = [res EXCEPT ![task[t].env] = "up"]
      BY <1>3, <2>1, <2>2 DEF CreateDeploy
    <2>3. CASE Goto(t, "fail") /\ res' \in {res, [res EXCEPT ![task[t].env] = "up"]}
      BY <1>3, <2>1, <2>3 DEF CreateDeploy
    <2> QED
      BY <1>3, <2>2, <2>3 DEF CreateDeploy, DeployResources
  <1>4. CASE CreateSettle(t)
    BY <1>4 DEF CreateSettle
  <1>5. CASE BranchNotify(t)
    BY <1>5 DEF BranchNotify, AddBranch
  <1>6. CASE BranchFinish(t)
    BY <1>6 DEF BranchFinish
  <1>7. CASE DeleteCheckBranches(t)
    BY <1>7 DEF DeleteCheckBranches
  <1>8. CASE DeleteNotify(t)
    <2>1. UNCHANGED <<row, kind, base, status, res>>
      BY <1>8 DEF DeleteNotify, RemoveBranch, RemoveBranchFails
    <2>2. CASE Goto(t, "mark")
      <3>1. task[t].env \notin contended => ~HasBranches(task[t].env)
        BY <1>8 DEF DeleteNotify
      <3> QED
        BY <1>8, <2>1, <2>2, <3>1 DEF DeleteNotify
    <2>3. CASE End(t)
      BY <1>8, <2>1, <2>3 DEF DeleteNotify, RemoveBranch, RemoveBranchFails
    <2> QED
      BY <1>8, <2>2, <2>3 DEF DeleteNotify, RemoveBranch, RemoveBranchFails
  <1>9. CASE DeleteMark(t)
    BY <1>9 DEF DeleteMark
  <1>10. CASE DeleteNamespace(t)
    BY SMTT(30), <1>10 DEF DeleteNamespace
  <1>11. CASE DeleteBranchResources(t)
    BY <1>11 DEF DeleteBranchResources
  <1>12. CASE DeleteRecord(t)
    BY <1>12 DEF DeleteRecord
  <1>13. CASE DeleteUnwatch(t)
    BY <1>13 DEF DeleteUnwatch
  <1>14. CASE DeleteFail(t)
    BY <1>14 DEF DeleteFail
  <1>15. CASE PauseMark(t)
    BY <1>15 DEF PauseMark
  <1>16. CASE PauseLoad(t)
    BY <1>16 DEF PauseLoad, LoadEnvironment
  <1>17. CASE PauseDeploy(t)
    BY <1>17 DEF PauseDeploy, DeployResources, AfterDeploy
  <1>18. CASE PauseNotify(t)
    BY <1>18 DEF PauseNotify, RemoveBranch, RemoveBranchFails
  <1>19. CASE PauseSettle(t)
    BY <1>19 DEF PauseSettle
  <1>20. CASE ResumeMark(t)
    BY <1>20 DEF ResumeMark
  <1>21. CASE ResumeLoad(t)
    BY <1>21 DEF ResumeLoad, LoadEnvironment
  <1>22. CASE ResumeDeploy(t)
    <2>1. UNCHANGED <<row, kind, base, status>> /\ At(t, "resume", "deploy")
      BY <1>22 DEF ResumeDeploy
    <2>2. CASE /\ Goto(t, "finish") \/ Goto(t, "notify")
               /\ res' = [res EXCEPT ![task[t].env] = "up"]
      BY <2>1, <2>2
    <2>3. CASE Goto(t, "fail") /\ res' \in {res, [res EXCEPT ![task[t].env] = "up"]}
      BY <2>1, <2>3
    <2> QED
      BY <1>22, <2>2, <2>3 DEF ResumeDeploy, DeployResources, AfterDeploy
  <1>23. CASE ResumeNotify(t)
    BY <1>23 DEF ResumeNotify, AddBranch
  <1>24. CASE ResumeSettle(t)
    BY <1>24 DEF ResumeSettle
  <1>25. CASE UpdateOverride(t)
    BY <1>25 DEF UpdateOverride
  <1>26. CASE UpdateDeploy(t)
    BY <1>26 DEF UpdateDeploy
  <1>27. CASE RemoveResources(t)
    BY <1>27 DEF RemoveResources
  <1>28. CASE RemoveRecord(t)
    BY <1>28 DEF RemoveRecord
  <1>29. CASE SyncDeploy(t)
    BY <1>29 DEF SyncDeploy
  <1>30. CASE SyncRecord(t)
    BY <1>30 DEF SyncRecord
  <1>31. CASE RebaseDeploy(t)
    BY <1>31 DEF RebaseDeploy
  <1> QED
    BY <1>1, <1>2, <1>3, <1>4, <1>5, <1>6, <1>7, <1>8, <1>9, <1>10,
       <1>11, <1>12, <1>13, <1>14, <1>15, <1>16, <1>17, <1>18, <1>19, <1>20,
       <1>21, <1>22, <1>23, <1>24, <1>25, <1>26, <1>27, <1>28, <1>29, <1>30,
       <1>31
       DEF TaskStep, CreateStep, BranchStep, DeleteStep, ScaleStep, WorkloadStep

\* No request begins on an undisturbed deleted environment or on its branches.
LEMMA QuietRequest ==
    ASSUME TypeOK, Undisturbed, NEW t \in Tasks, Request(t)
    PROVE  DeletedIsQuiet'
  <1> PICK e \in Envs :
        \/ \E k \in Deployable : CreateEnvironment(t, e, k)
        \/ BranchValidate(t, e)
        \/ DeleteLoad(t, e)
        \/ PauseRequest(t, e)
        \/ ResumeRequest(t, e)
        \/ UpdateWorkload(t, e)
        \/ RemoveWorkload(t, e)
        \/ SyncEnvironment(t, e)
        \/ RebaseBranch(t, e)
    BY DEF Request
  <1> USE NoEnvAssumption DEF TypeOK, Undisturbed, DeletedIsQuiet,
          BaseOutlivesUncontended, Shape, BranchesOfShared, Busy, At, Begin, rowVars
  <1>1. ASSUME NEW k \in Deployable, CreateEnvironment(t, e, k) PROVE DeletedIsQuiet'
    BY <1>1, DeployableAssumption DEF CreateEnvironment
  <1>2. CASE BranchValidate(t, e)
    BY <1>2 DEF BranchValidate
  <1>3. CASE DeleteLoad(t, e)
    BY <1>3 DEF DeleteLoad
  <1>4. CASE PauseRequest(t, e)
    BY <1>4 DEF PauseRequest, PausableFrom
  <1>5. CASE ResumeRequest(t, e)
    BY <1>5 DEF ResumeRequest, ResumableFrom
  <1>6. CASE UpdateWorkload(t, e)
    BY <1>6 DEF UpdateWorkload
  <1>7. CASE RemoveWorkload(t, e)
    BY <1>7 DEF RemoveWorkload
  <1>8. CASE SyncEnvironment(t, e)
    BY <1>8 DEF SyncEnvironment
  <1>9. CASE RebaseBranch(t, e)
    BY <1>9 DEF RebaseBranch
  <1> QED
    BY <1>1, <1>2, <1>3, <1>4, <1>5, <1>6, <1>7, <1>8, <1>9

\* A row is deleted by a request that is alone on it, or the environment is
\* contended.
LEMMA QuietStep ==
    ASSUME TypeOK, Undisturbed, NEW t \in Tasks, TaskStep(t)
    PROVE  DeletedIsQuiet'
  <1> USE NoEnvAssumption DEF TypeOK, Undisturbed, DeletedIsQuiet,
          BaseOutlivesUncontended, Shape, BranchesOfShared, Busy, At, OverlapIsContended,
          TaskOnCreated, Related, Goto, End, Idle, rowVars
  <1>1. ASSUME NEW x \in Envs, BranchInsert(t, x) PROVE DeletedIsQuiet'
    BY <1>1 DEF BranchInsert, SoloTasks, SoloTask
  <1>2. CASE CreateWatch(t)
    BY <1>2 DEF CreateWatch
  <1>3. CASE CreateDeploy(t)
    <2>1. Goto(t, "finish") \/ Goto(t, "fail")
      BY <1>3 DEF CreateDeploy, DeployResources
    <2>2. UNCHANGED <<row, kind, base>> /\ At(t, "create", "deploy")
      BY <1>3 DEF CreateDeploy
    <2> QED
      BY <2>1, <2>2
  <1>4. CASE CreateSettle(t)
    BY <1>4 DEF CreateSettle
  <1>5. CASE BranchNotify(t)
    BY <1>5 DEF BranchNotify, AddBranch
  <1>6. CASE BranchFinish(t)
    BY <1>6 DEF BranchFinish
  <1>7. CASE DeleteCheckBranches(t)
    BY <1>7 DEF DeleteCheckBranches
  <1>8. CASE DeleteNotify(t)
    BY <1>8 DEF DeleteNotify, RemoveBranch, RemoveBranchFails
  <1>9. CASE DeleteMark(t)
    BY <1>9 DEF DeleteMark
  <1>10. CASE DeleteNamespace(t)
    BY <1>10 DEF DeleteNamespace
  <1>11. CASE DeleteBranchResources(t)
    BY <1>11 DEF DeleteBranchResources
  <1>12. CASE DeleteRecord(t)
    BY <1>12 DEF DeleteRecord, SoloTasks, SoloTask
  <1>13. CASE DeleteUnwatch(t)
    BY <1>13 DEF DeleteUnwatch
  <1>14. CASE DeleteFail(t)
    BY <1>14 DEF DeleteFail
  <1>15. CASE PauseMark(t)
    BY <1>15 DEF PauseMark
  <1>16. CASE PauseLoad(t)
    BY <1>16 DEF PauseLoad, LoadEnvironment
  <1>17. CASE PauseDeploy(t)
    BY <1>17 DEF PauseDeploy, DeployResources, AfterDeploy
  <1>18. CASE PauseNotify(t)
    BY <1>18 DEF PauseNotify, RemoveBranch, RemoveBranchFails
  <1>19. CASE PauseSettle(t)
    BY <1>19 DEF PauseSettle
  <1>20. CASE ResumeMark(t)
    BY <1>20 DEF ResumeMark
  <1>21. CASE ResumeLoad(t)
    BY <1>21 DEF ResumeLoad, LoadEnvironment
  <1>22. CASE ResumeDeploy(t)
    BY <1>22 DEF ResumeDeploy, DeployResources, AfterDeploy
  <1>23. CASE ResumeNotify(t)
    BY <1>23 DEF ResumeNotify, AddBranch
  <1>24. CASE ResumeSettle(t)
    BY <1>24 DEF ResumeSettle
  <1>25. CASE UpdateOverride(t)
    BY <1>25 DEF UpdateOverride
  <1>26. CASE UpdateDeploy(t)
    BY <1>26 DEF UpdateDeploy
  <1>27. CASE RemoveResources(t)
    BY <1>27 DEF RemoveResources
  <1>28. CASE RemoveRecord(t)
    BY <1>28 DEF RemoveRecord
  <1>29. CASE SyncDeploy(t)
    BY <1>29 DEF SyncDeploy
  <1>30. CASE SyncRecord(t)
    BY <1>30 DEF SyncRecord
  <1>31. CASE RebaseDeploy(t)
    BY <1>31 DEF RebaseDeploy
  <1> QED
    BY <1>1, <1>2, <1>3, <1>4, <1>5, <1>6, <1>7, <1>8, <1>9, <1>10,
       <1>11, <1>12, <1>13, <1>14, <1>15, <1>16, <1>17, <1>18, <1>19, <1>20,
       <1>21, <1>22, <1>23, <1>24, <1>25, <1>26, <1>27, <1>28, <1>29, <1>30,
       <1>31
       DEF TaskStep, CreateStep, BranchStep, DeleteStep, ScaleStep, WorkloadStep

\* A first step neither scales down, deletes nor redeploys anything.
LEMMA SafeRequest ==
    ASSUME TypeOK, Undisturbed, NEW t \in Tasks, Request(t)
    PROVE  Safe'
  <1> PICK e \in Envs :
        \/ \E k \in Deployable : CreateEnvironment(t, e, k)
        \/ BranchValidate(t, e)
        \/ DeleteLoad(t, e)
        \/ PauseRequest(t, e)
        \/ ResumeRequest(t, e)
        \/ UpdateWorkload(t, e)
        \/ RemoveWorkload(t, e)
        \/ SyncEnvironment(t, e)
        \/ RebaseBranch(t, e)
    BY DEF Request
  <1> USE NoEnvAssumption DEF TypeOK, Undisturbed, Safe, RunningIsUp, DeletedIsGone,
          BaseOutlivesUncontended, Shape, BranchesOfShared, Busy, UpdateStatus, Begin,
          rowVars, clusterVars, proxyVars, clientVars
  <1>1. ASSUME NEW k \in Deployable, CreateEnvironment(t, e, k) PROVE Safe'
    BY <1>1, DeployableAssumption DEF CreateEnvironment
  <1>2. CASE BranchValidate(t, e)
    BY <1>2 DEF BranchValidate
  <1>3. CASE DeleteLoad(t, e)
    BY <1>3 DEF DeleteLoad
  <1>4. CASE PauseRequest(t, e)
    BY <1>4 DEF PauseRequest, PausableFrom
  <1>5. CASE ResumeRequest(t, e)
    BY <1>5 DEF ResumeRequest, ResumableFrom
  <1>6. CASE UpdateWorkload(t, e)
    BY <1>6 DEF UpdateWorkload
  <1>7. CASE RemoveWorkload(t, e)
    BY <1>7 DEF RemoveWorkload
  <1>8. CASE SyncEnvironment(t, e)
    BY <1>8 DEF SyncEnvironment
  <1>9. CASE RebaseBranch(t, e)
    BY <1>9 DEF RebaseBranch
  <1> QED
    BY <1>1, <1>2, <1>3, <1>4, <1>5, <1>6, <1>7, <1>8, <1>9

\* A later step keeps the three promises: Running is written after the workloads
\* are up, the row is deleted after the namespace and without live branches.
LEMMA SafeStep ==
    ASSUME TypeOK, Undisturbed, NEW t \in Tasks, TaskStep(t)
    PROVE  Safe'
  <1> USE NoEnvAssumption DEF TypeOK, Undisturbed, Safe, RunningIsUp, DeletedIsGone,
          BaseOutlivesUncontended, Shape, BranchesOfShared, Busy, UpdateStatus, At,
          SoloTasks, SoloTask, DeletedIsQuiet,
          HasBranches, NamespaceEmpty, TaskOnCreated, Goto, End, Idle, rowVars,
         clusterVars, proxyVars, clientVars
  <1>1. ASSUME NEW x \in Envs, BranchInsert(t, x) PROVE Safe'
    BY <1>1 DEF BranchInsert
  <1>2. CASE CreateWatch(t)
    BY <1>2 DEF CreateWatch
  <1>3. CASE CreateDeploy(t)
    BY <1>3 DEF CreateDeploy, DeployResources
  <1>4. CASE CreateSettle(t)
    BY <1>4 DEF CreateSettle
  <1>5. CASE BranchNotify(t)
    BY <1>5 DEF BranchNotify, AddBranch
  <1>6. CASE BranchFinish(t)
    BY <1>6 DEF BranchFinish
  <1>7. CASE DeleteCheckBranches(t)
    BY <1>7 DEF DeleteCheckBranches
  <1>8. CASE DeleteNotify(t)
    BY <1>8 DEF DeleteNotify, RemoveBranch, RemoveBranchFails
  <1>9. CASE DeleteMark(t)
    BY <1>9 DEF DeleteMark
  <1>10. CASE DeleteNamespace(t)
    BY <1>10 DEF DeleteNamespace
  <1>11. CASE DeleteBranchResources(t)
    BY <1>11 DEF DeleteBranchResources
  <1>12. CASE DeleteRecord(t)
    BY <1>12 DEF DeleteRecord
  <1>13. CASE DeleteUnwatch(t)
    BY <1>13 DEF DeleteUnwatch
  <1>14. CASE DeleteFail(t)
    BY <1>14 DEF DeleteFail
  <1>15. CASE PauseMark(t)
    BY <1>15 DEF PauseMark
  <1>16. CASE PauseLoad(t)
    BY <1>16 DEF PauseLoad, LoadEnvironment
  <1>17. CASE PauseDeploy(t)
    BY <1>17 DEF PauseDeploy, DeployResources, AfterDeploy
  <1>18. CASE PauseNotify(t)
    BY <1>18 DEF PauseNotify, RemoveBranch, RemoveBranchFails
  <1>19. CASE PauseSettle(t)
    BY <1>19 DEF PauseSettle
  <1>20. CASE ResumeMark(t)
    BY <1>20 DEF ResumeMark
  <1>21. CASE ResumeLoad(t)
    BY <1>21 DEF ResumeLoad, LoadEnvironment
  <1>22. CASE ResumeDeploy(t)
    BY <1>22 DEF ResumeDeploy, DeployResources, AfterDeploy
  <1>23. CASE ResumeNotify(t)
    BY <1>23 DEF ResumeNotify, AddBranch
  <1>24. CASE ResumeSettle(t)
    BY <1>24 DEF ResumeSettle
  <1>25. CASE UpdateOverride(t)
    BY <1>25 DEF UpdateOverride
  <1>26. CASE UpdateDeploy(t)
    BY <1>26 DEF UpdateDeploy
  <1>27. CASE RemoveResources(t)
    BY <1>27 DEF RemoveResources
  <1>28. CASE RemoveRecord(t)
    BY <1>28 DEF RemoveRecord
  <1>29. CASE SyncDeploy(t)
    BY <1>29 DEF SyncDeploy
  <1>30. CASE SyncRecord(t)
    BY <1>30 DEF SyncRecord
  <1>31. CASE RebaseDeploy(t)
    BY <1>31 DEF RebaseDeploy
  <1> QED
    BY <1>1, <1>2, <1>3, <1>4, <1>5, <1>6, <1>7, <1>8, <1>9, <1>10,
       <1>11, <1>12, <1>13, <1>14, <1>15, <1>16, <1>17, <1>18, <1>19, <1>20,
       <1>21, <1>22, <1>23, <1>24, <1>25, <1>26, <1>27, <1>28, <1>29, <1>30,
       <1>31
       DEF TaskStep, CreateStep, BranchStep, DeleteStep, ScaleStep, WorkloadStep

----------------------------------------------------------------------------
(* The theorems.                                                            *)

\* The devbox-proxies come and go without a change of rows, tasks or workloads.
LEMMA ProxyStepFrame ==
    ASSUME ProxyStep
    PROVE  UNCHANGED <<rowVars, status, stored, res, watched, task, contended>>
  BY DEF ProxyStep, LoseProxies, RegisterProxy

\* The inductive invariant: whatever happens elsewhere, an environment on which
\* no two requests overlapped is only ever in the states its own request left.
THEOREM UndisturbedInvariant == Spec => []Undisturbed
  <1>1. Init => Undisturbed
    BY NoEnvAssumption DEF Init, Idle, Undisturbed, Shape, BranchesOfShared,
         TaskOnCreated, OverlapIsContended,
         SoloTasks, SoloTask, DeletedIsQuiet, RunningIsUp, DeletedIsGone,
         BaseOutlivesUncontended, NamespaceEmpty, HasBranches, Related, Busy, At
  <1>2. TypeOK /\ Undisturbed /\ [Next]_vars => Undisturbed'
    <2> SUFFICES ASSUME TypeOK, Undisturbed, [Next]_vars PROVE Undisturbed'
      OBVIOUS
    <2>1. CASE Crash
      BY <2>1 DEF Crash, Idle, rowVars,
         clusterVars, proxyVars, clientVars, Undisturbed, Shape,
           BranchesOfShared, TaskOnCreated, OverlapIsContended,
         SoloTasks, SoloTask, DeletedIsQuiet, RunningIsUp, DeletedIsGone,
         BaseOutlivesUncontended, NamespaceEmpty, HasBranches, Related, Busy, At
    <2>4. CASE ProxyStep
      BY <2>4, ProxyStepFrame DEF rowVars, Undisturbed, Shape,
           BranchesOfShared, TaskOnCreated, OverlapIsContended,
         SoloTasks, SoloTask, DeletedIsQuiet, RunningIsUp, DeletedIsGone,
         BaseOutlivesUncontended, NamespaceEmpty, HasBranches, Related, Busy, At
    <2>2. ASSUME NEW t \in Tasks, Request(t) \/ TaskStep(t) PROVE Undisturbed'
      <3>1. Shape
        BY DEF Undisturbed
      <3>2. Shape'
        BY <2>2, <3>1, ShapeRequest, ShapeStep
      <3>3. OverlapIsContended'
        BY <2>2, OverlapRequest, OverlapStep
      <3>4. SoloTasks'
        BY <2>2, SoloRequest, SoloStep
      <3>5. DeletedIsQuiet'
        BY <2>2, QuietRequest, QuietStep
      <3>6. Safe'
        BY <2>2, SafeRequest, SafeStep
      <3> QED
        BY <3>2, <3>3, <3>4, <3>5, <3>6 DEF Undisturbed, Safe
    <2>3. CASE UNCHANGED vars
      BY <2>3 DEF vars, Undisturbed, Shape, BranchesOfShared, TaskOnCreated,
           OverlapIsContended,
         SoloTasks, SoloTask, DeletedIsQuiet, RunningIsUp, DeletedIsGone,
         BaseOutlivesUncontended, NamespaceEmpty, HasBranches, Related, Busy, At
    <2> QED
      BY <2>1, <2>2, <2>3, <2>4 DEF Next
  <1> QED
    BY <1>1, <1>2, TypeCorrect, PTL DEF Spec

\* A shared or personal environment that reports Running has its workloads up,
\* if no two requests ever overlapped on it.
THEOREM RunningWorkloadsUp == Spec => []RunningIsUp
  <1>1. Undisturbed => RunningIsUp
    BY DEF Undisturbed
  <1> QED
    BY <1>1, UndisturbedInvariant, PTL

\* A deleted shared or personal environment has left nothing in its namespace,
\* if no two requests ever overlapped on it.
THEOREM DeletedNamespaceGone == Spec => []DeletedIsGone
  <1>1. Undisturbed => DeletedIsGone
    BY DEF Undisturbed
  <1> QED
    BY <1>1, UndisturbedInvariant, PTL

\* A live branch has a live base, if no two requests ever overlapped on the base.
THEOREM BaseOutlives == Spec => []BaseOutlivesUncontended
  <1>1. Undisturbed => BaseOutlivesUncontended
    BY DEF Undisturbed
  <1> QED
    BY <1>1, UndisturbedInvariant, PTL

\* Only the last writes of a task and the first one of a deletion, pause, resume
\* or branch creation touch a status.
LEMMA StatusWriters ==
    ASSUME NEW t \in Tasks, TaskStep(t), status' # status
    PROVE  \/ CreateSettle(t) \/ BranchFinish(t) \/ DeleteMark(t) \/ DeleteFail(t)
           \/ PauseMark(t) \/ PauseSettle(t) \/ ResumeMark(t) \/ ResumeSettle(t)
           \/ \E x \in Envs : BranchInsert(t, x)
  BY DEF TaskStep, CreateStep, BranchStep, DeleteStep, ScaleStep, WorkloadStep,
         CreateWatch, CreateDeploy, BranchNotify, DeleteCheckBranches, DeleteNotify,
         DeleteNamespace, DeleteBranchResources, DeleteRecord, DeleteUnwatch,
         PauseLoad, LoadEnvironment, PauseDeploy, PauseNotify, ResumeLoad,
         ResumeDeploy, ResumeNotify, UpdateOverride, UpdateDeploy, RemoveResources,
         RemoveRecord, SyncDeploy, SyncRecord, RebaseDeploy

\* A deletion that has begun is not undone by the status writes of earlier
\* requests, if none overlaps with it on its environment.
THEOREM DeletionFinal == Spec => DeletingIsFinal
  <1> DEFINE Final(e) == /\ e \notin contended'
                         /\ row[e] = "live" /\ status[e] = "Deleting"
                         => status'[e] \in {"Deleting", "Error"}
  <1>1. TypeOK /\ Undisturbed /\ [Next]_vars => [\A e \in Envs : Final(e)]_vars
    <2> SUFFICES ASSUME TypeOK, Undisturbed, Next, NEW e \in Envs,
                        e \notin contended', row[e] = "live", status[e] = "Deleting",
                        status' # status
                 PROVE  status'[e] \in {"Deleting", "Error"}
      OBVIOUS
    <2>1. ~Crash /\ ~ProxyStep
      BY ProxyStepFrame DEF Crash
    <2>2. PICK t \in Tasks : Request(t) \/ TaskStep(t)
      BY <2>1 DEF Next
    <2>3. CASE Request(t)
      BY <2>3 DEF Request, CreateEnvironment, BranchValidate, DeleteLoad, PauseRequest,
         ResumeRequest, UpdateWorkload, RemoveWorkload, SyncEnvironment, RebaseBranch,
         UpdateStatus, TypeOK
    <2>4. CASE TaskStep(t)
      <3> USE DEF At, Busy, UpdateStatus, TypeOK, Undisturbed, SoloTasks, SoloTask,
                  PausableFrom, ResumableFrom, End, Goto
      <3>1. ASSUME NEW x \in Envs, BranchInsert(t, x) PROVE status'[e] = "Deleting"
        BY <3>1 DEF BranchInsert
      <3>2. CASE CreateSettle(t)
        BY <3>2 DEF CreateSettle
      <3>3. CASE BranchFinish(t)
        BY <3>3 DEF BranchFinish
      <3>4. CASE DeleteMark(t)
        BY <3>4 DEF DeleteMark
      <3>5. CASE DeleteFail(t)
        BY <3>5 DEF DeleteFail
      <3>6. CASE PauseMark(t) \/ ResumeMark(t)
        BY <3>6 DEF PauseMark, ResumeMark
      <3>7. CASE PauseSettle(t) \/ ResumeSettle(t)
        BY <3>7 DEF PauseSettle, ResumeSettle
      <3> QED
        BY <2>4, <3>1, <3>2, <3>3, <3>4, <3>5, <3>6, <3>7, StatusWriters
    <2> QED
      BY <2>2, <2>3, <2>4
  <1> QED
    BY <1>1, TypeCorrect, UndisturbedInvariant, PTL DEF Spec, DeletingIsFinal

----------------------------------------------------------------------------
(* The devbox-proxy and deleted branches.                                   *)

\* The proxy is only told of branches, which keep their kind; a deletion counts
\* branches only of a shared environment.
NotifiedIsBranch ==
    /\ \A e \in proxied : row[e] # "absent" /\ kind[e] = "branch"
    /\ \A t \in Tasks :
          /\ At(t, "branch", "notify") \/ At(t, "resume", "notify")
                 => kind[task[t].env] = "branch"
          /\ At(t, "delete", "branches") => kind[task[t].env] = "shared"

\* A deletion alone on its environment that is past the notification has made
\* the proxy forget the environment, unless kube-manager had lost the proxy.
ForgottenFirst ==
    \A t \in Tasks :
        /\ Busy(t) /\ task[t].op = "delete"
        /\ task[t].at \notin {"branches", "notify"}
        /\ task[t].env \notin contended \cup cutOff
        => task[t].env \notin proxied

\* What a proxy knows kube-manager can make it forget, unless it lost the proxy.
KnownIsReachable == \A e \in proxied : Reachable(e) \/ e \in cutOff

Forgotten ==
    NotifiedIsBranch /\ ForgottenFirst /\ KnownIsReachable /\ DeletedIsNotProxied

\* A first step tells the proxy nothing, and a deletion that skips the
\* notification is of an environment the proxy never heard of.
LEMMA ForgottenRequest ==
    ASSUME TypeOK, Undisturbed, Forgotten, NEW t \in Tasks, Request(t)
    PROVE  Forgotten'
  <1> PICK e \in Envs :
        \/ \E k \in Deployable : CreateEnvironment(t, e, k)
        \/ BranchValidate(t, e)
        \/ DeleteLoad(t, e)
        \/ PauseRequest(t, e)
        \/ ResumeRequest(t, e)
        \/ UpdateWorkload(t, e)
        \/ RemoveWorkload(t, e)
        \/ SyncEnvironment(t, e)
        \/ RebaseBranch(t, e)
    BY DEF Request
  <1> USE NoEnvAssumption DEF TypeOK, Forgotten, NotifiedIsBranch, ForgottenFirst,
       KnownIsReachable, Reachable, DeletedIsNotProxied, Undisturbed, Shape,
       TaskOnCreated, At, Busy, Begin,
       rowVars, clusterVars, proxyVars, clientVars
  <1>1. ASSUME NEW k \in Deployable, CreateEnvironment(t, e, k) PROVE Forgotten'
    BY <1>1 DEF CreateEnvironment
  <1>2. CASE BranchValidate(t, e)
    BY <1>2 DEF BranchValidate
  <1>3. CASE DeleteLoad(t, e)
    BY <1>3 DEF DeleteLoad
  <1>4. CASE PauseRequest(t, e)
    BY <1>4 DEF PauseRequest
  <1>5. CASE ResumeRequest(t, e)
    BY <1>5 DEF ResumeRequest
  <1>6. CASE UpdateWorkload(t, e)
    BY <1>6 DEF UpdateWorkload
  <1>7. CASE RemoveWorkload(t, e)
    BY <1>7 DEF RemoveWorkload
  <1>8. CASE SyncEnvironment(t, e)
    BY <1>8 DEF SyncEnvironment
  <1>9. CASE RebaseBranch(t, e)
    BY <1>9 DEF RebaseBranch
  <1> QED
    BY <1>1, <1>2, <1>3, <1>4, <1>5, <1>6, <1>7, <1>8, <1>9

\* A later step adds a branch to the proxy only while its own request keeps the
\* row live, and deletes the row only after the proxy has forgotten the branch.
LEMMA ForgottenStep ==
    ASSUME TypeOK, Undisturbed, Forgotten, NEW t \in Tasks, TaskStep(t)
    PROVE  Forgotten'
  <1> USE NoEnvAssumption DEF TypeOK, Forgotten, NotifiedIsBranch, ForgottenFirst,
       KnownIsReachable, Reachable, DeletedIsNotProxied, Undisturbed, Shape,
       TaskOnCreated, At, Busy, Goto, End,
       Idle, rowVars, clusterVars, proxyVars, clientVars
  <1>1. ASSUME NEW x \in Envs, BranchInsert(t, x) PROVE Forgotten'
    BY <1>1 DEF BranchInsert
  <1>2. CASE CreateStep(t)
    BY SMTT(30), <1>2 DEF CreateStep, CreateWatch, CreateDeploy, CreateSettle, DeployResources
  <1>3. CASE BranchNotify(t)
    BY <1>3 DEF BranchNotify, AddBranch, SoloTasks, SoloTask, OverlapIsContended, Related
  <1>4. CASE BranchFinish(t)
    BY <1>4 DEF BranchFinish
  <1>5. CASE DeleteCheckBranches(t)
    BY <1>5 DEF DeleteCheckBranches
  <1>6. CASE DeleteNotify(t)
    BY <1>6 DEF DeleteNotify, RemoveBranch, RemoveBranchFails
  <1>7. CASE DeleteMark(t) \/ DeleteFail(t) \/ DeleteUnwatch(t)
    BY <1>7 DEF DeleteMark, DeleteFail, DeleteUnwatch
  <1>8. CASE DeleteNamespace(t) \/ DeleteBranchResources(t)
    BY <1>8 DEF DeleteNamespace, DeleteBranchResources
  <1>9. CASE DeleteRecord(t)
    <2>1. UNCHANGED <<kind, base, proxied, devbox_proxies, cutOff, contended>>
      BY <1>9 DEF DeleteRecord
    <2>2. task[t].env \in contended \cup cutOff \/ task[t].env \notin proxied
      BY <1>9 DEF DeleteRecord
    <2>3. \A x \in Envs : row[x] # "absent" => row'[x] # "absent"
      BY <1>9 DEF DeleteRecord
    <2>4. NotifiedIsBranch'
      <3>1. \A u \in Tasks : task'[u] # task[u] => u = t
        BY <1>9 DEF DeleteRecord
      <3>2. task'[t].at \notin {"branches", "notify"}
        BY <1>9 DEF DeleteRecord
      <3> QED
        BY <2>1, <2>3, <3>1, <3>2
    <2>5. ForgottenFirst'
      <3>1. \A u \in Tasks : task'[u] # task[u] => u = t
        BY <1>9 DEF DeleteRecord
      <3>2. Busy(t)' => task'[t].env = task[t].env
        BY <1>9 DEF DeleteRecord
      <3> QED
        BY <2>1, <2>2, <3>1, <3>2
    <2>6. DeletedIsNotProxied'
      <3>1. \A x \in Envs : row'[x] # row[x] => x = task[t].env
        BY <1>9 DEF DeleteRecord
      <3> QED
        BY <2>1, <2>2, <3>1
    <2>7. KnownIsReachable'
      BY <2>1
    <2> QED
      BY <2>4, <2>5, <2>6, <2>7
  <1>10. CASE PauseNotify(t)
    BY <1>10 DEF PauseNotify, RemoveBranch, RemoveBranchFails
  <1>11. CASE PauseMark(t) \/ PauseLoad(t) \/ PauseDeploy(t) \/ PauseSettle(t)
    BY <1>11 DEF PauseMark, PauseLoad, LoadEnvironment, PauseDeploy, DeployResources,
       AfterDeploy, PauseSettle
  <1>12. CASE ResumeDeploy(t)
    <2>1. UNCHANGED <<row, kind, base, proxied, devbox_proxies, cutOff, contended>>
      BY <1>12 DEF ResumeDeploy, DeployResources
    <2>2. Goto(t, "fail") \/ Goto(t, AfterDeploy(task[t].env))
      BY <1>12 DEF ResumeDeploy, DeployResources
    <2>3. task[t].op = "resume"
      BY <1>12 DEF ResumeDeploy
    <2>4. CASE Goto(t, "fail")
      BY <2>1, <2>3, <2>4
    <2>5. CASE Goto(t, AfterDeploy(task[t].env))
      <3>1. AfterDeploy(task[t].env) = "notify" => kind[task[t].env] = "branch"
        BY DEF AfterDeploy
      <3> QED
        BY <2>1, <2>3, <2>5, <3>1
    <2> QED
      BY <2>2, <2>4, <2>5
  <1>13. CASE ResumeNotify(t)
    BY <1>13 DEF ResumeNotify, AddBranch, SoloTasks, SoloTask, OverlapIsContended, Related
  <1>14. CASE ResumeMark(t) \/ ResumeLoad(t) \/ ResumeSettle(t)
    <2>1. UNCHANGED <<row, kind, base, proxied, devbox_proxies, cutOff, contended>>
      BY <1>14 DEF ResumeMark, ResumeLoad, LoadEnvironment, ResumeSettle
    <2>2. task[t].op = "resume"
      BY <1>14 DEF ResumeMark, ResumeLoad, ResumeSettle
    <2>3. \/ Goto(t, "load") \/ Goto(t, "deploy") \/ Goto(t, "fail") \/ End(t)
      BY <1>14 DEF ResumeMark, ResumeLoad, LoadEnvironment, ResumeSettle
    <2> QED
      BY <2>1, <2>2, <2>3
  <1>15. CASE WorkloadStep(t)
    BY SMTT(30), <1>15 DEF WorkloadStep, UpdateOverride, UpdateDeploy, RemoveResources,
       RemoveRecord, SyncDeploy, SyncRecord, RebaseDeploy
  <1> QED
    BY <1>1, <1>2, <1>3, <1>4, <1>5, <1>6, <1>7, <1>8, <1>9, <1>10,
       <1>11, <1>12, <1>13, <1>14, <1>15
       DEF TaskStep, BranchStep, DeleteStep, ScaleStep

\* A proxy that registers knows no more than before, and what it knows is
\* reachable; a branch that a lost proxy knows is marked.
LEMMA ForgottenProxy ==
    ASSUME TypeOK, Undisturbed, Forgotten, ProxyStep
    PROVE  Forgotten'
  <1> USE DEF TypeOK, Forgotten, NotifiedIsBranch, ForgottenFirst, KnownIsReachable,
       Reachable, DeletedIsNotProxied, At, Busy, rowVars
  <1>1. CASE LoseProxies
    BY <1>1 DEF LoseProxies
  <1>2. ASSUME NEW b \in Envs, RegisterProxy(b) PROVE Forgotten'
    BY <1>2 DEF RegisterProxy
  <1> QED
    BY <1>1, <1>2 DEF ProxyStep

\* A devbox-proxy knows a deleted branch, if no two requests ever overlapped on
\* it, only where kube-manager lost the client of the proxy: the row is deleted
\* after the proxy has forgotten the branch, and only the branch's own requests,
\* which need the live row, tell the proxy of it.
THEOREM DeletedForgotten == Spec => []DeletedIsNotProxied
  <1>1. Init => Forgotten
    BY DEF Init, Idle, Forgotten, NotifiedIsBranch, ForgottenFirst,
         KnownIsReachable, DeletedIsNotProxied, Busy, At
  <1>2. TypeOK /\ Undisturbed /\ Forgotten /\ [Next]_vars => Forgotten'
    <2> SUFFICES ASSUME TypeOK, Undisturbed, Forgotten, [Next]_vars PROVE Forgotten'
      OBVIOUS
    <2>1. CASE Crash
      BY <2>1 DEF Crash, Idle, rowVars,
         clusterVars, proxyVars, clientVars, Forgotten, NotifiedIsBranch,
         ForgottenFirst, KnownIsReachable, Reachable, DeletedIsNotProxied, Busy, At
    <2>2. ASSUME NEW t \in Tasks, Request(t) \/ TaskStep(t) PROVE Forgotten'
      BY <2>2, ForgottenRequest, ForgottenStep
    <2>4. CASE ProxyStep
      BY <2>4, ForgottenProxy
    <2>3. CASE UNCHANGED vars
      BY <2>3 DEF vars, Forgotten, NotifiedIsBranch, ForgottenFirst,
         KnownIsReachable, Reachable, DeletedIsNotProxied, Busy, At
    <2> QED
      BY <2>1, <2>2, <2>3, <2>4 DEF Next
  <1>3. Forgotten => DeletedIsNotProxied
    BY DEF Forgotten
  <1> QED
    BY <1>1, <1>2, <1>3, TypeCorrect, UndisturbedInvariant, PTL DEF Spec

=============================================================================
