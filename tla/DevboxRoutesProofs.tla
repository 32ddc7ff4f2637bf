------------------------- MODULE DevboxRoutesProofs -------------------------
(***************************************************************************)
(* Theorems about DevboxRoutes, for every number of branches, tasks,       *)
(* connections, operations and faults.                                     *)
(***************************************************************************)
EXTENDS DevboxRoutes, TLAPS

----------------------------------------------------------------------------
(* Type correctness.                                                        *)

\* A task for a branch names it, and a route that is about to be sent to the sidecar
\* is that of a branch.
WellFormed(j) ==
    /\ j.op = "idle" => j.stage = "idle"
    /\ j.stage = "build" => j.op \in {"push", "upsert"}
    /\ j.op \in DevboxOps \cup {"upsert", "drop", "replay"} => j.branch \in Branches
    /\ j.op \in DevboxOps \cup {"replay"} /\ j.routes # {} /\ j.stage \in {"pick", "call"}
         => j.on \in Branches

JobsOK ==
    /\ job \in [Callers -> Jobs]
    /\ \A x \in Callers : WellFormed(job[x])
    /\ \A k \in Conns : job[k].op \in {"idle", "list", "replay"}

MetOK == met \subseteq Callers /\ \A x \in met : job[x].op \in DevboxOps

TypeInv == TypeOK /\ JobsOK /\ MetOK

\* A task of the API is not a registration.
LEMMA CallersFact ==
    /\ \A t \in Tasks : t \in Callers /\ t \notin Conns
    /\ Conns \subseteq Callers
  BY BoundsAssumption DEF Callers, Tasks, Conns

\* An idle caller is well formed.
LEMMA IdleFact == Idle \in Jobs /\ WellFormed(Idle) /\ Idle.op = "idle" /\ Idle.keys = {}
  BY DEF Idle, Jobs, WellFormed, None, DevboxOps

\* Giving a caller a well-formed job keeps the jobs well formed.
LEMMA JobChange ==
    ASSUME JobsOK, NEW x \in Callers, NEW j \in Jobs, WellFormed(j),
           x \in Conns => j.op \in {"idle", "list", "replay"},
           job' = [job EXCEPT ![x] = j]
    PROVE  JobsOK'
<1>1. job' \in [Callers -> Jobs]
  BY DEF JobsOK
<1>2. \A y \in Callers : job'[y] = IF y = x THEN j ELSE job[y]
  BY DEF JobsOK
<1>3. \A y \in Callers : WellFormed(job'[y])
  BY <1>2 DEF JobsOK
<1>4. \A k \in Conns : job'[k].op \in {"idle", "list", "replay"}
  BY <1>2, CallersFact DEF JobsOK
<1> QED
  BY <1>1, <1>3, <1>4 DEF JobsOK, WellFormed

\* Removing a caller from met when its job changes.
LEMMA MetDrop ==
    ASSUME JobsOK, MetOK, NEW x \in Callers, NEW j \in Jobs,
           job' = [job EXCEPT ![x] = j], met' = met \ {x}
    PROVE  MetOK'
  BY DEF MetOK, JobsOK

\* A caller that was never met changes its job; or one that keeps its operation.
LEMMA MetKeep ==
    ASSUME JobsOK, MetOK, NEW x \in Callers, NEW j \in Jobs,
           x \notin met \/ j.op = job[x].op,
           job' = [job EXCEPT ![x] = j], met' = met
    PROVE  MetOK'
  BY DEF MetOK, JobsOK

\* What the end of a call leaves is typed.
LEMMA EndType ==
    ASSUME TypeInv, NEW x \in Callers, NEW ok \in BOOLEAN, End(x, ok)
    PROVE  /\ JobsOK' /\ MetOK' /\ branched' \subseteq Branches
           /\ conn' \in [Conns -> {"new", "open", "inserted", "listing", "replay",
                                   "served", "failed", "gone", "leaked"}]
<1>1. JobsOK'
  BY JobChange, IdleFact DEF End, TypeInv
<1>2. MetOK'
  BY MetDrop, IdleFact DEF End, TypeInv
<1> QED
  BY <1>1, <1>2 DEF End, TypeInv, TypeOK

\* Spawning a task keeps the jobs well formed.
LEMMA SpawnType ==
    ASSUME TypeInv, NEW op \in DevboxOps \cup {"upsert", "drop"}, NEW b \in Branches,
           Spawn(op, b)
    PROVE  JobsOK' /\ MetOK'
<1> DEFINE j == [Idle EXCEPT !.op = op, !.branch = b, !.stage = First(op)]
           others == {x \in Tasks : job[x].branch = b /\ job[x].op \in DevboxOps}
<1>1. PICK t \in Tasks :
        /\ job[t] = Idle
        /\ job' = [job EXCEPT ![t] = j]
        /\ met' = IF op \in DevboxOps /\ others \cup Registering # {}
                  THEN met \cup others \cup {t} ELSE met
  BY DEF Spawn
<1>2. j \in Jobs /\ j.op = op /\ j.branch = b /\ j.stage = First(op) /\ j.routes = {}
  BY DEF Idle, Jobs, First, None, DevboxOps, RouteOps
<1>3. WellFormed(j)
  BY <1>2 DEF WellFormed, DevboxOps, First
<1> HIDE DEF j, others
<1>4. JobsOK'
  BY <1>1, <1>2, <1>3, CallersFact, JobChange DEF TypeInv
<1>5. \A y \in Callers : job'[y] = IF y = t THEN j ELSE job[y]
  BY <1>1, <1>2, CallersFact DEF TypeInv, JobsOK
<1>6. others \subseteq Callers /\ \A x \in others : job[x].op \in DevboxOps
  BY CallersFact DEF others
<1>7. t \notin met /\ t \notin others
  BY <1>1, <1>6, IdleFact DEF TypeInv, MetOK, DevboxOps
<1>8. MetOK'
  BY <1>1, <1>2, <1>5, <1>6, <1>7, CallersFact DEF TypeInv, MetOK
<1> QED
  BY <1>4, <1>8

\* Doubting branches keeps the types.
LEMMA DoubtType ==
    ASSUME TypeInv, NEW B \in SUBSET Branches, Doubt(B)
    PROVE  /\ unsure' \subseteq Branches /\ met' \subseteq Callers
           /\ \A x \in met' : job[x].op \in DevboxOps
  BY DEF Doubt, TypeInv, TypeOK, MetOK

\* A caller that takes its next step keeps its operation.
LEMMA MetDoubt ==
    ASSUME JobsOK, NEW x \in Callers, NEW j \in Jobs, j.op = job[x].op,
           job' = [job EXCEPT ![x] = j],
           met' \subseteq Callers, \A y \in met' : job[y].op \in DevboxOps
    PROVE  MetOK'
  BY DEF MetOK, JobsOK

\* Some, Failed and Known stay within the branches.
LEMMA BranchFacts ==
    ASSUME TypeInv
    PROVE  /\ \A b \in Branches \cup {NoBranch} : Some(b) \subseteq Branches
           /\ \A x \in Callers : Failed(x) \subseteq Branches
           /\ \A x \in met : job[x].branch \in Branches
           /\ \A x \in Callers : job[x].op \in DevboxOps => job[x].branch \in Branches
  BY DEF Some, Failed, TypeInv, MetOK, JobsOK, WellFormed, Jobs

\* What Known leaves unsure are branches.
LEMMA KnownType ==
    ASSUME TypeInv, NEW x \in Callers, NEW d \in BOOLEAN, Known(x, d)
    PROVE  unsure' \subseteq Branches
  BY BranchFacts DEF Known, TypeInv, TypeOK

\* Operations and faults are counted within their bounds.
LEMMA OpType == ASSUME TypeOK, Op PROVE ops' \in 0 .. MaxOps
  BY BoundsAssumption DEF Op, TypeOK
\* The faults stay within their bound.
LEMMA FaultType == ASSUME TypeOK, Fault PROVE faults' \in 0 .. MaxFaults
  BY BoundsAssumption DEF Fault, TypeOK

ConnStates == [Conns -> {"new", "open", "inserted", "listing", "replay", "served", "failed",
                         "gone", "leaked"}]

\* What Remember makes of the task and of what is remembered.
LEMMA RememberType ==
    ASSUME TypeInv, NEW t \in Tasks, Remember(t)
    PROVE  \E j \in Jobs, B \in SUBSET Branches :
             /\ WellFormed(j) /\ j.op = job[t].op
             /\ job' = [job EXCEPT ![t] = j]
             /\ Doubt(B)
             /\ snap' \in Branches \cup {NoBranch}
<1>0. t \in Callers /\ job[t] \in Jobs /\ WellFormed(job[t]) /\ job \in [Callers -> Jobs]
  BY CallersFact DEF TypeInv, JobsOK
<1> DEFINE b == job[t].branch
           op == job[t].op
           routes == job[t].routes
           target == IF op = "push" /\ routes = {} THEN snap ELSE b
           R == IF op = "set" THEN {b} ELSE routes
           j == [job[t] EXCEPT !.stage = "pick", !.on = target, !.routes = R]
<1>1. op \in {"push", "set", "clear"} /\ b \in Branches /\ snap \in Branches \cup {NoBranch}
  BY <1>0 DEF Remember, DevboxOps, WellFormed, TypeInv, TypeOK
<1>2. job' = [job EXCEPT ![t] = j]
  BY <1>0 DEF Remember
<1>3. target \in Branches \cup {NoBranch} /\ (R # {} => target \in Branches)
  BY <1>1
<1>4. R \in SUBSET Branches
  BY <1>0, <1>1 DEF Jobs
<1> HIDE DEF target, R
<1>5. j \in Jobs /\ WellFormed(j) /\ j.op = job[t].op
  BY ZenonT(40), <1>0, <1>1, <1>3, <1>4 DEF Jobs, WellFormed, DevboxOps
<1>6. \E B \in SUBSET Branches : Doubt(B)
  <2>1. Some(snap) \ {b} \in SUBSET Branches
    BY <1>1 DEF Some
  <2> QED
    BY <2>1 DEF Remember
<1>7. snap' \in Branches \cup {NoBranch}
  BY <1>1 DEF Remember
<1> HIDE DEF j
<1> QED
  BY <1>2, <1>5, <1>6, <1>7

\* What the sidecar writes is a table, and the streams it ends are of branches.
LEMMA WriteType ==
    ASSUME TypeInv, NEW x \in Callers, job[x].stage = "call"
    PROVE  Keys(x) \in SUBSET Branches /\ Written(x) \in [Branches -> Modes]
<1>0. job[x] \in Jobs /\ WellFormed(job[x]) /\ table \in [Branches -> Modes]
  BY DEF TypeInv, TypeOK, JobsOK
<1>1. job[x].op \in DevboxOps \cup {"upsert", "drop", "replay", "list"}
  BY <1>0 DEF WellFormed, Jobs, RouteOps
<1>2. Keys(x) \in SUBSET Branches
  BY <1>0, <1>1 DEF Keys, Some, WellFormed, Jobs, DevboxOps
<1>3. Written(x) \in [Branches -> Modes]
  BY <1>0, <1>1 DEF Written, Replace, Modes, DevboxOps
<1> QED
  BY <1>2, <1>3

\* The branches a write leaves in doubt are branches.
LEMMA WriteDoubts ==
    ASSUME TypeInv, NEW x \in Callers, Write(x)
    PROVE  \E B \in SUBSET Branches : Doubt(B)
<1> DEFINE lost == {b \in Branches : table[b] = "devbox" /\ table'[b] = "none"}
           stopped == Some(job[x].on) \ {job[x].branch}
           unknown == IF job[x].op \in {"set", "replay", "push"} /\ job[x].routes # {}
                      THEN {b \in {job[x].on} : table[b] = "none"} ELSE {}
<1>0. job[x] \in Jobs /\ WellFormed(job[x])
  BY DEF TypeInv, JobsOK
<1>1. stopped \subseteq Branches
  BY <1>0 DEF Some, Jobs
<1>2. unknown \subseteq Branches
  BY <1>0 DEF Write, WellFormed, DevboxOps
<1>3. lost \subseteq Branches
  OBVIOUS
<1>4. Doubt(lost \cup stopped \cup unknown)
  BY DEF Write
<1> HIDE DEF lost, stopped, unknown
<1> QED
  BY <1>1, <1>2, <1>3, <1>4

\* Ending streams keeps the type of the stream.
LEMMA EndStreamsType ==
    ASSUME TypeOK, NEW K, EndStreams(K)
    PROVE  /\ stream' \in [stage: {"none", "chosen", "open"}, branch: Branches \cup {NoBranch},
                           mode: Modes]
           /\ raced' \in BOOLEAN
  BY DEF EndStreams, TypeOK, NoStream, Modes

\* Every action keeps the types.
LEMMA TypeStep == TypeInv /\ [Next]_vars => TypeInv'
<1> SUFFICES ASSUME TypeInv, [Next]_vars PROVE TypeInv'
  OBVIOUS
<1>0. TypeOK /\ JobsOK /\ MetOK
  BY DEF TypeInv
<1>1. ASSUME NEW b \in Branches, Greet(b) PROVE TypeInv'
  <2>1. "push" \in DevboxOps \cup {"upsert", "drop"}
    BY DEF DevboxOps
  <2>2. JobsOK' /\ MetOK'
    BY <1>1, <2>1, SpawnType DEF Greet
  <2> QED
    BY <1>1, <2>2 DEF Greet, TypeInv, TypeOK, JobsOK, MetOK, apiVars, sidecarVars,
         streamVars, registry
<1>2. ASSUME NEW b \in Branches, ClearSession(b) PROVE TypeInv'
  <2>1. "clear" \in DevboxOps \cup {"upsert", "drop"}
    BY DEF DevboxOps
  <2>2. JobsOK' /\ MetOK'
    BY <1>2, <2>1, SpawnType DEF ClearSession
  <2> QED
    BY <1>2, <2>2 DEF ClearSession, TypeInv, TypeOK, JobsOK, MetOK, apiVars,
         sidecarVars, streamVars, registry
<1>3. ASSUME NEW b \in Branches, UpdateWorkload(b) PROVE TypeInv'
  <2>o. ops' \in 0 .. MaxOps
    BY <1>3, <1>0, OpType DEF UpdateWorkload
  <2>1. "upsert" \in DevboxOps \cup {"upsert", "drop"}
    BY DEF DevboxOps
  <2>2. JobsOK' /\ MetOK'
    BY <1>3, <2>1, SpawnType DEF UpdateWorkload
  <2> QED
    BY <1>3, <2>2, <2>o DEF UpdateWorkload, TypeInv, TypeOK, JobsOK, MetOK, apiVars,
         sidecarVars, streamVars, registry
<1>4. ASSUME NEW b \in Branches, DeleteWorkload(b) PROVE TypeInv'
  <2>o. ops' \in 0 .. MaxOps
    BY <1>4, <1>0, OpType DEF DeleteWorkload
  <2>1. "drop" \in DevboxOps \cup {"upsert", "drop"}
    BY DEF DevboxOps
  <2>2. JobsOK' /\ MetOK'
    BY <1>4, <2>1, SpawnType DEF DeleteWorkload
  <2> QED
    BY <1>4, <2>2, <2>o DEF DeleteWorkload, TypeInv, TypeOK, JobsOK, MetOK, apiVars,
         sidecarVars, streamVars, registry
<1>5. ASSUME NEW b \in Branches, StartIntercept(b) PROVE TypeInv'
  <2>o. ops' \in 0 .. MaxOps
    BY <1>5, <1>0, OpType DEF StartIntercept
  <2>1. "set" \in DevboxOps \cup {"upsert", "drop"}
    BY DEF DevboxOps
  <2>2. CASE Connected(b)
    <3>1. JobsOK' /\ MetOK'
      BY <1>5, <2>1, <2>2, SpawnType DEF StartIntercept
    <3> QED
      BY <1>5, <3>1, <2>o DEF StartIntercept, TypeInv, TypeOK, JobsOK, MetOK, apiVars,
           sidecarVars, streamVars, registry
  <2>3. CASE ~Connected(b)
    BY <1>5, <2>3, <2>o DEF StartIntercept, TypeInv, TypeOK, JobsOK, MetOK, apiVars,
         sidecarVars, streamVars, registry
  <2> QED
    BY <2>2, <2>3
<1>6. ASSUME NEW b \in Branches, StopIntercept(b) PROVE TypeInv'
  <2>o. ops' \in 0 .. MaxOps
    BY <1>6, <1>0, OpType DEF StopIntercept
  <2>1. "remove" \in DevboxOps \cup {"upsert", "drop"}
    BY DEF DevboxOps
  <2>2. CASE Connected(b)
    <3>1. JobsOK' /\ MetOK'
      BY <1>6, <2>1, <2>2, SpawnType DEF StopIntercept
    <3> QED
      BY <1>6, <3>1, <2>o DEF StopIntercept, TypeInv, TypeOK, JobsOK, MetOK, apiVars,
           sidecarVars, streamVars, registry
  <2>3. CASE ~Connected(b)
    BY <1>6, <2>3, <2>o DEF StopIntercept, TypeInv, TypeOK, JobsOK, MetOK, apiVars,
         sidecarVars, streamVars, registry
  <2> QED
    BY <2>2, <2>3
<1>7. ASSUME NEW b \in Branches, ListSession(b) PROVE TypeInv'
  <2>o. ops' \in 0 .. MaxOps
    BY <1>7, <1>0, OpType DEF ListSession
  <2> QED
    BY <1>7, <2>o, <1>0 DEF ListSession, TypeInv, TypeOK, JobsOK, MetOK, apiVars,
         sidecarVars, streamVars, registry
<1>8. ASSUME NEW b \in Branches, UnlistSession(b) PROVE TypeInv'
  <2> QED
    BY <1>8, <1>0 DEF UnlistSession, TypeInv, TypeOK, JobsOK, MetOK, apiVars,
         sidecarVars, streamVars, registry
<1>9. ASSUME ChangeServices PROVE TypeInv'
  <2>o. ops' \in 0 .. MaxOps
    BY <1>9, <1>0, OpType DEF ChangeServices
  <2> QED
    BY <1>9, <2>o, <1>0 DEF ChangeServices, TypeInv, TypeOK, JobsOK, MetOK, apiVars,
         sidecarVars, streamVars, registry
<1>10. ASSUME NEW k \in Conns, Insert(k) PROVE TypeInv'
  <2> QED
    BY <1>10, <1>0 DEF Insert, TypeInv, TypeOK, JobsOK, MetOK, apiVars, sidecarVars,
         streamVars, registry
<1>11. ASSUME LoseConnection PROVE TypeInv'
  <2>o. faults' \in 0 .. MaxFaults
    BY <1>11, <1>0, FaultType DEF LoseConnection
  <2> QED
    BY <1>11, <2>o, <1>0 DEF LoseConnection, TypeInv, TypeOK, JobsOK, MetOK, apiVars,
         sidecarVars, streamVars, registry, None
<1>12. ASSUME RestartSidecar PROVE TypeInv'
  <2>o. faults' \in 0 .. MaxFaults
    BY <1>12, <1>0, FaultType DEF RestartSidecar
  <2> QED
    BY <1>12, <2>o, <1>0 DEF RestartSidecar, TypeInv, TypeOK, JobsOK, MetOK, apiVars,
         sidecarVars, streamVars, registry, None, Modes, NoStream
<1>13. ASSUME NEW b \in Branches, Choose(b) PROVE TypeInv'
  <2>o. ops' \in 0 .. MaxOps
    BY <1>13, <1>0, OpType DEF Choose
  <2> QED
    BY <1>13, <2>o, <1>0 DEF Choose, TypeInv, TypeOK, JobsOK, MetOK, apiVars,
         sidecarVars, streamVars, registry, Modes
<1>14. ASSUME Subscribe PROVE TypeInv'
  <2> QED
    BY <1>14, <1>0 DEF Subscribe, TypeInv, TypeOK, JobsOK, MetOK, apiVars, sidecarVars,
         streamVars, registry
<1>15. ASSUME Finish PROVE TypeInv'
  <2> QED
    BY <1>15, <1>0 DEF Finish, TypeInv, TypeOK, JobsOK, MetOK, apiVars, sidecarVars,
         streamVars, registry, NoStream, Modes
<1>16. ASSUME NEW t \in Tasks, LookupFails(t) PROVE TypeInv'
  <2>c. t \in Callers
    BY <1>16, CallersFact
  <2>1. JobsOK' /\ MetOK' /\ branched' \subseteq Branches /\ conn' \in ConnStates
    BY <1>16, <2>c, EndType DEF LookupFails, ConnStates
  <2>2. unsure' \subseteq Branches
    BY <1>16, <1>0, <2>c, BranchFacts DEF LookupFails, TypeOK
  <2> QED
    BY <1>16, <2>1, <2>2 DEF LookupFails, TypeInv, TypeOK, JobsOK, MetOK, ConnStates,
         apiVars, sidecarVars, streamVars, registry
<1>17. ASSUME NEW t \in Tasks, TaskFails(t) PROVE TypeInv'
  <2>o. faults' \in 0 .. MaxFaults
    BY <1>17, <1>0, FaultType DEF TaskFails
  <2>c. t \in Callers
    BY <1>17, CallersFact
  <2>1. JobsOK' /\ MetOK' /\ branched' \subseteq Branches /\ conn' \in ConnStates
    BY <1>17, <2>c, EndType DEF TaskFails, ConnStates
  <2>2. unsure' \subseteq Branches
    BY <1>17, <1>0, <2>c, BranchFacts DEF TaskFails, TypeOK
  <2> QED
    BY <1>17, <2>1, <2>2, <2>o DEF TaskFails, TypeInv, TypeOK, JobsOK, MetOK,
         ConnStates, apiVars, sidecarVars, streamVars, registry
<1>18. ASSUME NEW x \in Callers, ListFails(x) PROVE TypeInv'
  <2>o. faults' \in 0 .. MaxFaults
    BY <1>18, <1>0, FaultType DEF ListFails
  <2>c. x \in Callers
    BY <1>18, CallersFact
  <2>1. JobsOK' /\ MetOK' /\ branched' \subseteq Branches /\ conn' \in ConnStates
    BY <1>18, <2>c, EndType DEF ListFails, ConnStates
  <2>2. unsure' \subseteq Branches
    BY <1>18, <1>0 DEF ListFails, Unreplayed, TypeOK
  <2> QED
    BY <1>18, <2>1, <2>2, <2>o DEF ListFails, TypeInv, TypeOK, JobsOK, MetOK,
         ConnStates, apiVars, sidecarVars, streamVars, registry
<1>19. ASSUME NEW x \in Callers, CallFails(x) PROVE TypeInv'
  <2>c. x \in Callers
    BY <1>19, CallersFact
  <2>1. JobsOK' /\ MetOK' /\ branched' \subseteq Branches /\ conn' \in ConnStates
    BY <1>19, <2>c, EndType DEF CallFails, ConnStates
  <2>2. unsure' \subseteq Branches
    BY <1>19, <1>0, <2>c, BranchFacts DEF CallFails, Unreplayed, TypeOK
  <2>3. raced' \in BOOLEAN
    BY <1>19, <1>0 DEF CallFails, Abort, TypeOK
  <2> QED
    BY <1>19, <2>1, <2>2, <2>3 DEF CallFails, TypeInv, TypeOK, JobsOK, MetOK,
         ConnStates, apiVars, sidecarVars, streamVars, registry
<1>20. ASSUME NEW x \in Callers, Answer(x) PROVE TypeInv'
  <2>c. x \in Callers
    BY <1>20, CallersFact
  <2>1. JobsOK' /\ MetOK' /\ branched' \subseteq Branches /\ conn' \in ConnStates
    BY <1>20, <2>c, EndType DEF Answer, ConnStates
  <2>2. unsure' \subseteq Branches
    BY <1>20, <2>c, KnownType DEF Answer
  <2>3. streamVars' \in [stage: {"none", "chosen", "open"}, branch: Branches \cup {NoBranch},
                          mode: Modes] \X BOOLEAN
    BY <1>20, <1>0, EndStreamsType DEF Answer, streamVars
  <2> QED
    BY <1>20, <2>1, <2>2, <2>3 DEF Answer, TypeInv, TypeOK, JobsOK, MetOK, ConnStates,
         apiVars, sidecarVars, streamVars, registry
<1>21. ASSUME NEW t \in Tasks, Build(t) PROVE TypeInv'
  <2>c. t \in Callers /\ t \notin Conns /\ job[t] \in Jobs /\ WellFormed(job[t])
    BY <1>21, <1>0, CallersFact DEF JobsOK
  <2> DEFINE found == IF job[t].op = "push" THEN intercept[job[t].branch] ELSE exposed
             j == [job[t] EXCEPT !.routes = IF found THEN {job[t].branch} ELSE {},
                                 !.stage = IF job[t].op = "push" THEN "manager" ELSE "pick"]
  <2>1. job' = [job EXCEPT ![t] = j]
    BY <1>21, <2>c, <1>0 DEF Build, JobsOK
  <2>2. job[t].op \in {"push", "upsert"}
    BY <1>21, <2>c DEF Build, WellFormed
  <2>3. j \in Jobs /\ WellFormed(j) /\ j.op = job[t].op
    BY <2>2, <2>c DEF Jobs, WellFormed, DevboxOps
  <2> HIDE DEF j
  <2>4. JobsOK' /\ MetOK'
    BY <1>21, <2>1, <2>3, <2>c, <1>0, JobChange, MetKeep DEF Build
  <2> QED
    BY <1>21, <2>4, <1>0 DEF Build, TypeInv, TypeOK, JobsOK, MetOK, apiVars,
         sidecarVars, streamVars, registry
<1>22. ASSUME NEW t \in Tasks, FallBack(t) PROVE TypeInv'
  <2>o. faults' \in 0 .. MaxFaults
    BY <1>22, <1>0, FaultType DEF FallBack
  <2>c. t \in Callers /\ t \notin Conns /\ job[t] \in Jobs /\ WellFormed(job[t])
    BY <1>22, <1>0, CallersFact DEF JobsOK
  <2> DEFINE j == [job[t] EXCEPT !.op = "list", !.stage = "pick"]
  <2>1. job' = [job EXCEPT ![t] = j]
    BY <1>22, <2>c, <1>0 DEF FallBack, JobsOK
  <2>2. j \in Jobs /\ WellFormed(j)
    BY <2>c DEF Jobs, WellFormed, DevboxOps, RouteOps
  <2>3. t \notin met
    BY <1>22, <1>0 DEF FallBack, MetOK, DevboxOps
  <2> HIDE DEF j
  <2>4. JobsOK' /\ MetOK'
    BY <1>22, <2>1, <2>2, <2>3, <2>c, <1>0, JobChange, MetKeep DEF FallBack
  <2> QED
    BY <1>22, <2>o, <2>4, <1>0 DEF FallBack, TypeInv, TypeOK, JobsOK, MetOK, apiVars,
         sidecarVars, streamVars, registry
<1>23. ASSUME NEW t \in Tasks, Remove(t) PROVE TypeInv'
  <2>c. t \in Callers /\ t \notin Conns /\ job[t] \in Jobs /\ WellFormed(job[t])
    BY <1>23, <1>0, CallersFact DEF JobsOK
  <2>1. CASE snap = job[t].branch
    <3> DEFINE j == [job[t] EXCEPT !.stage = "pick", !.on = job[t].branch]
    <3>1. job' = [job EXCEPT ![t] = j] /\ job[t].op = "remove"
      BY <1>23, <2>1, <2>c, <1>0 DEF Remove, JobsOK
    <3>2. j \in Jobs /\ WellFormed(j) /\ j.op = job[t].op
      BY <3>1, <2>c DEF Jobs, WellFormed, DevboxOps
    <3> HIDE DEF j
    <3>3. JobsOK' /\ MetOK'
      BY <1>23, <2>1, <3>1, <3>2, <2>c, <1>0, JobChange, MetKeep DEF Remove
    <3> QED
      BY <1>23, <2>1, <3>3, <1>0 DEF Remove, TypeInv, TypeOK, JobsOK, MetOK, apiVars,
           sidecarVars, streamVars, registry
  <2>2. CASE snap # job[t].branch
    <3>1. JobsOK' /\ MetOK' /\ branched' \subseteq Branches /\ conn' \in ConnStates
      BY <1>23, <2>2, <2>c, EndType DEF Remove, ConnStates
    <3>2. unsure' \subseteq Branches
      BY <1>23, <2>2, <2>c, KnownType DEF Remove
    <3> QED
      BY <1>23, <2>2, <3>1, <3>2 DEF Remove, TypeInv, TypeOK, JobsOK, MetOK,
           ConnStates, apiVars, sidecarVars, streamVars, registry
  <2> QED
    BY <2>1, <2>2
<1>24. ASSUME NEW t \in Tasks, Remember(t) PROVE TypeInv'
  <2>c. t \in Callers /\ t \notin Conns /\ job[t] \in Jobs /\ WellFormed(job[t])
    BY <1>24, <1>0, CallersFact DEF JobsOK
  <2>1. PICK j \in Jobs, B \in SUBSET Branches :
          /\ WellFormed(j) /\ j.op = job[t].op
          /\ job' = [job EXCEPT ![t] = j]
          /\ Doubt(B)
          /\ snap' \in Branches \cup {NoBranch}
    BY <1>24, <1>0, <2>c, RememberType
  <2>2. JobsOK'
    BY <2>1, <2>c, <1>0, JobChange
  <2>3. unsure' \subseteq Branches /\ MetOK'
    BY <2>1, <2>c, <1>0, DoubtType, MetDoubt
  <2> QED
    BY <1>24, <2>1, <2>2, <2>3, <1>0 DEF Remember, TypeInv, TypeOK, JobsOK, MetOK,
         apiVars, sidecarVars, streamVars, registry
<1>25. ASSUME NEW x \in Callers, Pick(x) PROVE TypeInv'
  <2>c. x \in Callers /\ job[x] \in Jobs /\ WellFormed(job[x])
    BY <1>25, <1>0, CallersFact DEF JobsOK
  <2>1. CASE NoEntry
    <3>1. JobsOK' /\ MetOK' /\ branched' \subseteq Branches /\ conn' \in ConnStates
      BY <1>25, <2>1, <2>c, EndType DEF Pick, ConnStates
    <3>2. unsure' \subseteq Branches
      BY <1>25, <2>1, <2>c, <1>0, BranchFacts DEF Pick, TypeOK
    <3> QED
      BY <1>25, <2>1, <3>1, <3>2 DEF Pick, TypeInv, TypeOK, JobsOK, MetOK, ConnStates,
           apiVars, sidecarVars, streamVars, registry
  <2>2. CASE ~NoEntry
    <3> DEFINE R == IF job[x].op # "list" THEN job[x].routes
                    ELSE IF exposed THEN branched ELSE {}
    <3>r. R \in SUBSET Branches /\ (R = job[x].routes \/ job[x].op = "list")
      BY <2>c, <1>0 DEF TypeOK, Jobs
    <3>1. PICK k \in Conns :
            job' = [job EXCEPT ![x].stage = "call", ![x].via = k, ![x].routes = R]
      BY <1>25, <2>2, <2>c, <1>0 DEF Pick, JobsOK
    <3> HIDE DEF R
    <3> DEFINE j == [job[x] EXCEPT !.stage = "call", !.via = k, !.routes = R]
    <3>2. job' = [job EXCEPT ![x] = j]
      BY <3>1, <2>c, <1>0 DEF JobsOK
    <3>3. job[x].op # "idle" /\ job[x].stage = "pick"
      BY <1>25, <2>c DEF Pick, WellFormed
    <3>4. j \in Jobs /\ WellFormed(j) /\ j.op = job[x].op
      BY <3>r, <3>3, <2>c DEF Jobs, WellFormed, DevboxOps
    <3> HIDE DEF j
    <3>5. JobsOK' /\ MetOK'
      <4>1. x \in Conns => j.op \in {"idle", "list", "replay"}
        BY <3>4, <1>0 DEF JobsOK
      <4> QED
        BY <1>25, <2>2, <3>2, <3>4, <4>1, <2>c, <1>0, JobChange, MetKeep DEF Pick
    <3> QED
      BY <1>25, <2>2, <3>5, <1>0 DEF Pick, TypeInv, TypeOK, JobsOK, MetOK, apiVars,
           sidecarVars, streamVars, registry
  <2> QED
    BY <2>1, <2>2
<1>26. ASSUME NEW x \in Callers, Write(x) PROVE TypeInv'
  <2>c. x \in Callers /\ job[x] \in Jobs /\ WellFormed(job[x])
    BY <1>26, <1>0, CallersFact DEF JobsOK
  <2>1. Keys(x) \in SUBSET Branches /\ table' \in [Branches -> Modes]
    BY <1>26, <1>0, <2>c, WriteType DEF Write
  <2> DEFINE j == [job[x] EXCEPT !.stage = "shut", !.keys = Keys(x)]
  <2>2. job' = [job EXCEPT ![x] = j]
    BY <1>26, <2>c, <1>0 DEF Write, JobsOK
  <2>3. job[x].op # "idle"
    BY <1>26, <2>c DEF Write, WellFormed
  <2>4. j \in Jobs /\ WellFormed(j) /\ j.op = job[x].op
    BY <2>1, <2>3, <2>c DEF Jobs, WellFormed, DevboxOps
  <2> HIDE DEF j
  <2>5. JobsOK'
    BY <2>2, <2>4, <2>c, <1>0, JobChange DEF JobsOK
  <2>6. PICK B \in SUBSET Branches : Doubt(B)
    BY <1>26, <1>0, <2>c, WriteDoubts
  <2>7. unsure' \subseteq Branches /\ MetOK'
    BY <2>2, <2>4, <2>6, <2>c, <1>0, DoubtType, MetDoubt
  <2> QED
    BY <1>26, <2>1, <2>5, <2>7, <1>0 DEF Write, TypeInv, TypeOK, JobsOK, MetOK,
         apiVars, sidecarVars, streamVars, registry
<1>27. ASSUME NEW k \in Conns, Open(k) PROVE TypeInv'
  <2>1. MetOK'
    BY <1>27, <1>0, CallersFact DEF Open, MetOK
  <2> QED
    BY <1>27, <2>1, <1>0 DEF Open, TypeInv, TypeOK, JobsOK, MetOK, apiVars,
         sidecarVars, streamVars, registry
<1>28. ASSUME NEW k \in Conns, KeepGeneration(k) PROVE TypeInv'
  <2>c. k \in Callers /\ k \notin met
    BY <1>28, <1>0, CallersFact DEF JobsOK, MetOK, DevboxOps
  <2>o. faults' \in 0 .. MaxFaults
    BY <1>28, <1>0, FaultType DEF KeepGeneration, TypeOK
  <2> DEFINE j == [Idle EXCEPT !.op = "list", !.stage = "pick"]
  <2>1. j \in Jobs /\ WellFormed(j) /\ j.op = "list"
    BY DEF Idle, Jobs, WellFormed, None, DevboxOps, RouteOps
  <2>2. job' = [job EXCEPT ![k] = j] \/ job' = job
    BY <1>28 DEF KeepGeneration
  <2> HIDE DEF j
  <2>3. JobsOK'
    BY <2>1, <2>2, <2>c, <1>0, JobChange DEF JobsOK
  <2>4. MetOK'
    BY <1>28, <2>1, <2>2, <2>c, <1>0, MetKeep DEF MetOK, KeepGeneration
  <2> QED
    BY <1>28, <2>o, <2>3, <2>4, <1>0 DEF KeepGeneration, TypeInv, TypeOK, JobsOK,
         MetOK, apiVars, sidecarVars, streamVars, registry
<1>29. ASSUME NEW k \in Conns, Replay(k) PROVE TypeInv'
  <2>c. k \in Callers /\ k \notin met
    BY <1>29, <1>0, CallersFact DEF JobsOK, MetOK, DevboxOps
  <2> DEFINE j == [Idle EXCEPT !.op = "replay", !.stage = "pick",
                               !.branch = snap, !.on = snap, !.routes = {snap}]
  <2>1. snap # NoBranch => j \in Jobs /\ WellFormed(j) /\ j.op = "replay"
    BY <1>0 DEF TypeOK, Idle, Jobs, WellFormed, None, DevboxOps, RouteOps
  <2>2. (snap # NoBranch /\ job' = [job EXCEPT ![k] = j]) \/ job' = job
    BY <1>29 DEF Replay
  <2> HIDE DEF j
  <2>3. JobsOK'
    BY <2>1, <2>2, <2>c, <1>0, JobChange DEF JobsOK
  <2>4. MetOK'
    BY <1>29, <2>1, <2>2, <2>c, <1>0, MetKeep DEF MetOK, Replay
  <2> QED
    BY <1>29, <2>3, <2>4, <1>0 DEF Replay, TypeInv, TypeOK, JobsOK, MetOK, apiVars,
         sidecarVars, streamVars, registry
<1>30. ASSUME NEW k \in Conns, Disconnect(k) PROVE TypeInv'
  <2>c. k \in Callers /\ k \notin met
    BY <1>30, <1>0, CallersFact DEF JobsOK, MetOK, DevboxOps
  <2>1. JobsOK' /\ MetOK'
    BY <1>30, <2>c, <1>0, IdleFact, JobChange, MetDrop DEF Disconnect
  <2>2. unsure' \subseteq Branches
    BY <1>30, <2>c, <1>0, BranchFacts DEF Disconnect, TypeOK
  <2>3. entries' \in [Conns -> Nat]
    BY <1>30, <1>0 DEF Disconnect, TypeOK, None
  <2>4. conn' \in ConnStates /\ raced' \in BOOLEAN
    BY <1>30, <1>0 DEF Disconnect, Abort, TypeOK, ConnStates
  <2> QED
    BY <1>30, <2>1, <2>2, <2>3, <2>4, <1>0 DEF Disconnect, TypeInv, TypeOK, JobsOK,
         MetOK, ConnStates, apiVars, sidecarVars, streamVars, registry
<1>31. ASSUME RestartManager PROVE TypeInv'
  <2>o. faults' \in 0 .. MaxFaults
    BY <1>31, <1>0, FaultType DEF RestartManager
  <2> DEFINE hit == {x \in Callers : job[x].stage \in {"pick", "call", "shut"}}
  <2>1. /\ job' = [x \in Callers |-> IF x \in hit THEN Idle ELSE job[x]]
        /\ met' = met \ hit
        /\ unsure' = unsure \cup Some(snap) \cup UNION {Failed(x) : x \in hit}
        /\ Abort(hit)
    BY <1>31 DEF RestartManager
  <2>h. hit \subseteq Callers
    OBVIOUS
  <2> HIDE DEF hit
  <2>2. \A x \in Callers : job'[x] = IF x \in hit THEN Idle ELSE job[x]
    BY <2>1
  <2>3. JobsOK'
    <3>1. job' \in [Callers -> Jobs]
      BY <2>1, <1>0, IdleFact DEF JobsOK
    <3>2. \A x \in Callers : WellFormed(job'[x])
      BY <2>2, <1>0, IdleFact DEF JobsOK
    <3>3. \A k \in Conns : job'[k].op \in {"idle", "list", "replay"}
      BY <2>2, <1>0, IdleFact, CallersFact DEF JobsOK
    <3> QED
      BY <3>1, <3>2, <3>3 DEF JobsOK, WellFormed
  <2>4. MetOK'
    BY <2>1, <2>2, <1>0 DEF MetOK
  <2>5. unsure' \subseteq Branches
    BY <2>1, <2>h, <1>0, BranchFacts DEF TypeOK
  <2>6. raced' \in BOOLEAN
    BY <2>1, <1>0 DEF Abort, TypeOK
  <2> QED
    BY <1>31, <2>o, <2>3, <2>4, <2>5, <2>6, <1>0 DEF RestartManager, TypeInv, TypeOK,
         JobsOK, MetOK, None, apiVars, sidecarVars, streamVars, registry
<1>32. CASE UNCHANGED vars
  BY <1>32 DEF vars, TypeInv, TypeOK, JobsOK, MetOK
<1>33. ASSUME NEW b \in Branches, SwitchTo(b) PROVE TypeInv'
  <2>o. ops' \in 0 .. MaxOps
    BY <1>33, <1>0, OpType DEF SwitchTo
  <2>1. "push" \in DevboxOps \cup {"upsert", "drop"}
    BY DEF DevboxOps
  <2>2. JobsOK' /\ MetOK'
    BY <1>33, <2>1, SpawnType DEF SwitchTo
  <2> QED
    BY <1>33, <2>2, <2>o DEF SwitchTo, TypeInv, TypeOK, JobsOK, MetOK, apiVars,
         sidecarVars, streamVars, registry
<1>34. ASSUME NEW b \in Branches, SwitchAway(b) PROVE TypeInv'
  <2>o. ops' \in 0 .. MaxOps
    BY <1>34, <1>0, OpType DEF SwitchAway
  <2>1. "clear" \in DevboxOps \cup {"upsert", "drop"}
    BY DEF DevboxOps
  <2>2. JobsOK' /\ MetOK'
    BY <1>34, <2>1, SpawnType DEF SwitchAway
  <2> QED
    BY <1>34, <2>2, <2>o DEF SwitchAway, TypeInv, TypeOK, JobsOK, MetOK, apiVars,
         sidecarVars, streamVars, registry
<1> QED
  BY <1>1, <1>2, <1>3, <1>4, <1>5, <1>6, <1>7, <1>8, <1>9, <1>10, <1>11, <1>12,
       <1>13, <1>14, <1>15, <1>16, <1>17, <1>18, <1>19, <1>20, <1>21, <1>22, <1>23,
       <1>24, <1>25, <1>26, <1>27, <1>28, <1>29, <1>30, <1>31, <1>32, <1>33, <1>34 DEF Next

\* The first state is typed.
LEMMA TypeInit == Init => TypeInv
<1> SUFFICES ASSUME Init PROVE TypeInv
  OBVIOUS
<1>1. JobsOK
  BY IdleFact, CallersFact DEF Init, JobsOK
<1>2. entries \in [Conns -> Nat] /\ side \in Conns \cup {None} /\ counter \in Nat
  BY DEF Init, None
<1>3. ops \in 0 .. MaxOps /\ faults \in 0 .. MaxFaults
  BY BoundsAssumption DEF Init
<1>4. stream \in [stage: {"none", "chosen", "open"}, branch: Branches \cup {NoBranch},
                 mode: Modes]
  BY DEF Init, NoStream, Modes
<1>5. exposed \in BOOLEAN /\ raced \in BOOLEAN
  BY Zenon DEF Init
<1> QED
  BY <1>1, <1>2, <1>3, <1>4, <1>5 DEF Init, TypeInv, TypeOK, JobsOK, MetOK, Modes

\* TypeOK holds in every state: what the tasks of the API, the kube-manager and the
\* sidecar hand on to each other names a branch wherever one is meant, so no route is
\* set for, and no stream ended of, the absence of a branch.
THEOREM TypeCorrect == Spec => []TypeOK
<1>1. Spec => []TypeInv
  BY TypeInit, TypeStep, PTL DEF Spec
<1>2. TypeInv => TypeOK
  BY DEF TypeInv
<1> QED
  BY <1>1, <1>2, PTL

----------------------------------------------------------------------------
(* Streams follow the table.                                                *)

\* Only a call that has written the table has streams to end.
KeysShut == \A x \in Callers : job[x].keys # {} => job[x].stage = "shut"

\* A connection calls the sidecar while it lists or replays, and at no other time.
Registrations ==
    \A k \in Conns : \/ job[k] = Idle
                     \/ /\ job[k].stage \in {"pick", "call", "shut"}
                        /\ conn[k] \in {"listing", "replay"}

\* The property, from the moment the way of the stream is chosen.
Routed ==
    stream.stage # "none" =>
      /\ stream.branch \in Branches
      /\ ~raced => \/ stream.mode = table[stream.branch]
                   \/ \E x \in Callers : stream.branch \in job[x].keys

StreamInv == KeysShut /\ Registrations /\ Routed

\* Nothing that concerns the stream changed.
LEMMA RoutedStays ==
    ASSUME Routed, stream' = stream, raced' = raced, table' = table,
           \A x \in Callers : job[x].keys \subseteq job'[x].keys
    PROVE  Routed'
  BY DEF Routed

\* A caller takes a step of its own; what it had to end it still has to end.
LEMMA StepKeeps ==
    ASSUME TypeInv, StreamInv, NEW x \in Callers, NEW j,
           job' = [job EXCEPT ![x] = j], conn' = conn,
           stream' = stream, raced' = raced, table' = table,
           job[x].keys \subseteq j.keys, j.keys # {} => j.stage = "shut",
           x \in Conns => /\ conn[x] \in {"listing", "replay"}
                          /\ j.stage \in {"pick", "call", "shut"}
    PROVE  StreamInv'
<1>1. \A y \in Callers : job'[y] = IF y = x THEN j ELSE job[y]
  BY DEF TypeInv, JobsOK
<1>2. KeysShut'
  BY <1>1 DEF StreamInv, KeysShut
<1>3. Registrations'
  BY <1>1, CallersFact DEF StreamInv, Registrations
<1>4. Routed'
  BY <1>1, RoutedStays DEF StreamInv
<1> QED
  BY <1>2, <1>3, <1>4 DEF StreamInv

\* A registration whose call is under way is past its registration.
LEMMA CallRegistered ==
    ASSUME TypeInv, StreamInv, NEW x \in Callers, job[x].stage # "idle"
    PROVE  x \in Conns => conn[x] \in {"listing", "replay"}
  BY DEF StreamInv, Registrations, Idle

\* The end of a call.
LEMMA EndFacts ==
    ASSUME TypeInv, StreamInv, NEW x \in Callers, NEW ok \in BOOLEAN, End(x, ok)
    PROVE  /\ KeysShut' /\ Registrations'
           /\ \A y \in Callers : y # x => job'[y] = job[y]
<1>1. \A y \in Callers : job'[y] = IF y = x THEN Idle ELSE job[y]
  BY DEF End, TypeInv, JobsOK
<1>2. KeysShut'
  BY <1>1, IdleFact DEF StreamInv, KeysShut
<1>3. \A k \in Conns : k # x => conn'[k] = conn[k]
  BY DEF End, TypeInv, TypeOK
<1>4. Registrations'
  BY <1>1, <1>3, CallersFact DEF StreamInv, Registrations
<1> QED
  BY <1>1, <1>2, <1>4

\* A call that ends before it reached the sidecar.
LEMMA EarlyEnd ==
    ASSUME TypeInv, StreamInv, NEW x \in Callers, NEW ok \in BOOLEAN, End(x, ok),
           job[x].stage # "shut", stream' = stream, raced' = raced, table' = table
    PROVE  StreamInv'
<1>1. KeysShut' /\ Registrations' /\ \A y \in Callers : y # x => job'[y] = job[y]
  BY EndFacts
<1>2. job[x].keys = {}
  BY DEF StreamInv, KeysShut
<1>3. \A y \in Callers : job[y].keys \subseteq job'[y].keys
  BY <1>1, <1>2
<1>4. Routed'
  BY <1>3, RoutedStays DEF StreamInv
<1> QED
  BY <1>1, <1>4 DEF StreamInv

\* Callers that are aborted: the stream they had to end counts as raced.
LEMMA RoutedAbort ==
    ASSUME Routed, NEW X \in SUBSET Callers, Abort(X), stream' = stream, table' = table,
           \A y \in Callers \ X : job[y].keys \subseteq job'[y].keys
    PROVE  Routed'
  BY DEF Routed, Abort

\* Spawning a task leaves the other callers alone.
LEMMA SpawnKeeps ==
    ASSUME TypeInv, StreamInv, NEW op, NEW b, Spawn(op, b), conn' = conn,
           stream' = stream, raced' = raced, table' = table
    PROVE  StreamInv'
<1> DEFINE j == [Idle EXCEPT !.op = op, !.branch = b, !.stage = First(op)]
<1>1. PICK t \in Tasks : job[t] = Idle /\ job' = [job EXCEPT ![t] = j]
  BY DEF Spawn
<1>2. j.keys = {} /\ job[t].keys = {}
  BY <1>1, IdleFact DEF Idle
<1> HIDE DEF j
<1> QED
  BY <1>1, <1>2, CallersFact, StepKeeps

\* The sidecar ends the streams of every branch whose route it changed.
LEMMA WrittenKeys ==
    ASSUME TypeInv, NEW x \in Callers, job[x].stage = "call"
    PROVE  \A b \in Branches : Written(x)[b] # table[b] => b \in Keys(x)
<1>0. job[x] \in Jobs /\ WellFormed(job[x]) /\ table \in [Branches -> Modes]
  BY DEF TypeInv, TypeOK, JobsOK
<1>1. job[x].op \in DevboxOps \cup {"upsert", "drop", "replay", "list"}
  BY <1>0 DEF WellFormed, Jobs, RouteOps
<1>2. CASE job[x].op \in DevboxOps \cup {"replay"}
  <2> SUFFICES ASSUME NEW b \in Branches, b # job[x].on PROVE Written(x)[b] = table[b]
    BY <1>2, NoBranchAssumption DEF Keys, Some, DevboxOps
  <2> QED
    BY <1>0, <1>2 DEF Written, DevboxOps
<1>3. CASE job[x].op = "list"
  BY <1>0, <1>3 DEF Written, Replace, Keys, DevboxOps, Modes
<1>4. CASE job[x].op \in {"upsert", "drop"}
  BY <1>0, <1>4 DEF Written, Keys, DevboxOps, Modes
<1> QED
  BY <1>1, <1>2, <1>3, <1>4

\* Every action keeps StreamInv.
LEMMA StreamStep == TypeInv /\ StreamInv /\ [Next]_vars => StreamInv'
<1> SUFFICES ASSUME TypeInv, StreamInv, [Next]_vars PROVE StreamInv'
  OBVIOUS
<1>0. TypeOK /\ JobsOK /\ KeysShut /\ Registrations /\ Routed
  BY DEF TypeInv, StreamInv
<1>1. ASSUME NEW b \in Branches, Greet(b) PROVE StreamInv'
  BY <1>1, SpawnKeeps DEF Greet, apiVars, sidecarVars, streamVars, registry
<1>2. ASSUME NEW b \in Branches, ClearSession(b) PROVE StreamInv'
  BY <1>2, SpawnKeeps DEF ClearSession, apiVars, sidecarVars, streamVars, registry
<1>3. ASSUME NEW b \in Branches, UpdateWorkload(b) PROVE StreamInv'
  BY <1>3, SpawnKeeps DEF UpdateWorkload, apiVars, sidecarVars, streamVars, registry
<1>4. ASSUME NEW b \in Branches, DeleteWorkload(b) PROVE StreamInv'
  BY <1>4, SpawnKeeps DEF DeleteWorkload, apiVars, sidecarVars, streamVars, registry
<1>5. ASSUME NEW b \in Branches, StartIntercept(b) PROVE StreamInv'
  <2>1. CASE Connected(b)
    BY <1>5, <2>1, SpawnKeeps DEF StartIntercept, apiVars, sidecarVars, streamVars,
         registry
  <2>2. CASE ~Connected(b)
    BY <1>5, <2>2 DEF StartIntercept, StreamInv, KeysShut, Registrations, Routed,
         apiVars, sidecarVars, streamVars, registry
  <2> QED
    BY <2>1, <2>2
<1>6. ASSUME NEW b \in Branches, StopIntercept(b) PROVE StreamInv'
  <2>1. CASE Connected(b)
    BY <1>6, <2>1, SpawnKeeps DEF StopIntercept, apiVars, sidecarVars, streamVars,
         registry
  <2>2. CASE ~Connected(b)
    BY <1>6, <2>2 DEF StopIntercept, StreamInv, KeysShut, Registrations, Routed,
         apiVars, sidecarVars, streamVars, registry
  <2> QED
    BY <2>1, <2>2
<1>7. ASSUME NEW b \in Branches, ListSession(b) PROVE StreamInv'
  BY <1>7 DEF ListSession, StreamInv, KeysShut, Registrations, Routed, apiVars,
       sidecarVars, streamVars, registry
<1>8. ASSUME NEW b \in Branches, UnlistSession(b) PROVE StreamInv'
  BY <1>8 DEF UnlistSession, StreamInv, KeysShut, Registrations, Routed, apiVars,
       sidecarVars, streamVars, registry
<1>9. ASSUME ChangeServices PROVE StreamInv'
  BY <1>9 DEF ChangeServices, StreamInv, KeysShut, Registrations, Routed, apiVars,
       sidecarVars, streamVars, registry
<1>10. ASSUME LoseConnection PROVE StreamInv'
  BY <1>10 DEF LoseConnection, StreamInv, KeysShut, Registrations, Routed, apiVars,
       sidecarVars, streamVars, registry
<1>11. ASSUME NEW k \in Conns, Insert(k) PROVE StreamInv'
  BY <1>11, <1>0 DEF Insert, TypeOK, StreamInv, KeysShut, Registrations, Routed,
       apiVars, sidecarVars, streamVars, registry
<1>12. ASSUME NEW k \in Conns, Open(k) PROVE StreamInv'
  BY <1>12, <1>0 DEF Open, TypeOK, StreamInv, KeysShut, Registrations, Routed, apiVars,
       sidecarVars, streamVars, registry
<1>13. ASSUME RestartSidecar PROVE StreamInv'
  BY <1>13 DEF RestartSidecar, NoStream, StreamInv, KeysShut, Registrations, Routed,
       apiVars, sidecarVars, streamVars, registry
<1>14. ASSUME Finish PROVE StreamInv'
  BY <1>14 DEF Finish, NoStream, StreamInv, KeysShut, Registrations, Routed, apiVars,
       sidecarVars, streamVars, registry
<1>15. ASSUME NEW b \in Branches, Choose(b) PROVE StreamInv'
  BY <1>15 DEF Choose, StreamInv, KeysShut, Registrations, Routed, apiVars,
       sidecarVars, streamVars, registry
<1>16. ASSUME Subscribe PROVE StreamInv'
  BY <1>16, <1>0 DEF Subscribe, TypeOK, StreamInv, KeysShut, Registrations, Routed,
       apiVars, sidecarVars, streamVars, registry
<1>17. ASSUME NEW t \in Tasks, LookupFails(t) PROVE StreamInv'
  <2>1. t \in Callers /\ job[t].stage # "shut"
    BY <1>17, CallersFact DEF LookupFails, Missing
  <2> QED
    BY <1>17, <2>1, EarlyEnd DEF LookupFails, streamVars
<1>18. ASSUME NEW t \in Tasks, TaskFails(t) PROVE StreamInv'
  <2>1. t \in Callers /\ job[t].stage # "shut"
    BY <1>18, CallersFact DEF TaskFails
  <2> QED
    BY <1>18, <2>1, EarlyEnd DEF TaskFails, streamVars
<1>19. ASSUME NEW x \in Callers, ListFails(x) PROVE StreamInv'
  <2>1. job[x].stage # "shut"
    BY <1>19 DEF ListFails
  <2> QED
    BY <1>19, <2>1, EarlyEnd DEF ListFails, streamVars
<1>20. ASSUME NEW t \in Tasks, Build(t) PROVE StreamInv'
  <2>c. t \in Callers /\ t \notin Conns /\ job[t] \in Jobs
    BY <1>20, <1>0, CallersFact DEF JobsOK
  <2>k. job[t].keys = {}
    BY <1>20, <2>c, <1>0 DEF Build, KeysShut
  <2> DEFINE j == [job[t] EXCEPT
                    !.routes = IF (IF job[t].op = "push" THEN intercept[job[t].branch]
                                   ELSE exposed) THEN {job[t].branch} ELSE {},
                    !.stage = IF job[t].op = "push" THEN "manager" ELSE "pick"]
  <2>1. job' = [job EXCEPT ![t] = j]
    BY <1>20, <2>c, <1>0 DEF Build, JobsOK
  <2>2. j.keys = job[t].keys
    BY <2>c DEF Jobs
  <2> HIDE DEF j
  <2> QED
    BY <1>20, <2>c, <2>k, <2>1, <2>2, StepKeeps DEF Build, apiVars, sidecarVars,
         streamVars, registry
<1>21. ASSUME NEW t \in Tasks, FallBack(t) PROVE StreamInv'
  <2>c. t \in Callers /\ t \notin Conns /\ job[t] \in Jobs
    BY <1>21, <1>0, CallersFact DEF JobsOK
  <2>k. job[t].keys = {}
    BY <1>21, <2>c, <1>0 DEF FallBack, KeysShut
  <2> DEFINE j == [job[t] EXCEPT !.op = "list", !.stage = "pick"]
  <2>1. job' = [job EXCEPT ![t] = j]
    BY <1>21, <2>c, <1>0 DEF FallBack, JobsOK
  <2>2. j.keys = job[t].keys
    BY <2>c DEF Jobs
  <2> HIDE DEF j
  <2> QED
    BY <1>21, <2>c, <2>k, <2>1, <2>2, StepKeeps DEF FallBack, apiVars, sidecarVars,
         streamVars, registry
<1>22. ASSUME NEW t \in Tasks, Remove(t) PROVE StreamInv'
  <2>c. t \in Callers /\ t \notin Conns /\ job[t] \in Jobs
    BY <1>22, <1>0, CallersFact DEF JobsOK
  <2>k. job[t].keys = {}
    BY <1>22, <2>c, <1>0 DEF Remove, KeysShut
  <2>1. CASE snap = job[t].branch
    <3> DEFINE j == [job[t] EXCEPT !.stage = "pick", !.on = job[t].branch]
    <3>1. job' = [job EXCEPT ![t] = j]
      BY <1>22, <2>1, <2>c, <1>0 DEF Remove, JobsOK
    <3>2. j.keys = job[t].keys
      BY <2>c DEF Jobs
    <3> HIDE DEF j
    <3> QED
      BY <1>22, <2>1, <2>c, <2>k, <3>1, <3>2, StepKeeps DEF Remove, apiVars,
           sidecarVars, streamVars, registry
  <2>2. CASE snap # job[t].branch
    <3>1. End(t, TRUE) /\ job[t].stage # "shut"
      BY <1>22, <2>2 DEF Remove
    <3> QED
      BY <1>22, <3>1, <2>c, EarlyEnd DEF Remove, streamVars
  <2> QED
    BY <2>1, <2>2
<1>23. ASSUME NEW t \in Tasks, Remember(t) PROVE StreamInv'
  <2>c. t \in Callers /\ t \notin Conns /\ job[t] \in Jobs
    BY <1>23, <1>0, CallersFact DEF JobsOK
  <2>k. job[t].keys = {}
    BY <1>23, <2>c, <1>0 DEF Remember, KeysShut
  <2> DEFINE target == IF job[t].op = "push" /\ job[t].routes = {} THEN snap ELSE job[t].branch
             R == IF job[t].op = "set" THEN {job[t].branch} ELSE job[t].routes
             j == [job[t] EXCEPT !.stage = "pick", !.on = target, !.routes = R]
  <2>1. job' = [job EXCEPT ![t] = j]
    BY <1>23, <2>c, <1>0 DEF Remember, JobsOK
  <2> HIDE DEF target, R
  <2>2. j.keys = job[t].keys
    BY <2>c DEF Jobs
  <2> HIDE DEF j
  <2> QED
    BY <1>23, <2>c, <2>k, <2>1, <2>2, StepKeeps DEF Remember, apiVars, sidecarVars,
         streamVars, registry
<1>24. ASSUME NEW x \in Callers, Pick(x) PROVE StreamInv'
  <2>c. job[x] \in Jobs /\ job[x].keys = {}
    BY <1>24, <1>0 DEF JobsOK, KeysShut, Pick
  <2>r. x \in Conns => conn[x] \in {"listing", "replay"}
    BY <1>24, CallRegistered DEF Pick
  <2>1. CASE NoEntry
    BY <1>24, <2>1, EarlyEnd DEF Pick, streamVars
  <2>2. CASE ~NoEntry
    <3> DEFINE R == IF job[x].op # "list" THEN job[x].routes
                    ELSE IF exposed THEN branched ELSE {}
    <3>1. PICK k \in Conns :
            job' = [job EXCEPT ![x].stage = "call", ![x].via = k, ![x].routes = R]
      BY <1>24, <2>2, <2>c, <1>0 DEF Pick, JobsOK
    <3> HIDE DEF R
    <3> DEFINE j == [job[x] EXCEPT !.stage = "call", !.via = k, !.routes = R]
    <3>2. job' = [job EXCEPT ![x] = j]
      BY <3>1, <2>c, <1>0 DEF JobsOK
    <3>3. j.keys = job[x].keys /\ j.stage = "call"
      BY <2>c DEF Jobs
    <3> HIDE DEF j
    <3> QED
      BY <1>24, <2>2, <2>c, <2>r, <3>2, <3>3, StepKeeps DEF Pick, apiVars, sidecarVars,
           streamVars, registry
  <2> QED
    BY <2>1, <2>2
<1>25. ASSUME NEW x \in Callers, Write(x) PROVE StreamInv'
  <2>c. job[x] \in Jobs /\ job[x].keys = {}
    BY <1>25, <1>0 DEF JobsOK, KeysShut, Write
  <2>r. x \in Conns => conn[x] \in {"listing", "replay"}
    BY <1>25, CallRegistered DEF Write
  <2> DEFINE j == [job[x] EXCEPT !.stage = "shut", !.keys = Keys(x)]
  <2>1. job' = [job EXCEPT ![x] = j]
    BY <1>25, <2>c, <1>0 DEF Write, JobsOK
  <2>2. j.stage = "shut" /\ j.keys = Keys(x)
    BY <2>c DEF Jobs
  <2> HIDE DEF j
  <2>3. \A y \in Callers : job'[y] = IF y = x THEN j ELSE job[y]
    BY <2>1, <1>0 DEF JobsOK
  <2>4. KeysShut' /\ Registrations'
    BY ZenonT(40), <1>25, <2>2, <2>3, <2>r, <1>0, CallersFact DEF KeysShut, Registrations, Write,
         sidecarVars
  <2>5. \A b \in Branches : table'[b] # table[b] => b \in Keys(x)
    BY <1>25, WrittenKeys DEF Write
  <2>6. Routed'
    <3> SUFFICES ASSUME stream.stage # "none", ~raced
                 PROVE  \/ stream.mode = table'[stream.branch]
                        \/ \E y \in Callers : stream.branch \in job'[y].keys
      BY <1>25, <1>0 DEF Routed, Write, streamVars
    <3>1. CASE stream.branch \in Keys(x)
      BY <3>1, <2>2, <2>3
    <3>2. CASE stream.branch \notin Keys(x)
      BY <3>2, <2>3, <2>5, <2>c, <1>0 DEF Routed
    <3> QED
      BY <3>1, <3>2
  <2> QED
    BY <2>4, <2>6 DEF StreamInv
<1>26. ASSUME NEW x \in Callers, Answer(x) PROVE StreamInv'
  <2>1. KeysShut' /\ Registrations' /\ \A y \in Callers : y # x => job'[y] = job[y]
    BY <1>26, EndFacts DEF Answer
  <2>2. EndStreams(job[x].keys) /\ table' = table
    BY <1>26 DEF Answer
  <2>3. Routed'
    <3> SUFFICES ASSUME stream'.stage # "none"
                 PROVE  /\ stream'.branch \in Branches
                        /\ ~raced' => \/ stream'.mode = table'[stream'.branch]
                                      \/ \E y \in Callers : stream'.branch \in job'[y].keys
      BY DEF Routed
    <3>1. stream' = stream /\ stream' # NoStream
      BY <2>2 DEF EndStreams, NoStream
    <3>2. ~(stream.stage = "open" /\ stream.branch \in job[x].keys)
      BY <2>2, <3>1 DEF EndStreams
    <3>3. ASSUME ~raced' PROVE ~raced /\ stream.branch \notin job[x].keys
      BY <2>2, <3>1, <3>2, <3>3, <1>0 DEF EndStreams, TypeOK
    <3> QED
      BY <2>1, <2>2, <3>1, <3>3, <1>0 DEF Routed
  <2> QED
    BY <2>1, <2>3 DEF StreamInv
<1>27. ASSUME NEW x \in Callers, CallFails(x) PROVE StreamInv'
  <2>1. KeysShut' /\ Registrations' /\ \A y \in Callers : y # x => job'[y] = job[y]
    BY <1>27, EndFacts DEF CallFails
  <2>2. Routed'
    BY <1>27, <2>1, <1>0, RoutedAbort DEF CallFails
  <2> QED
    BY <2>1, <2>2 DEF StreamInv
<1>28. ASSUME NEW k \in Conns, KeepGeneration(k) PROVE StreamInv'
  <2> DEFINE j == [Idle EXCEPT !.op = "list", !.stage = "pick"]
  <2>0. k \in Callers /\ job[k] = Idle /\ j.keys = {} /\ j.stage = "pick"
    BY <1>28, <1>0, CallersFact DEF KeepGeneration, Registrations, Idle
  <2>1. \A y \in Callers : job'[y] = IF y = k THEN job'[k] ELSE job[y]
    BY <1>28, <1>0 DEF KeepGeneration, JobsOK
  <2>2. job'[k].keys = {} /\ (job'[k] = Idle \/ job'[k].stage = "pick")
    BY <1>28, <2>0, <1>0, IdleFact DEF KeepGeneration, JobsOK
  <2>3. conn'[k] \in {"listing", "replay"} /\ \A i \in Conns : i # k => conn'[i] = conn[i]
    BY <1>28, <1>0 DEF KeepGeneration, TypeOK
  <2>4. KeysShut' /\ Registrations'
    BY <2>1, <2>2, <2>3, <1>0, CallersFact DEF KeysShut, Registrations
  <2>5. Routed'
    BY <1>28, <2>0, <2>1, <2>2, <1>0, IdleFact, RoutedStays DEF KeepGeneration,
         streamVars
  <2> QED
    BY <2>4, <2>5 DEF StreamInv
<1>29. ASSUME NEW k \in Conns, Replay(k) PROVE StreamInv'
  <2> DEFINE j == [Idle EXCEPT !.op = "replay", !.stage = "pick",
                               !.branch = snap, !.on = snap, !.routes = {snap}]
  <2>0. k \in Callers /\ job[k] = Idle /\ j.keys = {} /\ j.stage = "pick" /\ conn[k] = "replay"
    BY <1>29, CallersFact DEF Replay, Idle
  <2>1. \A y \in Callers : job'[y] = IF y = k THEN job'[k] ELSE job[y]
    BY <1>29, <1>0 DEF Replay, JobsOK
  <2>2. job'[k].keys = {} /\ (job'[k] = Idle \/ (job'[k].stage = "pick" /\ conn'[k] = "replay"))
    BY <1>29, <2>0, <1>0, IdleFact DEF Replay, JobsOK
  <2>3. \A i \in Conns : i # k => conn'[i] = conn[i]
    BY <1>29, <2>0, <1>0 DEF Replay, TypeOK
  <2>4. KeysShut' /\ Registrations'
    BY <2>1, <2>2, <2>3, <1>0, CallersFact DEF KeysShut, Registrations
  <2>5. Routed'
    BY <1>29, <2>0, <2>1, <2>2, <1>0, IdleFact, RoutedStays DEF Replay, streamVars
  <2> QED
    BY <2>4, <2>5 DEF StreamInv
<1>30. ASSUME NEW k \in Conns, Disconnect(k) PROVE StreamInv'
  <2>1. k \in Callers /\ \A y \in Callers : job'[y] = IF y = k THEN Idle ELSE job[y]
    BY <1>30, <1>0, CallersFact DEF Disconnect, JobsOK
  <2>2. KeysShut' /\ Registrations'
    <3>1. \A i \in Conns : i # k => conn'[i] = conn[i]
      BY <1>30, <1>0 DEF Disconnect, TypeOK
    <3> QED
      BY <2>1, <3>1, <1>0, CallersFact, IdleFact DEF KeysShut, Registrations
  <2>3. Routed'
    BY <1>30, <2>1, <1>0, RoutedAbort DEF Disconnect
  <2> QED
    BY <2>2, <2>3 DEF StreamInv
<1>31. ASSUME RestartManager PROVE StreamInv'
  <2> DEFINE hit == {x \in Callers : job[x].stage \in {"pick", "call", "shut"}}
  <2>1. /\ job' = [x \in Callers |-> IF x \in hit THEN Idle ELSE job[x]]
        /\ conn' = [k \in Conns |-> IF conn[k] = "new" THEN "new" ELSE "gone"]
        /\ Abort(hit) /\ table' = table /\ stream' = stream
    BY <1>31 DEF RestartManager
  <2>h. /\ hit \in SUBSET Callers
        /\ \A x \in Callers : job[x].stage \in {"pick", "call", "shut"} => x \in hit
    OBVIOUS
  <2> HIDE DEF hit
  <2>2. \A x \in Callers : job'[x] = IF x \in hit THEN Idle ELSE job[x]
    BY <2>1
  <2>3. KeysShut' /\ Registrations'
    BY <2>1, <2>2, <2>h, <1>0, CallersFact, IdleFact DEF KeysShut, Registrations
  <2>4. Routed'
    BY <2>1, <2>2, <2>h, <1>0, RoutedAbort
  <2> QED
    BY <2>3, <2>4 DEF StreamInv
<1>32. CASE UNCHANGED vars
  BY <1>32 DEF vars, StreamInv, KeysShut, Registrations, Routed
<1>33. ASSUME NEW b \in Branches, SwitchTo(b) PROVE StreamInv'
  BY <1>33, SpawnKeeps DEF SwitchTo, apiVars, sidecarVars, streamVars, registry
<1>34. ASSUME NEW b \in Branches, SwitchAway(b) PROVE StreamInv'
  BY <1>34, SpawnKeeps DEF SwitchAway, apiVars, sidecarVars, streamVars, registry
<1> QED
  BY <1>1, <1>2, <1>3, <1>4, <1>5, <1>6, <1>7, <1>8, <1>9, <1>10, <1>11, <1>12,
       <1>13, <1>14, <1>15, <1>16, <1>17, <1>18, <1>19, <1>20, <1>21, <1>22, <1>23,
       <1>24, <1>25, <1>26, <1>27, <1>28, <1>29, <1>30, <1>31, <1>32, <1>33, <1>34 DEF Next

\* StreamsFollowTable holds in every state: whatever tasks, registrations, lost
\* connections and restarts come between, a stream the sidecar proxies goes where its
\* table sends the branch, or a call that has still to end it is under way; only a
\* stream that was ended before it subscribed, or whose call was aborted, is left over.
THEOREM StreamsFollow == Spec => []StreamsFollowTable
<1>1. Init => StreamInv
  BY IdleFact DEF Init, StreamInv, KeysShut, Registrations, Routed, NoStream, Callers
<1>2. Spec => []TypeInv
  BY TypeInit, TypeStep, PTL DEF Spec
<1>3. Spec => []StreamInv
  BY <1>1, <1>2, StreamStep, PTL DEF Spec
<1>4. StreamInv => StreamsFollowTable
  BY DEF StreamInv, Routed, StreamsFollowTable
<1> QED
  BY <1>3, <1>4, PTL

----------------------------------------------------------------------------
(* The kube-manager talks to the sidecar that is connected.                 *)

Entered == {"inserted", "listing", "replay", "served", "failed", "leaked"}

\* A connection has an entry from its registration until its end is noticed.
Entries == \A k \in Conns : entries[k] # None <=> conn[k] \in Entered

\* The end of a call changes the state of a connection among those with an entry.
LEMMA EndEntries ==
    ASSUME TypeInv, StreamInv, Entries, NEW x \in Callers, NEW ok \in BOOLEAN, End(x, ok),
           job[x].stage # "idle", entries' = entries
    PROVE  Entries'
<1>1. x \in Conns => conn[x] \in Entered
  BY CallRegistered DEF Entered
<1>2. \A k \in Conns : conn'[k] = conn[k] \/ (k = x /\ conn'[k] \in Entered)
  BY DEF End, TypeInv, TypeOK, Entered
<1> QED
  BY <1>1, <1>2 DEF Entries

\* Every action keeps it.
LEMMA EntryStep == TypeInv /\ StreamInv /\ Entries /\ [Next]_vars => Entries'
<1> SUFFICES ASSUME TypeInv, StreamInv, Entries, [Next]_vars PROVE Entries'
  OBVIOUS
<1>0. TypeOK /\ Registrations
  BY DEF TypeInv, StreamInv
<1>1. ASSUME NEW b \in Branches, StartIntercept(b) PROVE Entries'
  BY <1>1 DEF StartIntercept, Entries, sidecarVars, registry
<1>2. ASSUME NEW b \in Branches, StopIntercept(b) PROVE Entries'
  BY <1>2 DEF StopIntercept, Entries, sidecarVars, registry
<1>3. ASSUME NEW b \in Branches, ListSession(b) PROVE Entries'
  BY <1>3 DEF ListSession, Entries, sidecarVars, registry
<1>4. ASSUME NEW b \in Branches, Greet(b) PROVE Entries'
  BY <1>4 DEF Greet, Entries, sidecarVars, registry
<1>5. ASSUME NEW b \in Branches, UnlistSession(b) PROVE Entries'
  BY <1>5 DEF UnlistSession, Entries, sidecarVars, registry
<1>6. ASSUME NEW b \in Branches, ClearSession(b) PROVE Entries'
  BY <1>6 DEF ClearSession, Entries, sidecarVars, registry
<1>7. ASSUME NEW b \in Branches, UpdateWorkload(b) PROVE Entries'
  BY <1>7 DEF UpdateWorkload, Entries, sidecarVars, registry
<1>8. ASSUME NEW b \in Branches, DeleteWorkload(b) PROVE Entries'
  BY <1>8 DEF DeleteWorkload, Entries, sidecarVars, registry
<1>9. ASSUME NEW b \in Branches, Choose(b) PROVE Entries'
  BY <1>9 DEF Choose, Entries, sidecarVars, registry
<1>10. ASSUME ChangeServices PROVE Entries'
  BY <1>10 DEF ChangeServices, Entries, sidecarVars, registry
<1>11. ASSUME NEW t \in Tasks, Build(t) PROVE Entries'
  BY <1>11 DEF Build, Entries, sidecarVars, registry
<1>12. ASSUME NEW t \in Tasks, FallBack(t) PROVE Entries'
  BY <1>12 DEF FallBack, Entries, sidecarVars, registry
<1>13. ASSUME NEW t \in Tasks, Remember(t) PROVE Entries'
  BY <1>13 DEF Remember, Entries, sidecarVars, registry
<1>14. ASSUME NEW x \in Callers, Write(x) PROVE Entries'
  BY <1>14 DEF Write, Entries, sidecarVars, registry
<1>15. ASSUME LoseConnection PROVE Entries'
  BY <1>15 DEF LoseConnection, Entries, sidecarVars, registry
<1>16. ASSUME RestartSidecar PROVE Entries'
  BY <1>16 DEF RestartSidecar, Entries, sidecarVars, registry
<1>17. ASSUME Subscribe PROVE Entries'
  BY <1>17 DEF Subscribe, Entries, sidecarVars, registry
<1>18. ASSUME Finish PROVE Entries'
  BY <1>18 DEF Finish, Entries, sidecarVars, registry
<1>19. ASSUME NEW t \in Tasks, LookupFails(t) PROVE Entries'
  BY <1>19, CallersFact, EndEntries DEF LookupFails, Missing, registry
<1>20. ASSUME NEW t \in Tasks, TaskFails(t) PROVE Entries'
  BY <1>20, CallersFact, EndEntries DEF TaskFails, registry
<1>21. ASSUME NEW x \in Callers, ListFails(x) PROVE Entries'
  BY <1>21, CallersFact, EndEntries DEF ListFails, registry
<1>22. ASSUME NEW x \in Callers, CallFails(x) PROVE Entries'
  BY <1>22, CallersFact, EndEntries DEF CallFails, registry
<1>23. ASSUME NEW x \in Callers, Answer(x) PROVE Entries'
  BY <1>23, CallersFact, EndEntries DEF Answer, registry
<1>24. ASSUME NEW t \in Tasks, Remove(t) PROVE Entries'
  <2>1. CASE snap = job[t].branch
    BY <1>24, <2>1 DEF Remove, Entries, registry
  <2>2. CASE snap # job[t].branch
    BY <1>24, <2>2, CallersFact, EndEntries DEF Remove, registry
  <2> QED
    BY <2>1, <2>2
<1>25. ASSUME NEW x \in Callers, Pick(x) PROVE Entries'
  <2>1. CASE NoEntry
    BY <1>25, <2>1, EndEntries DEF Pick, registry
  <2>2. CASE ~NoEntry
    BY <1>25, <2>2 DEF Pick, Entries, registry
  <2> QED
    BY <2>1, <2>2
<1>26. ASSUME NEW k \in Conns, Open(k) PROVE Entries'
  BY <1>26, <1>0 DEF Open, Entries, Entered, TypeOK, registry
<1>27. ASSUME NEW k \in Conns, Insert(k) PROVE Entries'
  BY <1>27, <1>0 DEF Insert, Entries, Entered, TypeOK, None
<1>28. ASSUME NEW k \in Conns, KeepGeneration(k) PROVE Entries'
  BY <1>28, <1>0 DEF KeepGeneration, Entries, Entered, TypeOK, registry
<1>29. ASSUME NEW k \in Conns, Replay(k) PROVE Entries'
  BY <1>29, <1>0 DEF Replay, Entries, Entered, TypeOK, registry
<1>30. ASSUME NEW k \in Conns, Disconnect(k) PROVE Entries'
  BY <1>30, <1>0 DEF Disconnect, Entries, Entered, Live, TypeOK, None
<1>31. ASSUME RestartManager PROVE Entries'
  BY <1>31 DEF RestartManager, Entries, Entered
<1>32. CASE UNCHANGED vars
  BY <1>32 DEF vars, Entries
<1>33. ASSUME NEW b \in Branches, SwitchTo(b) PROVE Entries'
  BY <1>33 DEF SwitchTo, Entries, sidecarVars, registry
<1>34. ASSUME NEW b \in Branches, SwitchAway(b) PROVE Entries'
  BY <1>34 DEF SwitchAway, Entries, sidecarVars, registry
<1> QED
  BY <1>1, <1>2, <1>3, <1>4, <1>5, <1>6, <1>7, <1>8, <1>9, <1>10, <1>11, <1>12, <1>13,
       <1>14, <1>15, <1>16, <1>17, <1>18, <1>19, <1>20, <1>21, <1>22, <1>23,
       <1>24, <1>25, <1>26, <1>27, <1>28, <1>29, <1>30, <1>31, <1>32, <1>33, <1>34 DEF Next

\* NewestSidecarIsLive holds in every state: once the kube-manager has noticed the end
\* of every older connection and none of them was aborted between its entry and the
\* storing of its generation, the entry it sends routes to is the sidecar's own.
THEOREM NewestIsLive == Spec => []NewestSidecarIsLive
<1>1. Init => Entries /\ StreamInv
  BY IdleFact DEF Init, Entries, Entered, StreamInv, KeysShut, Registrations, Routed,
       NoStream, Callers
<1>2. Spec => []TypeInv
  BY TypeInit, TypeStep, PTL DEF Spec
<1>3. Spec => []StreamInv
  BY <1>1, <1>2, StreamStep, PTL DEF Spec
<1>4. Spec => []Entries
  BY <1>1, <1>2, <1>3, EntryStep, PTL DEF Spec
<1>5. TypeInv /\ Entries => NewestSidecarIsLive
  <2> SUFFICES ASSUME TypeInv, Entries, Settled, \A k \in Conns : conn[k] # "leaked"
               PROVE  Newest(side)
    BY DEF NewestSidecarIsLive
  <2>1. side \in Conns /\ conn[side] \in {"served", "failed"}
    BY DEF Settled, TypeInv, TypeOK
  <2>2. \A k \in Conns : k # side => entries[k] = None
    BY DEF Settled, Live, Entries, Entered
  <2>3. entries[side] # None /\ entries[side] \in Nat
    BY <2>1 DEF Entries, Entered, TypeInv, TypeOK
  <2> QED
    BY <2>1, <2>2, <2>3 DEF Newest, None
<1> QED
  BY <1>2, <1>4, <1>5, PTL
----------------------------------------------------------------------------
(* The table matches the intercepts.                                        *)

\* A registration lists while its connection is listing, and replays after that, as
\* no task does; the connection the sidecar has open is not one the kube-manager gave up.
Registers ==
    /\ \A k \in Conns :
          /\ conn[k] = "listing" <=> job[k].op = "list"
          /\ job[k].op = "replay" => conn[k] = "replay"
    /\ \A t \in Tasks : job[t].op # "replay"
    /\ side # None => conn[side] \in {"open", "inserted", "listing", "replay", "served",
                                      "failed"}

Sent == {"pick", "call", "shut"}

\* Whose route a caller sends: its own branch's or none, and where it does not
\* stop what was remembered before, to its own branch.
Aimed(j) ==
    /\ j.op \in DevboxOps =>
          /\ j.routes \subseteq {j.branch}
          /\ j.stage \in Sent \/ (j.stage = "manager" /\ (j.op # "push" => j.routes = {}))
               \/ (j.op = "push" /\ j.stage = "build" /\ j.routes = {})
    /\ j.op \in {"clear", "remove"} => j.routes = {}
    /\ j.op = "set" /\ j.stage \in Sent => j.routes = {j.branch}
    /\ j.op = "replay" => j.routes = {j.branch}
    /\ /\ j.op \in DevboxOps \cup {"replay"} /\ j.stage \in Sent
       /\ j.op # "push" \/ j.routes # {}
       => j.on = j.branch
    /\ j.stage \in {"call", "shut"} => j.via # None

\* The tasks of the user of b, and those of them that ran beside another.
Pending(b) == {t \in Tasks : job[t].branch = b /\ job[t].op \in DevboxOps}
Excused(b) == Pending(b) \cap met # {}

\* What a task that is alone has made of the route of its branch, and what it may
\* rely on: nobody registers, and the user does nothing that spawns another.
Calm(t) ==
    LET j == job[t]
        b == job[t].branch
    IN  /\ Registering = {} /\ Pending(b) = {t}
        /\ j.op = "clear" => session[b] # "up" /\ b \notin outside
        /\ j.op = "remove" => (session[b] = "up" => ~intercept[b]) /\ b \notin outside
        /\ j.op = "set" => /\ session[b] = "up" => intercept[b]
                           /\ session[b] \in {"off", "elsewhere"} => b \in outside
        /\ j.op = "push" => session[b] \in {"up", "leaving"}
        /\ j.op = "push" /\ j.stage # "build" /\ session[b] = "up"
             => (intercept[b] <=> j.routes # {})
        /\ j.stage \in Sent => (snap = b <=> j.routes # {})
        /\ j.stage = "shut" /\ j.on = b /\ j.via = side
             => (table[b] = "devbox" <=> j.routes # {})

\* The sidecar has not yet been sent the remembered route of b.
Awaits(b) ==
    \/ side = None
    \/ conn[side] \in {"open", "inserted", "listing"}
    \/ conn[side] = "replay" /\ job[side].op # "replay"
    \/ job[side].op = "replay" /\ job[side].branch = b /\ job[side].stage \in {"pick", "call"}

\* A task is about to write what it made the kube-manager remember or forget.
Sending(b) == \E t \in Pending(b) : job[t].stage \in {"pick", "call"} /\ job[t].routes # {}
Stopping(b) ==
    \E t \in Pending(b) :
        job[t].stage \in {"pick", "call"} /\ job[t].routes = {} /\ job[t].on = b

\* The registration of k is about to replay the route of b.
InFlight(k, b) ==
    job[k].op = "replay" /\ job[k].branch = b /\ job[k].stage \in {"pick", "call"}

\* The table and the remembered route agree, or whoever makes them agree is on
\* its way.
TableMatches(b) ==
    /\ table[b] = "devbox" /\ snap # b => Stopping(b)
    /\ table[b] # "devbox" /\ snap = b => Sending(b) \/ Awaits(b)
    /\ \A k \in Conns : InFlight(k, b) => snap = b

\* The remembered route is what the user of b wants, once no task is under way: that
\* of the intercept, or the one that was started from another environment.
SnapMatches(b) ==
    /\ session[b] = "up" => (snap = b <=> intercept[b])
    /\ session[b] \in {"off", "elsewhere"} => (snap = b <=> b \in outside)

Shaped == Registers /\ \A x \in Callers : Aimed(job[x])
Calmness == \A t \in Tasks \ met : job[t].op \in DevboxOps => Calm(t)
Tabled == \A b \in Branches \ unsure : ~Excused(b) => TableMatches(b)
Snapped == \A b \in Branches \ unsure : Pending(b) = {} => SnapMatches(b)
Matched == Calmness /\ Tabled /\ Snapped

----------------------------------------------------------------------------
(* What the actions do to the callers.                                      *)

\* A step of caller x leaves the other callers where they are.
Only(x) == \A y \in Callers \ {x} : job'[y] = job[y]

\* The caller keeps what it is about.
Keeps(x) == job'[x].op = job[x].op /\ job'[x].branch = job[x].branch

\* A caller that ends is idle, and a registration is served, goes on to its
\* replay, or failed.
LEMMA EndEffect ==
    ASSUME TypeInv, NEW x \in Callers, NEW ok \in BOOLEAN, End(x, ok)
    PROVE  /\ Only(x) /\ job'[x] = Idle /\ met' = met \ {x}
           /\ \A k \in Conns : k # x => conn'[k] = conn[k]
           /\ x \in Tasks => conn' = conn
           /\ x \in Conns => /\ job[x].op = "replay" => conn'[x] = "served"
                             /\ job[x].op # "replay" => conn'[x] \in {"replay", "failed"}
                             /\ job[x].op = "list" /\ ok => conn'[x] = "replay"
<1>1. job \in [Callers -> Jobs] /\ conn \in [Conns -> {"new", "open", "inserted",
                 "listing", "replay", "served", "failed", "gone", "leaked"}]
  BY DEF TypeInv, JobsOK, TypeOK
<1>2. Only(x) /\ job'[x] = Idle /\ met' = met \ {x}
  BY <1>1 DEF End, Only
<1>3. x \in Tasks => conn' = conn
  BY CallersFact DEF End
<1>4. x \in Conns => conn' = [conn EXCEPT ![x] = CASE job[x].op = "replay" -> "served"
                                     [] job[x].op = "list" /\ ok -> "replay"
                                     [] OTHER -> "failed"]
  BY DEF End
<1>5. \A k \in Conns : k # x => conn'[k] = conn[k]
  BY <1>1, <1>3, <1>4 DEF Callers
<1>6. x \in Conns => /\ job[x].op = "replay" => conn'[x] = "served"
                     /\ job[x].op # "replay" => conn'[x] \in {"replay", "failed"}
                     /\ job[x].op = "list" /\ ok => conn'[x] = "replay"
  BY <1>1, <1>4
<1> QED
  BY <1>2, <1>3, <1>5, <1>6

\* A spawned task is in a free slot, at its first stage.
LEMMA SpawnEffect ==
    ASSUME TypeInv, NEW op, NEW b, Spawn(op, b)
    PROVE  \E t \in Tasks :
             /\ Only(t) /\ job[t] = Idle
             /\ job'[t].op = op /\ job'[t].branch = b /\ job'[t].stage = First(op)
             /\ job'[t].routes = {}
             /\ LET others == {x \in Tasks : job[x].branch = b /\ job[x].op \in DevboxOps}
                IN  met' = IF op \in DevboxOps /\ others \cup Registering # {}
                           THEN met \cup others \cup {t} ELSE met
<1> DEFINE j == [Idle EXCEPT !.op = op, !.branch = b, !.stage = First(op)]
<1>1. PICK t \in Tasks :
        /\ job[t] = Idle
        /\ job' = [job EXCEPT ![t] = j]
        /\ LET others == {x \in Tasks : job[x].branch = b /\ job[x].op \in DevboxOps}
           IN  met' = IF op \in DevboxOps /\ others \cup Registering # {}
                      THEN met \cup others \cup {t} ELSE met
  BY DEF Spawn
<1>2. j.op = op /\ j.branch = b /\ j.stage = First(op) /\ j.routes = {}
  BY DEF Idle
<1> HIDE DEF j
<1>3. job'[t] = j /\ Only(t)
  BY <1>1, CallersFact DEF TypeInv, JobsOK, Only
<1> QED
  BY <1>1, <1>2, <1>3

\* A task that read the database has the routes it will send.
LEMMA BuildEffect ==
    ASSUME TypeInv, NEW t \in Tasks, Build(t)
    PROVE  /\ Only(t) /\ Keeps(t) /\ job[t].stage = "build"
           /\ job[t].op \in {"push", "upsert"}
           /\ job[t].op = "push" => /\ job'[t].stage = "manager"
                                    /\ job'[t].routes = IF intercept[job[t].branch]
                                                        THEN {job[t].branch} ELSE {}
           /\ job[t].op # "push" => job'[t].stage = "pick"
<1>1. t \in Callers /\ job[t] \in Jobs /\ WellFormed(job[t]) /\ job \in [Callers -> Jobs]
  BY CallersFact DEF TypeInv, JobsOK
<1> DEFINE found == IF job[t].op = "push" THEN intercept[job[t].branch] ELSE exposed
           R == IF found THEN {job[t].branch} ELSE {}
           s == IF job[t].op = "push" THEN "manager" ELSE "pick"
           j == [job[t] EXCEPT !.routes = R, !.stage = s]
<1>2. job' = [job EXCEPT ![t] = j] /\ job[t].stage = "build"
  BY <1>1 DEF Build
<1>3. j.op = job[t].op /\ j.branch = job[t].branch /\ j.routes = R /\ j.stage = s
  BY <1>1 DEF Jobs
<1>4. job[t].op \in {"push", "upsert"}
  BY <1>1, <1>2 DEF WellFormed
<1>5. (job[t].op = "push" => s = "manager" /\ R = IF intercept[job[t].branch]
                                                  THEN {job[t].branch} ELSE {})
      /\ (job[t].op # "push" => s = "pick")
  OBVIOUS
<1> HIDE DEF j, R, s
<1>6. job'[t] = j /\ Only(t)
  BY <1>1, <1>2 DEF Only
<1> QED
  BY <1>2, <1>3, <1>4, <1>5, <1>6 DEF Keeps

\* A caller that found a sidecar is about to call it, with what it had.
LEMMA PickEffect ==
    ASSUME TypeInv, NEW x \in Callers, Pick(x), ~NoEntry
    PROVE  /\ Only(x) /\ Keeps(x) /\ job[x].stage = "pick"
           /\ job'[x].stage = "call" /\ job'[x].on = job[x].on /\ job'[x].via # None
           /\ job[x].op # "list" => job'[x].routes = job[x].routes
           /\ UNCHANGED <<met, conn, unsure>>
<1>1. job[x] \in Jobs /\ job \in [Callers -> Jobs]
  BY DEF TypeInv, JobsOK
<1> DEFINE R == IF job[x].op # "list" THEN job[x].routes
                ELSE IF exposed THEN branched ELSE {}
<1>2. PICK k \in Conns :
        job' = [job EXCEPT ![x].stage = "call", ![x].via = k, ![x].routes = R]
  BY <1>1 DEF Pick
<1>3. job[x].op # "list" => R = job[x].routes
  OBVIOUS
<1> HIDE DEF R
<1> DEFINE j == [job[x] EXCEPT !.stage = "call", !.via = k, !.routes = R]
<1>4. job' = [job EXCEPT ![x] = j]
  BY <1>1, <1>2
<1>5. /\ j.op = job[x].op /\ j.branch = job[x].branch /\ j.on = job[x].on
      /\ j.stage = "call" /\ j.via = k /\ j.routes = R
  BY <1>1 DEF Jobs
<1>6. k # None
  BY BoundsAssumption DEF Conns, None
<1>7. job[x].stage = "pick" /\ UNCHANGED <<met, conn, unsure>>
  BY DEF Pick
<1> HIDE DEF j
<1>8. job'[x] = j /\ Only(x)
  BY <1>1, <1>4 DEF Only
<1> QED
  BY <1>3, <1>5, <1>6, <1>7, <1>8 DEF Keeps

\* A removal of the remembered route goes on to stop it at the sidecar.
LEMMA RemoveEffect ==
    ASSUME TypeInv, NEW t \in Tasks, Remove(t), snap = job[t].branch
    PROVE  /\ Only(t) /\ Keeps(t) /\ job[t].op = "remove" /\ job[t].stage = "manager"
           /\ job'[t].stage = "pick" /\ job'[t].on = job[t].branch
           /\ job'[t].routes = job[t].routes
           /\ UNCHANGED <<met, conn, unsure>> /\ snap' = NoBranch
<1>1. t \in Callers /\ job[t] \in Jobs /\ job \in [Callers -> Jobs]
  BY CallersFact DEF TypeInv, JobsOK
<1> DEFINE j == [job[t] EXCEPT !.stage = "pick", !.on = job[t].branch]
<1>2. job' = [job EXCEPT ![t] = j]
  BY <1>1 DEF Remove
<1>3. /\ j.op = job[t].op /\ j.branch = job[t].branch /\ j.on = job[t].branch
      /\ j.stage = "pick" /\ j.routes = job[t].routes
  BY <1>1 DEF Jobs
<1>4. /\ job[t].op = "remove" /\ job[t].stage = "manager" /\ UNCHANGED <<met, conn, unsure>>
      /\ snap' = NoBranch
  BY DEF Remove
<1> HIDE DEF j
<1>5. job'[t] = j /\ Only(t)
  BY <1>1, <1>2 DEF Only
<1> QED
  BY <1>3, <1>4, <1>5 DEF Keeps

\* A push without a route is the only one to forget or stop somebody else's.
Empty(t) == job[t].op = "push" /\ job[t].routes = {}

\* A push, a set or a clear goes on with the branch it is to send or to stop, and
\* the branch that was remembered before is in doubt.
LEMMA RememberEffect ==
    ASSUME TypeInv, NEW t \in Tasks, Remember(t)
    PROVE  /\ Only(t) /\ Keeps(t) /\ job[t].stage = "manager"
           /\ job[t].op \in {"push", "set", "clear"} /\ job'[t].stage = "pick"
           /\ job'[t].on = IF Empty(t) THEN snap ELSE job[t].branch
           /\ job'[t].routes = IF job[t].op = "set" THEN {job[t].branch} ELSE job[t].routes
           /\ job[t].op = "clear" => snap' = IF snap = job[t].branch THEN NoBranch ELSE snap
           /\ Empty(t) => snap' = NoBranch
           /\ job[t].op # "clear" /\ ~Empty(t) => snap' = job[t].branch
           /\ Doubt(IF snap' # snap THEN Some(snap) \ {job[t].branch} ELSE {})
<1>1. t \in Callers /\ job[t] \in Jobs /\ job \in [Callers -> Jobs]
  BY CallersFact DEF TypeInv, JobsOK
<1> DEFINE on == IF Empty(t) THEN snap ELSE job[t].branch
           R == IF job[t].op = "set" THEN {job[t].branch} ELSE job[t].routes
           j == [job[t] EXCEPT !.stage = "pick", !.on = on, !.routes = R]
<1>2. job' = [job EXCEPT ![t] = j]
  BY <1>1 DEF Remember, Empty
<1>3. /\ j.op = job[t].op /\ j.branch = job[t].branch /\ j.on = on
      /\ j.stage = "pick" /\ j.routes = R
  BY <1>1 DEF Jobs
<1>4. job[t].stage = "manager" /\ job[t].op \in {"push", "set", "clear"}
  BY DEF Remember, DevboxOps
<1>5. /\ job[t].op = "clear" => snap' = IF snap = job[t].branch THEN NoBranch ELSE snap
      /\ Empty(t) => snap' = NoBranch
      /\ job[t].op # "clear" /\ ~Empty(t) => snap' = job[t].branch
  BY DEF Remember, Empty
<1>6. Doubt(IF snap' # snap THEN Some(snap) \ {job[t].branch} ELSE {})
  BY DEF Remember
<1> HIDE DEF j, R, on
<1>7. job'[t] = j /\ Only(t)
  BY <1>1, <1>2 DEF Only
<1> QED
  BY <1>3, <1>4, <1>5, <1>6, <1>7 DEF Keeps, R, on

\* A write goes on to the end of the streams of the same call.
LEMMA WriteEffect ==
    ASSUME TypeInv, NEW x \in Callers, Write(x)
    PROVE  /\ Only(x) /\ Keeps(x) /\ job[x].stage = "call" /\ job[x].via = side
           /\ job'[x].stage = "shut" /\ job'[x].on = job[x].on
           /\ job'[x].routes = job[x].routes /\ job'[x].via = job[x].via
<1>1. job[x] \in Jobs /\ job \in [Callers -> Jobs]
  BY DEF TypeInv, JobsOK
<1> DEFINE K == Keys(x)
           j == [job[x] EXCEPT !.stage = "shut", !.keys = K]
<1>2. job' = [job EXCEPT ![x] = j] /\ job[x].stage = "call" /\ job[x].via = side
  BY <1>1 DEF Write
<1> HIDE DEF K
<1>3. /\ j.op = job[x].op /\ j.branch = job[x].branch /\ j.on = job[x].on
      /\ j.stage = "shut" /\ j.routes = job[x].routes /\ j.via = job[x].via
  BY <1>1 DEF Jobs
<1> HIDE DEF j
<1>4. job'[x] = j /\ Only(x)
  BY <1>1, <1>2 DEF Only
<1> QED
  BY <1>2, <1>3, <1>4 DEF Keeps

\* An upsert whose query failed goes on as a list.
LEMMA FallBackEffect ==
    ASSUME TypeInv, NEW t \in Tasks, FallBack(t)
    PROVE  Only(t) /\ job[t].op = "upsert" /\ job'[t].op = "list" /\ job'[t].stage = "pick"
<1>1. t \in Callers /\ job[t] \in Jobs /\ job \in [Callers -> Jobs]
  BY CallersFact DEF TypeInv, JobsOK
<1> DEFINE j == [job[t] EXCEPT !.op = "list", !.stage = "pick"]
<1>2. job' = [job EXCEPT ![t] = j] /\ job[t].op = "upsert"
  BY <1>1 DEF FallBack
<1>3. j.op = "list" /\ j.stage = "pick"
  BY <1>1 DEF Jobs
<1> HIDE DEF j
<1>4. job'[t] = j /\ Only(t)
  BY <1>1, <1>2 DEF Only
<1> QED
  BY <1>2, <1>3, <1>4

----------------------------------------------------------------------------
(* Steps that leave the tasks of the users alone.                           *)

\* A task of a user is not a registration, and only such tasks meet.
LEMMA UserTasks ==
    ASSUME TypeInv
    PROVE  /\ \A x \in Callers : job[x].op \in DevboxOps => x \in Tasks /\ x \notin Conns
           /\ \A t \in Tasks : job[t].op \in DevboxOps => job[t].branch \in Branches
           /\ met \subseteq Tasks
  BY CallersFact DEF TypeInv, JobsOK, MetOK, WellFormed, DevboxOps, Callers

\* A registration with a replay on its way is registering.
LEMMA FlightRegisters ==
    ASSUME TypeInv, Shaped, NEW k \in Conns, NEW b, InFlight(k, b)
    PROVE  k \in Registering
  BY DEF Shaped, Registers, InFlight, Registering

\* A task that is alone, and its branch.
LEMMA AloneFacts ==
    ASSUME TypeInv, Shaped, Matched, NEW t \in Tasks, job[t].op \in DevboxOps, t \notin met
    PROVE  /\ Calm(t) /\ Pending(job[t].branch) = {t} /\ ~Excused(job[t].branch)
           /\ \A k \in Conns : \A b : ~InFlight(k, b)
           /\ job[t].branch \notin unsure => TableMatches(job[t].branch)
<1>1. Calm(t)
  BY DEF Matched, Calmness
<1>2. Pending(job[t].branch) = {t} /\ Registering = {}
  BY <1>1 DEF Calm
<1>3. ~Excused(job[t].branch)
  BY <1>2 DEF Excused
<1>4. \A k \in Conns : \A b : ~InFlight(k, b)
  BY <1>2, FlightRegisters
<1>5. job[t].branch \in Branches
  BY UserTasks
<1> QED
  BY <1>1, <1>2, <1>3, <1>4, <1>5 DEF Matched, Tabled

\* A step of the connections, of the sidecar or of a task that is not a user's.
LEMMA Steady ==
    ASSUME TypeInv, Shaped, Matched,
           session' = session, intercept' = intercept, outside' = outside, snap' = snap,
           \A t \in Tasks : \/ job'[t] = job[t]
                            \/ job[t].op \notin DevboxOps /\ job'[t].op \notin DevboxOps,
           met \subseteq met', unsure \subseteq unsure',
           \/ \A t \in Tasks : job[t].op \in DevboxOps => t \in met'
           \/ Registering' \subseteq Registering /\ side' \in {side, None},
           \A b \in Branches : \/ b \in unsure' /\ Pending(b) \subseteq met'
                               \/ table'[b] = "devbox" <=> table[b] = "devbox"
                               \/ side' = None /\ table'[b] # "devbox"
                               \/ table'[b] = "devbox" /\ \E k \in Conns : InFlight(k, b),
           \A b \in Branches \ unsure' :
             /\ snap = b /\ table'[b] # "devbox" /\ Awaits(b) => Awaits(b)'
             /\ \A k \in Conns : InFlight(k, b)' => InFlight(k, b) \/ snap = b
    PROVE  Matched'
<1>1. \A t \in Tasks : job[t].op \in DevboxOps \/ job'[t].op \in DevboxOps => job'[t] = job[t]
  OBVIOUS
<1>2. \A b : Pending(b)' = Pending(b)
  BY <1>1 DEF Pending
<1>3. \A b : Excused(b) => Excused(b)'
  BY <1>2 DEF Excused
<1>4. \A b : \A t \in Pending(b) : t \in Tasks /\ job'[t] = job[t]
  BY <1>1 DEF Pending
<1>5. \A b : (Sending(b)' <=> Sending(b)) /\ (Stopping(b)' <=> Stopping(b))
  BY <1>2, <1>4 DEF Sending, Stopping
<1>6. Calmness'
  <2> SUFFICES ASSUME NEW t \in Tasks, t \notin met', job'[t].op \in DevboxOps
               PROVE  Calm(t)'
    BY DEF Calmness
  <2>1. job'[t] = job[t] /\ t \notin met /\ job[t].op \in DevboxOps
    BY <1>1
  <2>2. Calm(t) /\ \A k \in Conns : \A b : ~InFlight(k, b)
    BY <2>1, AloneFacts
  <2>3. Registering' = {} /\ side' \in {side, None}
    BY <2>1, <2>2 DEF Calm
  <2> DEFINE b == job[t].branch
  <2>4. job[t].stage = "shut" => job[t].via # None
    BY CallersFact DEF Shaped, Aimed
  <2>5. job[t].stage = "shut" /\ job[t].on = b /\ job[t].via = side'
             => (table'[b] = "devbox" <=> job[t].routes # {})
    <3> SUFFICES ASSUME job[t].stage = "shut", job[t].on = b, job[t].via = side'
                 PROVE  table'[b] = "devbox" <=> job[t].routes # {}
      OBVIOUS
    <3>1. side' = side /\ side' # None
      BY <2>3, <2>4
    <3>2. table[b] = "devbox" <=> job[t].routes # {}
      BY <3>1, <2>2 DEF Calm
    <3>3. b \in Branches /\ ~(Pending(b) \subseteq met')
      BY <2>1, UserTasks DEF Pending
    <3>4. table'[b] = "devbox" <=> table[b] = "devbox"
      BY <3>1, <3>3, <2>2
    <3> QED
      BY <3>2, <3>4
  <2>6. Pending(b)' = Pending(b)
    BY <1>2
  <2> QED
    BY <2>1, <2>2, <2>3, <2>5, <2>6 DEF Calm, Online
<1>7. Tabled'
  <2> SUFFICES ASSUME NEW b \in Branches, b \notin unsure', ~Excused(b)'
               PROVE  TableMatches(b)'
    BY DEF Tabled
  <2>1. TableMatches(b)
    BY <1>3 DEF Matched, Tabled
  <2>2. table'[b] = "devbox" /\ snap # b => Stopping(b)'
    BY <2>1, <1>5 DEF TableMatches
  <2>3. table'[b] # "devbox" /\ snap = b => Sending(b)' \/ Awaits(b)'
    <3>1. side' = None => Awaits(b)'
      BY DEF Awaits
    <3> QED
      BY <2>1, <3>1, <1>5 DEF TableMatches
  <2>4. \A k \in Conns : InFlight(k, b)' => snap = b
    BY <2>1 DEF TableMatches
  <2> QED
    BY <2>2, <2>3, <2>4 DEF TableMatches
<1>8. Snapped'
  BY <1>2 DEF Matched, Snapped, SnapMatches
<1> QED
  BY <1>6, <1>7, <1>8 DEF Matched

----------------------------------------------------------------------------
(* Steps of the users.                                                      *)

\* Nothing of the kube-manager or the sidecar changes, and of the users only b.
OnlyUser(b) ==
    /\ UNCHANGED <<snap, conn, side, table, unsure>>
    /\ \A c \in Branches \ {b} :
          session'[c] = session[c] /\ intercept'[c] = intercept[c]
          /\ (c \in outside' <=> c \in outside)

\* The user connects, leaves, or changes the intercept without a connection.
LEMMA QuietUser ==
    ASSUME TypeInv, Shaped, Matched, NEW b \in Branches, OnlyUser(b),
           UNCHANGED <<job, met, outside>>,
           \/ /\ session[b] = "off" /\ session'[b] \in {"listed", "elsewhere"}
              /\ intercept'[b] = intercept[b]
           \/ Online(b) /\ session'[b] = "leaving" /\ intercept'[b] = intercept[b]
           \/ session[b] = "elsewhere" /\ session'[b] = "off" /\ intercept'[b] = intercept[b]
           \/ ~Connected(b) /\ session'[b] = session[b]
    PROVE  Matched'
<1>1. \A c : /\ Pending(c)' = Pending(c) /\ (Excused(c)' <=> Excused(c))
             /\ (Sending(c)' <=> Sending(c)) /\ (Stopping(c)' <=> Stopping(c))
             /\ (Awaits(c)' <=> Awaits(c)) /\ \A k \in Conns : InFlight(k, c)' <=> InFlight(k, c)
  BY DEF OnlyUser, Pending, Excused, Sending, Stopping, Awaits, InFlight
<1>2. Registering' = Registering
  BY DEF OnlyUser, Registering
<1>3. Calmness'
  <2> SUFFICES ASSUME NEW t \in Tasks, t \notin met, job[t].op \in DevboxOps
               PROVE  Calm(t)'
    BY DEF Calmness
  <2>1. Calm(t) /\ job[t].branch \in Branches
    BY AloneFacts, UserTasks
  <2>2. Pending(job[t].branch)' = Pending(job[t].branch)
    BY <1>1
  <2>3. CASE job[t].branch # b
    BY <2>1, <2>2, <2>3, <1>2 DEF Calm, OnlyUser, Online
  <2>4. CASE job[t].branch = b
    <3>1. session'[b] # "up"
      BY DEF Online, Connected
    <3>2. session'[b] \in {"off", "elsewhere"} => session[b] \in {"off", "elsewhere"}
      BY DEF Online, Connected
    <3>3. session[b] \in {"up", "leaving"} => session'[b] = "leaving"
      BY DEF Online, Connected
    <3> QED
      BY <2>1, <2>2, <2>4, <3>1, <3>2, <3>3, <1>2 DEF Calm, OnlyUser
  <2> QED
    BY <2>3, <2>4
<1>4. Tabled'
  BY <1>1 DEF Matched, Tabled, TableMatches, OnlyUser
<1>5. Snapped'
  <2> SUFFICES ASSUME NEW c \in Branches, c \notin unsure, Pending(c) = {}
               PROVE  SnapMatches(c)'
    BY <1>1 DEF Snapped, OnlyUser
  <2>1. SnapMatches(c)
    BY DEF Matched, Snapped
  <2>2. CASE c # b
    BY <2>1, <2>2 DEF SnapMatches, OnlyUser
  <2>3. CASE c = b
    <3>1. session'[b] # "up"
      BY DEF Online, Connected
    <3>2. session'[b] \in {"off", "elsewhere"} => session[b] \in {"off", "elsewhere"}
      BY DEF Online, Connected
    <3> QED
      BY <2>1, <2>3, <3>1, <3>2 DEF SnapMatches, OnlyUser
  <2> QED
    BY <2>2, <2>3
<1> QED
  BY <1>3, <1>4, <1>5 DEF Matched

\* What a new task may rely on.
Called(op, b) ==
    /\ op = "clear" => session'[b] # "up" /\ b \notin outside'
    /\ op = "remove" => ~intercept'[b] /\ b \notin outside'
    /\ op = "set" => /\ intercept'[b]
                     /\ session'[b] \in {"off", "elsewhere"} => b \in outside'
    /\ op = "push" => session'[b] = "up"

\* The user does what spawns a task.
LEMMA SpawnUser ==
    ASSUME TypeInv, Shaped, Matched, NEW b \in Branches, OnlyUser(b),
           NEW op \in DevboxOps, Spawn(op, b), Called(op, b)
    PROVE  Matched'
<1> DEFINE others == Pending(b)
<1>1. PICK t \in Tasks :
             /\ Only(t) /\ job[t] = Idle
             /\ job'[t].op = op /\ job'[t].branch = b /\ job'[t].stage = First(op)
             /\ job'[t].routes = {}
             /\ met' = IF op \in DevboxOps /\ others \cup Registering # {}
                       THEN met \cup others \cup {t} ELSE met
  BY SpawnEffect DEF Pending
<1>2. t \in Callers /\ t \notin Conns /\ job[t].op \notin DevboxOps
  BY <1>1, CallersFact, IdleFact DEF DevboxOps
<1>3. \A y \in Callers : y # t => job'[y] = job[y]
  BY <1>1 DEF Only
<1>4. job'[t].stage \in {"build", "manager"} /\ (op = "push" => job'[t].stage = "build")
  BY <1>1 DEF First, DevboxOps
<1>5. Pending(b)' = Pending(b) \cup {t}
  BY <1>1, <1>2, <1>3, CallersFact DEF Pending
<1>6. \A c : c # b => Pending(c)' = Pending(c)
  BY <1>1, <1>2, <1>3, CallersFact DEF Pending
<1>7. \A c : \A s \in Pending(c) : job'[s] = job[s] /\ s \in Tasks
  BY <1>2, <1>3, CallersFact DEF Pending
<1>8. \A c : c # b => /\ Excused(c)' <=> Excused(c)
                      /\ (Sending(c)' <=> Sending(c)) /\ (Stopping(c)' <=> Stopping(c))
  <2> SUFFICES ASSUME NEW c, c # b
               PROVE  /\ Excused(c)' <=> Excused(c)
                      /\ (Sending(c)' <=> Sending(c)) /\ (Stopping(c)' <=> Stopping(c))
    OBVIOUS
  <2>1. Pending(c)' = Pending(c) /\ Pending(c) \cap (others \cup {t}) = {}
    <3>1. Pending(c)' = Pending(c)
      BY <1>6
    <3>2. t \notin Pending(c)
      BY <1>2 DEF Pending
    <3>3. Pending(c) \cap Pending(b) = {}
      BY DEF Pending
    <3> QED
      BY <3>1, <3>2, <3>3
  <2>2. Pending(c) \cap met' = Pending(c) \cap met
    BY <2>1, <1>1
  <2>3. Excused(c)' <=> Excused(c)
    BY <2>1, <2>2 DEF Excused
  <2>4. (Sending(c)' <=> Sending(c)) /\ (Stopping(c)' <=> Stopping(c))
    BY <2>1, <1>7 DEF Sending, Stopping
  <2> QED
    BY <2>3, <2>4
<1>9. \A k \in Conns : job'[k] = job[k]
  BY <1>2, <1>3, CallersFact
<1>10. \A c : /\ Awaits(c)' <=> Awaits(c)
              /\ \A k \in Conns : InFlight(k, c)' <=> InFlight(k, c)
  <2>1. side \in Conns \cup {None}
    BY DEF TypeInv, TypeOK
  <2> QED
    BY <2>1, <1>9 DEF OnlyUser, Awaits, InFlight
<1>11. Registering' = Registering
  BY DEF OnlyUser, Registering
<1>12. others \cup Registering # {} => others \subseteq met' /\ t \in met'
  BY <1>1
<1>13. Calmness'
  <2> SUFFICES ASSUME NEW s \in Tasks, s \notin met', job'[s].op \in DevboxOps
               PROVE  Calm(s)'
    BY DEF Calmness
  <2>1. CASE s = t
    <3>1. others = {} /\ Registering = {}
      BY <2>1, <1>12
    <3>2. Pending(b)' = {s}
      BY <3>1, <2>1, <1>5
    <3> QED
      BY <3>1, <3>2, <2>1, <1>1, <1>4, <1>11 DEF Calm, Called, Sent
  <2>2. CASE s # t
    <3>1. job'[s] = job[s] /\ s \notin met
      BY <2>2, <1>1, <1>3, CallersFact
    <3>2. Calm(s) /\ job[s].branch \in Branches
      BY <3>1, AloneFacts, UserTasks
    <3>3. job[s].branch # b
      BY <3>1, <1>12 DEF Pending
    <3>4. Pending(job[s].branch)' = Pending(job[s].branch)
      BY <3>1, <3>3, <1>6
    <3> QED
      BY <3>1, <3>2, <3>3, <3>4, <1>11 DEF Calm, OnlyUser, Online
  <2> QED
    BY <2>1, <2>2
<1>14. Tabled'
  <2> SUFFICES ASSUME NEW c \in Branches, c \notin unsure, ~Excused(c)'
               PROVE  TableMatches(c)'
    BY DEF Tabled, OnlyUser
  <2>1. CASE c # b
    BY <2>1, <1>8, <1>10 DEF Matched, Tabled, TableMatches, OnlyUser
  <2>2. CASE c = b
    <3>1. others = {}
      BY <2>2, <1>5, <1>12 DEF Excused
    <3>2. TableMatches(b) /\ ~Sending(b) /\ ~Stopping(b)
      BY <2>2, <3>1 DEF Matched, Tabled, Excused, Sending, Stopping
    <3> QED
      BY <2>2, <3>2, <1>10 DEF TableMatches, OnlyUser
  <2> QED
    BY <2>1, <2>2
<1>15. Snapped'
  <2> SUFFICES ASSUME NEW c \in Branches, c \notin unsure, Pending(c)' = {}
               PROVE  SnapMatches(c)'
    BY DEF Snapped, OnlyUser
  <2>1. c # b
    BY <1>5
  <2> QED
    BY <2>1, <1>6 DEF Matched, Snapped, SnapMatches, OnlyUser
<1> QED
  BY <1>13, <1>14, <1>15 DEF Matched

----------------------------------------------------------------------------
(* Steps of the users' tasks.                                               *)

\* What a task that has changed what is remembered leaves behind.
LEMMA MeantFacts ==
    ASSUME NEW t \in Tasks, Calm(t), job[t].op \in DevboxOps, Aimed(job[t]),
           job[t].stage \in Sent
    PROVE  SnapMatches(job[t].branch)
<1> DEFINE b == job[t].branch
<1>1. snap = b <=> job[t].routes # {}
  BY DEF Calm
<1>2. CASE job[t].op \in {"clear", "remove"}
  <2>1. snap # b
    BY <1>1, <1>2 DEF Aimed
  <2> QED
    BY <2>1, <1>2 DEF Calm, SnapMatches, Online
<1>3. CASE job[t].op = "set"
  <2>1. snap = b
    BY <1>1, <1>3 DEF Aimed
  <2> QED
    BY <2>1, <1>3 DEF Calm, SnapMatches, Online
<1>4. CASE job[t].op = "push"
  <2>1. job[t].stage # "build"
    BY DEF Sent
  <2> QED
    BY <2>1, <1>1, <1>4 DEF Calm, SnapMatches
<1> QED
  BY <1>2, <1>3, <1>4 DEF DevboxOps

\* A task ends.
LEMMA TaskEnds ==
    ASSUME TypeInv, Shaped, Matched, NEW t \in Tasks, job[t].op \in DevboxOps,
           NEW b, b = job[t].branch, Only(t), job'[t] = Idle, met' = met \ {t},
           UNCHANGED <<session, intercept, outside, snap, conn, side, table>>,
           unsure \ {b} \subseteq unsure',
           \/ b \in unsure'
           \/ /\ t \notin met /\ SnapMatches(b)
              /\ table[b] = "devbox" => snap = b
              /\ table[b] # "devbox" /\ snap = b => Awaits(b)
    PROVE  Matched'
<1>1. b \in Branches /\ t \notin Conns /\ Idle.op \notin DevboxOps
  BY UserTasks, CallersFact, IdleFact DEF DevboxOps
<1>2. \A y \in Callers : y # t => job'[y] = job[y]
  BY DEF Only
<1>3. \A c : c # b => Pending(c)' = Pending(c)
  BY <1>1, <1>2, CallersFact DEF Pending
<1>4. Pending(b)' = Pending(b) \ {t} /\ t \in Pending(b)
  BY <1>1, <1>2, CallersFact DEF Pending
<1>5. \A c : c # b => /\ Excused(c)' <=> Excused(c)
                      /\ (Sending(c)' <=> Sending(c)) /\ (Stopping(c)' <=> Stopping(c))
  <2> SUFFICES ASSUME NEW c, c # b
               PROVE  /\ Excused(c)' <=> Excused(c)
                      /\ (Sending(c)' <=> Sending(c)) /\ (Stopping(c)' <=> Stopping(c))
    OBVIOUS
  <2>1. Pending(c)' = Pending(c) /\ t \notin Pending(c)
    BY <1>3 DEF Pending
  <2>2. \A s \in Pending(c) : job'[s] = job[s]
    BY <2>1, <1>2, CallersFact DEF Pending
  <2>3. Excused(c)' <=> Excused(c)
    BY <2>1 DEF Excused
  <2>4. (Sending(c)' <=> Sending(c)) /\ (Stopping(c)' <=> Stopping(c))
    BY <2>1, <2>2 DEF Sending, Stopping
  <2> QED
    BY <2>3, <2>4
<1>6. \A c : /\ Awaits(c)' <=> Awaits(c)
             /\ \A k \in Conns : InFlight(k, c)' <=> InFlight(k, c)
  <2>1. side \in Conns \cup {None} /\ \A k \in Conns : job'[k] = job[k]
    BY <1>1, <1>2, CallersFact DEF TypeInv, TypeOK
  <2> QED
    BY <2>1 DEF Awaits, InFlight
<1>7. Registering' = Registering
  BY DEF Registering
<1>8. Calmness'
  <2> SUFFICES ASSUME NEW s \in Tasks, s \notin met', job'[s].op \in DevboxOps
               PROVE  Calm(s)'
    BY DEF Calmness
  <2>1. s # t
    BY <1>1
  <2>2. job'[s] = job[s] /\ s \notin met
    BY <2>1, <1>2, CallersFact
  <2>3. Calm(s) /\ job[s].branch \in Branches /\ Pending(job[s].branch) = {s}
    BY <2>2, AloneFacts, UserTasks
  <2>4. job[s].branch # b
    BY <2>1, <2>3, <1>4
  <2>5. Pending(job[s].branch)' = Pending(job[s].branch)
    BY <2>2, <2>4, <1>3
  <2> QED
    BY <2>2, <2>3, <2>5, <1>7 DEF Calm, Online
<1>9. Tabled'
  <2> SUFFICES ASSUME NEW c \in Branches, c \notin unsure', ~Excused(c)'
               PROVE  TableMatches(c)'
    BY DEF Tabled
  <2>1. CASE c # b
    BY <2>1, <1>5, <1>6 DEF Matched, Tabled, TableMatches
  <2>2. CASE c = b
    <3>1. t \notin met
      BY <2>2
    <3>2. \A k \in Conns : ~InFlight(k, b)
      BY <3>1, AloneFacts
    <3> QED
      BY <2>2, <3>2, <1>6 DEF TableMatches
  <2> QED
    BY <2>1, <2>2
<1>10. Snapped'
  <2> SUFFICES ASSUME NEW c \in Branches, c \notin unsure', Pending(c)' = {}
               PROVE  SnapMatches(c)'
    BY DEF Snapped
  <2>1. CASE c # b
    BY <2>1, <1>3 DEF Matched, Snapped, SnapMatches
  <2>2. CASE c = b
    BY <2>2 DEF SnapMatches
  <2> QED
    BY <2>1, <2>2
<1> QED
  BY <1>8, <1>9, <1>10 DEF Matched

\* A task takes its next step; other branches keep their route, or are in doubt
\* together with their tasks.
LEMMA TaskGoesOn ==
    ASSUME TypeInv, Shaped, Matched, NEW t \in Tasks, job[t].op \in DevboxOps,
           NEW b, b = job[t].branch, Only(t), Keeps(t),
           UNCHANGED <<session, intercept, outside, conn, side>>,
           met \subseteq met', unsure \subseteq unsure',
           \A c \in Branches \ {b} : \/ c \in unsure' /\ Pending(c) \subseteq met'
                                     \/ /\ snap' = c <=> snap = c
                                        /\ table'[c] = "devbox" <=> table[c] = "devbox",
           t \notin met' =>
             /\ job[t].op = "push" /\ job'[t].stage # "build" /\ session[b] = "up"
                  => (intercept[b] <=> job'[t].routes # {})
             /\ job'[t].stage \in Sent => (snap' = b <=> job'[t].routes # {})
             /\ job'[t].stage = "shut" /\ job'[t].on = b /\ job'[t].via = side
                  => (table'[b] = "devbox" <=> job'[t].routes # {}),
           t \notin met' /\ b \notin unsure' =>
             /\ table'[b] = "devbox" /\ snap' # b
                  => job'[t].stage \in {"pick", "call"} /\ job'[t].routes = {} /\ job'[t].on = b
             /\ table'[b] # "devbox" /\ snap' = b
                  => (job'[t].stage \in {"pick", "call"} /\ job'[t].routes # {}) \/ Awaits(b)
    PROVE  Matched'
<1>1. b \in Branches /\ t \notin Conns /\ t \in Callers
  BY UserTasks, CallersFact
<1>2. \A y \in Callers : y # t => job'[y] = job[y]
  BY DEF Only
<1>3. job'[t].op = job[t].op /\ job'[t].branch = b
  BY DEF Keeps
<1>4. \A c : Pending(c)' = Pending(c)
  BY <1>2, <1>3, CallersFact DEF Pending
<1>5. t \in Pending(b)
  BY DEF Pending
<1>6. \A c : Excused(c) => Excused(c)'
  BY <1>4 DEF Excused
<1>7. \A c : c # b => (Sending(c)' <=> Sending(c)) /\ (Stopping(c)' <=> Stopping(c))
  <2> SUFFICES ASSUME NEW c, c # b
               PROVE  (Sending(c)' <=> Sending(c)) /\ (Stopping(c)' <=> Stopping(c))
    OBVIOUS
  <2>1. Pending(c)' = Pending(c) /\ t \notin Pending(c)
    BY <1>4 DEF Pending
  <2>2. \A s \in Pending(c) : job'[s] = job[s]
    BY <2>1, <1>2, CallersFact DEF Pending
  <2> QED
    BY <2>1, <2>2 DEF Sending, Stopping
<1>8. \A c : /\ Awaits(c)' <=> Awaits(c)
             /\ \A k \in Conns : InFlight(k, c)' <=> InFlight(k, c)
  <2>1. side \in Conns \cup {None} /\ \A k \in Conns : job'[k] = job[k]
    BY <1>1, <1>2, CallersFact DEF TypeInv, TypeOK
  <2> QED
    BY <2>1 DEF Awaits, InFlight
<1>9. Registering' = Registering
  BY DEF Registering
<1>10. Calmness'
  <2> SUFFICES ASSUME NEW s \in Tasks, s \notin met', job'[s].op \in DevboxOps
               PROVE  Calm(s)'
    BY DEF Calmness
  <2>0. s \notin met /\ job[s].op \in DevboxOps /\ job'[s].branch = job[s].branch
    BY <1>2, <1>3, CallersFact
  <2>1. Calm(s) /\ job[s].branch \in Branches /\ Pending(job[s].branch) = {s}
    BY <2>0, AloneFacts, UserTasks
  <2>2. Pending(job[s].branch)' = Pending(job[s].branch)
    BY <2>0, <1>4
  <2>3. CASE s = t
    <3>1. /\ Registering' = {} /\ Pending(job[s].branch)' = {s}
          /\ job'[s].op = job[s].op /\ job'[s].branch = b /\ job[s].branch = b
      BY <2>1, <2>2, <2>3, <1>3, <1>9 DEF Calm
    <3>2. /\ job[s].op = "clear" => session[b] # "up" /\ b \notin outside
          /\ job[s].op = "remove" => (session[b] = "up" => ~intercept[b]) /\ b \notin outside
          /\ job[s].op = "set" => /\ session[b] = "up" => intercept[b]
                                  /\ session[b] \in {"off", "elsewhere"} => b \in outside
          /\ job[s].op = "push" => session[b] \in {"up", "leaving"}
      BY <2>1, <3>1 DEF Calm
    <3> QED
      BY <2>3, <3>1, <3>2 DEF Calm, Online
  <2>4. CASE s # t
    <3>1. job'[s] = job[s]
      BY <2>4, <1>2, CallersFact
    <3>2. job[s].branch # b /\ ~(Pending(job[s].branch) \subseteq met')
      BY <2>1, <2>4, <1>5
    <3>3. /\ snap' = job[s].branch <=> snap = job[s].branch
          /\ table'[job[s].branch] = "devbox" <=> table[job[s].branch] = "devbox"
      BY <2>1, <3>2
    <3> QED
      BY <2>1, <2>2, <3>1, <3>3, <1>9 DEF Calm, Online
  <2> QED
    BY <2>3, <2>4
<1>11. Tabled'
  <2> SUFFICES ASSUME NEW c \in Branches, c \notin unsure', ~Excused(c)'
               PROVE  TableMatches(c)'
    BY DEF Tabled
  <2>1. CASE c # b
    BY <2>1, <1>6, <1>7, <1>8 DEF Matched, Tabled, TableMatches
  <2>2. CASE c = b
    <3>1. t \notin met' /\ t \notin met
      BY <2>2, <1>4, <1>5 DEF Excused
    <3>2. \A k \in Conns : ~InFlight(k, b)
      BY <3>1, AloneFacts
    <3>3. table'[b] = "devbox" /\ snap' # b => Stopping(b)'
      BY <2>2, <3>1, <1>4, <1>5 DEF Stopping
    <3>4. table'[b] # "devbox" /\ snap' = b => Sending(b)' \/ Awaits(b)'
      BY <2>2, <3>1, <1>4, <1>5, <1>8 DEF Sending
    <3> QED
      BY <2>2, <3>2, <3>3, <3>4, <1>8 DEF TableMatches
  <2> QED
    BY <2>1, <2>2
<1>12. Snapped'
  <2> SUFFICES ASSUME NEW c \in Branches, c \notin unsure', Pending(c)' = {}
               PROVE  SnapMatches(c)'
    BY DEF Snapped
  <2>1. c # b
    BY <1>4, <1>5
  <2> QED
    BY <2>1, <1>4 DEF Matched, Snapped, SnapMatches
<1> QED
  BY <1>10, <1>11, <1>12 DEF Matched

----------------------------------------------------------------------------
(* The tasks and registrations, action by action.                           *)

\* Nothing but tasks that are not a user's changes.
LEMMA Bystand ==
    ASSUME TypeInv, Shaped, Matched,
           UNCHANGED <<session, intercept, outside, snap, conn, table, met>>,
           side' \in {side, None},
           unsure \subseteq unsure', \A k \in Conns : job'[k] = job[k],
           \A t \in Tasks : \/ job'[t] = job[t]
                            \/ job[t].op \notin DevboxOps /\ job'[t].op \notin DevboxOps
    PROVE  Matched'
<1>1. Registering' = Registering
  BY DEF Registering
<1>2. \A b : Awaits(b) => Awaits(b)'
  <2>1. side \in Conns \cup {None}
    BY DEF TypeInv, TypeOK
  <2> QED
    BY <2>1 DEF Awaits
<1>3. \A b : \A k \in Conns : InFlight(k, b)' <=> InFlight(k, b)
  BY DEF InFlight
<1> QED
  BY <1>1, <1>2, <1>3, Steady

\* A call that is not of a user's task ends.
LEMMA CallerEnds ==
    ASSUME TypeInv, Shaped, Matched, NEW x \in Callers, NEW ok \in BOOLEAN, End(x, ok),
           job[x].op \notin DevboxOps \cup {"idle"},
           UNCHANGED <<session, intercept, outside, snap, side, table>>,
           unsure \subseteq unsure',
           \A b : x = side /\ InFlight(x, b) => b \in unsure',
           \A b \in Branches : /\ x = side /\ job[x].op = "list"
                               /\ snap = b /\ table[b] # "devbox"
                               => ok \/ b \in unsure'
    PROVE  Matched'
<1>1. /\ Only(x) /\ job'[x] = Idle /\ met' = met \ {x}
      /\ \A k \in Conns : k # x => conn'[k] = conn[k]
      /\ x \in Tasks => conn' = conn
      /\ x \in Conns => /\ job[x].op = "replay" => conn'[x] = "served"
                        /\ job[x].op # "replay" => conn'[x] \in {"replay", "failed"}
                        /\ job[x].op = "list" /\ ok => conn'[x] = "replay"
  BY EndEffect
<1>2. \A y \in Callers : y # x => job'[y] = job[y]
  BY <1>1 DEF Only
<1>3. met' = met
  BY <1>1 DEF TypeInv, MetOK
<1>4. Idle.op \notin DevboxOps /\ Idle.op # "replay"
  BY IdleFact DEF DevboxOps
<1>5. \A t \in Tasks : \/ job'[t] = job[t]
                       \/ job[t].op \notin DevboxOps /\ job'[t].op \notin DevboxOps
  BY <1>1, <1>2, <1>4, CallersFact
<1>6. x \in Conns => /\ job[x].op \in {"list", "replay"}
                     /\ job[x].op = "list" => conn[x] = "listing"
                     /\ job[x].op = "replay" => conn[x] = "replay"
  BY DEF TypeInv, JobsOK, Shaped, Registers
<1>7. Registering' \subseteq Registering
  BY <1>1, <1>6 DEF Registering, Callers
<1>8. side \in Conns \cup {None}
  BY DEF TypeInv, TypeOK
<1>9. \A b \in Branches \ unsure' :
        snap = b /\ table[b] # "devbox" /\ Awaits(b) => Awaits(b)'
  <2> SUFFICES ASSUME NEW b \in Branches, b \notin unsure', snap = b, table[b] # "devbox",
                      Awaits(b)
               PROVE  Awaits(b)'
    OBVIOUS
  <2>1. CASE side # x
    <3>1. side = None \/ (conn'[side] = conn[side] /\ job'[side] = job[side])
      BY <1>1, <1>2, <1>8, <2>1, CallersFact
    <3> QED
      BY <3>1 DEF Awaits
  <2>2. CASE side = x
    <3>0. side # None => x \in Conns
      BY <1>8, <2>2
    <3>1. CASE job[x].op = "replay"
      <4>1. side # None => InFlight(x, b)
        BY <1>6, <3>0, <3>1, <2>2 DEF Awaits, InFlight
      <4> QED
        BY <4>1, <2>2 DEF Awaits
    <3>2. CASE job[x].op # "replay"
      <4>1. side # None => job[x].op = "list" /\ ok
        BY <3>0, <3>2, <2>2, <1>6
      <4>2. side # None => conn'[x] = "replay" /\ job'[x].op # "replay"
        BY <3>0, <4>1, <1>1, <1>4
      <4> QED
        BY <4>2, <2>2 DEF Awaits
    <3> QED
      BY <3>1, <3>2
  <2> QED
    BY <2>1, <2>2
<1>10. \A b : \A k \in Conns : InFlight(k, b)' => InFlight(k, b)
  BY <1>1, <1>2, <1>4, CallersFact DEF InFlight
<1> QED
  BY <1>3, <1>5, <1>7, <1>9, <1>10, Steady

\* Only a registration that fails leaves a branch unreplayed, never a task.
LEMMA UnreplayedTask == TypeInv => \A t \in Tasks : Unreplayed(t) = {}
  BY CallersFact, BoundsAssumption DEF TypeInv, TypeOK, Unreplayed, Tasks, None

\* A caller that failed keeps Matched: its branch, or the one it did not replay,
\* is unsure.
LEMMA FailMatches ==
    ASSUME TypeInv, Shaped, Matched, NEW x \in Callers, End(x, FALSE), job[x].stage # "idle",
           UNCHANGED <<session, intercept, outside, snap, side, table>>,
           unsure \cup Failed(x) \cup Unreplayed(x) \subseteq unsure'
    PROVE  Matched'
<1>0. job[x].op # "idle" /\ WellFormed(job[x])
  BY DEF TypeInv, JobsOK, WellFormed
<1>1. CASE job[x].op \in DevboxOps
  <2>1. x \in Tasks /\ job[x].branch \in Branches
    BY <1>1, UserTasks
  <2>2. job[x].branch \in unsure'
    BY <1>1, <2>1, NoBranchAssumption DEF Failed, Some
  <2>3. Only(x) /\ job'[x] = Idle /\ met' = met \ {x} /\ conn' = conn
    BY <2>1, EndEffect
  <2> QED
    BY <1>1, <2>1, <2>2, <2>3, TaskEnds
<1>2. CASE job[x].op \notin DevboxOps
  <2>1. \A b : InFlight(x, b) => b \in unsure'
    BY <1>0, NoBranchAssumption DEF InFlight, Failed, Some, WellFormed
  <2>2. \A b \in Branches : /\ x = side /\ job[x].op = "list"
                            /\ snap = b /\ table[b] # "devbox"
                            => b \in unsure'
    BY DEF Unreplayed
  <2> QED
    BY <1>0, <1>2, <2>1, <2>2, CallerEnds
<1> QED
  BY <1>1, <1>2

\* A task that reads the database keeps Matched.
LEMMA BuildMatches ==
    ASSUME TypeInv, Shaped, Matched, NEW t \in Tasks, Build(t)
    PROVE  Matched'
<1>1. /\ Only(t) /\ Keeps(t) /\ job[t].stage = "build"
      /\ job[t].op \in {"push", "upsert"}
      /\ job[t].op = "push" => /\ job'[t].stage = "manager"
                               /\ job'[t].routes = IF intercept[job[t].branch]
                                                   THEN {job[t].branch} ELSE {}
      /\ job[t].op # "push" => job'[t].stage = "pick"
  BY BuildEffect
<1>2. UNCHANGED <<session, intercept, outside, snap, conn, side, table, met, unsure>>
  BY DEF Build, apiVars, sidecarVars
<1>3. CASE job[t].op = "push"
  <2> DEFINE b == job[t].branch
  <2>1. job[t].op \in DevboxOps /\ job'[t].stage \notin Sent
    BY <1>1, <1>3 DEF DevboxOps, Sent
  <2>2. t \notin met /\ b \notin unsure => TableMatches(b) /\ Pending(b) = {t}
    BY <2>1, AloneFacts
  <2>3. t \notin met /\ b \notin unsure => ~Sending(b) /\ ~Stopping(b)
    BY <2>2, <1>1 DEF Sending, Stopping
  <2>4. t \notin met /\ b \notin unsure => /\ table[b] = "devbox" => snap = b
                                           /\ table[b] # "devbox" /\ snap = b => Awaits(b)
    BY <2>2, <2>3 DEF TableMatches
  <2>5. intercept[b] <=> job'[t].routes # {}
    BY <1>1, <1>3
  <2>6. job'[t].stage # "shut"
    BY <1>1, <1>3
  <2> QED
    BY <1>1, <1>2, <2>1, <2>4, <2>5, <2>6, TaskGoesOn
<1>4. CASE job[t].op = "upsert"
  <2>1. job[t].op \notin DevboxOps /\ job'[t].op \notin DevboxOps
    BY <1>1, <1>4 DEF DevboxOps, Keeps
  <2>2. \A y \in Callers : y # t => job'[y] = job[y]
    BY <1>1 DEF Only
  <2> QED
    BY <1>2, <2>1, <2>2, CallersFact, Bystand
<1> QED
  BY <1>1, <1>3, <1>4

\* remove_devbox_route keeps Matched.
LEMMA RemoveMatches ==
    ASSUME TypeInv, Shaped, Matched, NEW t \in Tasks, Remove(t)
    PROVE  Matched'
<1>0. job[t].op = "remove" /\ job[t].stage = "manager"
      /\ UNCHANGED <<session, intercept, outside, side, table>>
  BY DEF Remove
<1> DEFINE b == job[t].branch
<1>1. job[t].op \in DevboxOps /\ b \in Branches
  BY <1>0, UserTasks DEF DevboxOps
<1>2. job[t].routes = {}
  BY <1>0, CallersFact DEF Shaped, Aimed
<1>3. CASE snap = b
  <2>1. /\ Only(t) /\ Keeps(t)
        /\ job'[t].stage = "pick" /\ job'[t].on = job[t].branch
        /\ job'[t].routes = job[t].routes
        /\ UNCHANGED <<met, conn, unsure>> /\ snap' = NoBranch
    BY <1>3, RemoveEffect
  <2>2. \A c \in Branches \ {b} : snap' = c <=> snap = c
    BY <1>3, <2>1, NoBranchAssumption
  <2>3. snap' # b
    BY <1>1, <2>1, NoBranchAssumption
  <2>4. job'[t].stage \in {"pick", "call"} /\ job'[t].routes = {} /\ job'[t].stage # "shut"
    BY <2>1, <1>2
  <2> QED
    BY <1>0, <1>1, <2>1, <2>2, <2>3, <2>4, TaskGoesOn
<1>4. CASE snap # b
  <2>1. End(t, TRUE) /\ Known(t, FALSE) /\ snap' = snap
    BY <1>4 DEF Remove
  <2>2. Only(t) /\ job'[t] = Idle /\ met' = met \ {t} /\ conn' = conn
    BY <2>1, CallersFact, EndEffect
  <2>3. unsure' = IF t \in met THEN unsure \cup {b} ELSE unsure
    BY <2>1 DEF Known
  <2>4. ASSUME t \notin met, b \notin unsure
        PROVE  SnapMatches(b) /\ table[b] # "devbox"
    <3>1. Calm(t) /\ TableMatches(b) /\ Pending(b) = {t}
      BY <2>4, <1>1, AloneFacts
    <3>2. ~Stopping(b)
      BY <3>1, <1>0 DEF Stopping
    <3>3. table[b] # "devbox"
      BY <3>1, <3>2, <1>4 DEF TableMatches
    <3>4. SnapMatches(b)
      BY <3>1, <1>0, <1>4 DEF SnapMatches, Calm, Online
    <3> QED
      BY <3>3, <3>4
  <2> QED
    BY <1>0, <1>1, <1>4, <2>1, <2>2, <2>3, <2>4, TaskEnds
<1> QED
  BY <1>3, <1>4

\* Who is in doubt, and its tasks with it.
LEMMA DoubtFacts ==
    ASSUME TypeInv, NEW B, Doubt(B)
    PROVE  /\ met \subseteq met' /\ unsure \subseteq unsure'
           /\ \A c \in B : c \in unsure' /\ Pending(c) \subseteq met'
  BY CallersFact DEF Doubt, Pending

\* A change of what the kube-manager remembers keeps Matched.
LEMMA RememberMatches ==
    ASSUME TypeInv, Shaped, Matched, NEW t \in Tasks, Remember(t)
    PROVE  Matched'
<1> DEFINE b == job[t].branch
<1>1. /\ Only(t) /\ Keeps(t) /\ job[t].stage = "manager"
      /\ job[t].op \in {"push", "set", "clear"} /\ job'[t].stage = "pick"
      /\ job'[t].on = IF Empty(t) THEN snap ELSE b
      /\ job'[t].routes = IF job[t].op = "set" THEN {b} ELSE job[t].routes
      /\ job[t].op = "clear" => snap' = IF snap = b THEN NoBranch ELSE snap
      /\ Empty(t) => snap' = NoBranch
      /\ job[t].op # "clear" /\ ~Empty(t) => snap' = b
      /\ Doubt(IF snap' # snap THEN Some(snap) \ {b} ELSE {})
  BY RememberEffect
<1>2. UNCHANGED <<session, intercept, outside, conn, side, table>>
  BY DEF Remember, apiVars, sidecarVars
<1>3. job[t].op \in DevboxOps /\ b \in Branches
  BY <1>1, UserTasks DEF DevboxOps
<1>4. met \subseteq met' /\ unsure \subseteq unsure'
  BY <1>1, DoubtFacts
<1>5. \A c \in Branches \ {b} : \/ c \in unsure' /\ Pending(c) \subseteq met'
                                \/ snap' = c <=> snap = c
  <2> SUFFICES ASSUME NEW c \in Branches, c # b, ~(snap' = c <=> snap = c)
               PROVE  c \in unsure' /\ Pending(c) \subseteq met'
    OBVIOUS
  <2>1. snap' \in {snap, NoBranch, b}
    BY <1>1
  <2>2. snap = c /\ snap' # snap
    BY <2>1, NoBranchAssumption
  <2>3. Doubt(Some(snap) \ {b}) /\ c \in Some(snap) \ {b}
    BY <2>2, <1>1, NoBranchAssumption DEF Some
  <2> QED
    BY <2>3, DoubtFacts
<1>6. job[t].op = "clear" => job[t].routes = {}
  BY CallersFact DEF Shaped, Aimed
<1>7. snap' = b <=> job'[t].routes # {}
  BY <1>1, <1>3, <1>6, NoBranchAssumption DEF Empty
<1>8. ASSUME t \notin met', b \notin unsure', table[b] = "devbox", snap' # b
      PROVE  job'[t].routes = {} /\ job'[t].on = b
  <2>1. job'[t].routes = {}
    BY <1>7, <1>8
  <2>2. CASE ~Empty(t)
    BY <1>1, <2>1, <2>2
  <2>3. CASE Empty(t)
    <3>1. TableMatches(b) /\ Pending(b) = {t}
      BY <1>3, <1>4, <1>8, AloneFacts
    <3>2. ~Stopping(b)
      BY <3>1, <1>1 DEF Stopping
    <3>3. snap = b
      BY <3>1, <3>2, <1>8 DEF TableMatches
    <3> QED
      BY <1>1, <2>1, <2>3, <3>3
  <2> QED
    BY <2>2, <2>3
<1>9. ASSUME t \notin met', job[t].op = "push", session[b] = "up"
      PROVE  intercept[b] <=> job'[t].routes # {}
  <2>1. Calm(t)
    BY <1>3, <1>4, <1>9, AloneFacts
  <2> QED
    BY <2>1, <1>1, <1>9 DEF Calm
<1>10. job'[t].stage \in {"pick", "call"} /\ job'[t].stage # "shut"
  BY <1>1
<1> HIDE DEF b
<1>11. b = job[t].branch
  BY DEF b
<1> QED
  BY <1>1, <1>2, <1>3, <1>4, <1>5, <1>7, <1>8, <1>9, <1>10, <1>11, TaskGoesOn

\* A caller that picks its sidecar, or finds none, keeps Matched.
LEMMA PickMatches ==
    ASSUME TypeInv, Entries, Shaped, Matched, NEW x \in Callers, Pick(x)
    PROVE  Matched'
<1> DEFINE b == job[x].branch
<1>0. job[x].stage = "pick" /\ UNCHANGED <<session, intercept, outside, snap, side, table>>
  BY DEF Pick
<1>1. job[x].op # "idle" /\ Aimed(job[x])
  BY <1>0 DEF TypeInv, JobsOK, WellFormed, Shaped
<1>2. ASSUME ~NoEntry PROVE Matched'
  <2>1. /\ Only(x) /\ Keeps(x)
        /\ job'[x].stage = "call" /\ job'[x].on = job[x].on /\ job'[x].via # None
        /\ job[x].op # "list" => job'[x].routes = job[x].routes
        /\ UNCHANGED <<met, conn, unsure>>
    BY <1>2, PickEffect
  <2>2. CASE job[x].op \in DevboxOps
    <3>1. x \in Tasks
      BY <2>2, UserTasks
    <3>2. job'[x].routes = job[x].routes
      BY <2>1, <2>2 DEF DevboxOps
    <3>3. ASSUME x \notin met
          PROVE  /\ job[x].op = "push" /\ session[b] = "up"
                      => (intercept[b] <=> job[x].routes # {})
                 /\ snap = b <=> job[x].routes # {}
      <4>1. Calm(x)
        BY <3>1, <3>3, <2>2, AloneFacts
      <4> QED
        BY <4>1, <1>0 DEF Calm, Sent
    <3>4. ASSUME x \notin met, b \notin unsure
          PROVE  /\ table[b] = "devbox" /\ snap # b => job[x].routes = {} /\ job[x].on = b
                 /\ table[b] # "devbox" /\ snap = b => job[x].routes # {} \/ Awaits(b)
      <4>1. TableMatches(b) /\ Pending(b) = {x}
        BY <3>1, <3>4, <2>2, AloneFacts
      <4> QED
        BY <4>1 DEF TableMatches, Sending, Stopping
    <3>5. job'[x].stage \in {"pick", "call"} /\ job'[x].stage # "shut"
      BY <2>1
    <3> HIDE DEF b
    <3>6. b = job[x].branch
      BY DEF b
    <3> QED
      BY <1>0, <2>1, <2>2, <3>1, <3>2, <3>3, <3>4, <3>5, <3>6, TaskGoesOn
  <2>3. CASE job[x].op \notin DevboxOps
    <3>1. \A y \in Callers : y # x => job'[y] = job[y]
      BY <2>1 DEF Only
    <3>2. job'[x].op = job[x].op /\ job'[x].branch = job[x].branch
      BY <2>1 DEF Keeps
    <3>3. \A k \in Conns : /\ job'[k].op = job[k].op /\ job'[k].branch = job[k].branch
                           /\ job'[k].stage \in {"pick", "call"}
                                <=> job[k].stage \in {"pick", "call"}
      BY <1>0, <2>1, <3>1, <3>2, CallersFact
    <3>4. \A c : \A k \in Conns : InFlight(k, c)' <=> InFlight(k, c)
      BY <3>3 DEF InFlight
    <3>5. side \in Conns \cup {None}
      BY DEF TypeInv, TypeOK
    <3>6. \A c : Awaits(c) => Awaits(c)'
      BY <1>0, <2>1, <3>3, <3>5 DEF Awaits
    <3>7. Registering' = Registering
      BY <2>1 DEF Registering
    <3>8. \A t \in Tasks : \/ job'[t] = job[t]
                           \/ job[t].op \notin DevboxOps /\ job'[t].op \notin DevboxOps
      BY <2>3, <3>1, <3>2, CallersFact
    <3> QED
      BY <1>0, <2>1, <3>4, <3>6, <3>7, <3>8, Steady
  <2> QED
    BY <2>2, <2>3
<1>3. ASSUME NoEntry PROVE Matched'
  <2> DEFINE stopping == job[x].op \in DevboxOps /\ job[x].routes = {}
  <2>1. /\ End(x, TRUE)
        /\ unsure' = IF stopping \/ x \in met THEN unsure \cup {b} ELSE unsure
    BY <1>3 DEF Pick
  <2>2. side # None => conn[side] \notin Entered
    BY <1>3 DEF NoEntry, Entries, TypeInv, TypeOK
  <2>3. CASE job[x].op \in DevboxOps
    <3>1. x \in Tasks
      BY <2>3, UserTasks
    <3>2. Only(x) /\ job'[x] = Idle /\ met' = met \ {x} /\ conn' = conn
      BY <2>1, <3>1, EndEffect
    <3>3. ASSUME b \notin unsure'
          PROVE  x \notin met /\ SnapMatches(b) /\ snap = b /\ Awaits(b)
      <4>1. x \notin met /\ job[x].routes # {}
        BY <2>1, <2>3, <3>3
      <4>2. Calm(x)
        BY <3>1, <2>3, <4>1, AloneFacts
      <4>3. SnapMatches(b)
        BY <3>1, <4>2, <2>3, <1>0, <1>1, MeantFacts DEF Sent
      <4>4. snap = b /\ Registering = {}
        BY <4>1, <4>2, <1>0 DEF Calm, Sent
      <4>5. side = None
        <5>1. side # None => conn[side] = "open"
          BY <2>2 DEF Shaped, Registers, Entered
        <5> QED
          BY <5>1, <4>4 DEF Registering, TypeInv, TypeOK
      <4> QED
        BY <4>1, <4>3, <4>4, <4>5 DEF Awaits
    <3>4. unsure \subseteq unsure'
      BY <2>1
    <3> HIDE DEF b
    <3>5. b = job[x].branch
      BY DEF b
    <3> QED
      BY <1>0, <2>3, <3>1, <3>2, <3>3, <3>4, <3>5, TaskEnds
  <2>4. CASE job[x].op \notin DevboxOps
    <3>1. \A c : x = side /\ InFlight(x, c) => FALSE
      <4> SUFFICES ASSUME NEW c, x = side, InFlight(x, c) PROVE FALSE
        OBVIOUS
      <4>0. x # None
        BY BoundsAssumption DEF Callers, Tasks, Conns, None
      <4>1. x \in Conns /\ side # None
        BY <4>0 DEF TypeInv, TypeOK
      <4>2. conn[x] = "replay"
        BY <4>1 DEF InFlight, Shaped, Registers
      <4> QED
        BY <4>1, <4>2, <2>2 DEF Entered
    <3>2. unsure \subseteq unsure'
      BY <2>1
    <3> QED
      BY <1>0, <1>1, <2>1, <2>4, <3>1, <3>2, CallerEnds
  <2> QED
    BY <2>3, <2>4
<1> QED
  BY <1>2, <1>3

\* The table after a devbox route was written, and after a service route was.
LEMMA WrittenFacts ==
    ASSUME TypeInv, NEW x \in Callers, Write(x)
    PROVE  /\ job[x].op \in DevboxOps \cup {"replay"} => \A c \in Branches :
                table'[c] = IF c # job[x].on \/ table[c] = "none" THEN table[c]
                            ELSE IF job[x].op = "replay" \/ job[x].routes # {}
                                 THEN "devbox" ELSE "service"
           /\ job[x].op \notin DevboxOps \cup {"replay"} => \A c \in Branches :
                \/ table'[c] = "devbox" <=> table[c] = "devbox"
                \/ table[c] = "devbox" /\ table'[c] = "none"
<1>0. /\ job[x] \in Jobs /\ WellFormed(job[x]) /\ table \in [Branches -> Modes]
      /\ job[x].stage = "call" /\ table' = Written(x)
  BY DEF TypeInv, TypeOK, JobsOK, Write
<1>1. job[x].op \in DevboxOps \cup {"upsert", "drop", "replay", "list"}
  BY <1>0 DEF WellFormed, Jobs, RouteOps
<1>2. ASSUME job[x].op \in DevboxOps \cup {"replay"}, NEW c \in Branches
      PROVE  table'[c] = IF c # job[x].on \/ table[c] = "none" THEN table[c]
                         ELSE IF job[x].op = "replay" \/ job[x].routes # {}
                              THEN "devbox" ELSE "service"
  BY <1>0, <1>2 DEF Written, DevboxOps
<1>3. ASSUME job[x].op \notin DevboxOps \cup {"replay"}, NEW c \in Branches
      PROVE  \/ table'[c] = "devbox" <=> table[c] = "devbox"
             \/ table[c] = "devbox" /\ table'[c] = "none"
  <2>1. CASE job[x].op = "list"
    BY <1>0, <2>1 DEF Written, Replace, DevboxOps, Modes
  <2>2. CASE job[x].op \in {"upsert", "drop"}
    BY <1>0, <2>2 DEF Written, WellFormed, DevboxOps, Modes
  <2> QED
    BY <1>1, <1>3, <2>1, <2>2
<1> QED
  BY <1>2, <1>3

\* Which branches a write leaves in doubt.
LEMMA WriteDoubtFacts ==
    ASSUME TypeInv, NEW x \in Callers, Write(x)
    PROVE  /\ met \subseteq met' /\ unsure \subseteq unsure'
           /\ \A c \in Branches :
                \/ table[c] = "devbox" /\ table'[c] = "none"
                \/ c = job[x].on /\ c # job[x].branch
                \/ /\ job[x].op \in {"set", "replay", "push"} /\ job[x].routes # {}
                   /\ c = job[x].on /\ table[c] = "none"
                => c \in unsure' /\ Pending(c) \subseteq met'
<1> DEFINE lost == {b \in Branches : table[b] = "devbox" /\ table'[b] = "none"}
           stopped == Some(job[x].on) \ {job[x].branch}
           unknown == IF job[x].op \in {"set", "replay", "push"} /\ job[x].routes # {}
                      THEN {b \in {job[x].on} : table[b] = "none"} ELSE {}
           B == lost \cup stopped \cup unknown
<1>1. Doubt(B)
  BY DEF Write
<1>2. \A c \in Branches :
                \/ table[c] = "devbox" /\ table'[c] = "none"
                \/ c = job[x].on /\ c # job[x].branch
                \/ /\ job[x].op \in {"set", "replay", "push"} /\ job[x].routes # {}
                   /\ c = job[x].on /\ table[c] = "none"
                => c \in B
  BY NoBranchAssumption DEF Some
<1> HIDE DEF B
<1>3. met \subseteq met' /\ unsure \subseteq unsure'
      /\ \A c \in B : c \in unsure' /\ Pending(c) \subseteq met'
  BY <1>1, DoubtFacts
<1> QED
  BY <1>2, <1>3

\* A write of the sidecar's table keeps Matched.
LEMMA WriteMatches ==
    ASSUME TypeInv, Shaped, Matched, NEW x \in Callers, Write(x)
    PROVE  Matched'
<1> DEFINE b == job[x].branch
           on == job[x].on
<1>1. /\ Only(x) /\ Keeps(x) /\ job[x].stage = "call" /\ job[x].via = side
      /\ job'[x].stage = "shut" /\ job'[x].on = job[x].on
      /\ job'[x].routes = job[x].routes /\ job'[x].via = job[x].via
  BY WriteEffect
<1>2. UNCHANGED <<session, intercept, outside, snap, conn, side>>
  BY DEF Write, apiVars, sidecarVars
<1>3. met \subseteq met' /\ unsure \subseteq unsure'
  BY WriteDoubtFacts
<1>4. \A c \in Branches :
                \/ table[c] = "devbox" /\ table'[c] = "none"
                \/ c = on /\ c # b
                \/ /\ job[x].op \in {"set", "replay", "push"} /\ job[x].routes # {}
                   /\ c = on /\ table[c] = "none"
                => c \in unsure' /\ Pending(c) \subseteq met'
  BY WriteDoubtFacts
<1>5. Aimed(job[x])
  BY DEF Shaped
<1>6. CASE job[x].op \in DevboxOps
  <2>1. x \in Tasks /\ b \in Branches /\ x \in Pending(b)
    BY <1>6, UserTasks DEF Pending
  <2>2. \A c \in Branches :
          table'[c] = IF c # on \/ table[c] = "none" THEN table[c]
                      ELSE IF job[x].routes # {} THEN "devbox" ELSE "service"
    BY <1>6, WrittenFacts DEF DevboxOps
  <2>3. \A c \in Branches \ {b} : \/ c \in unsure' /\ Pending(c) \subseteq met'
                                  \/ /\ snap' = c <=> snap = c
                                     /\ table'[c] = "devbox" <=> table[c] = "devbox"
    BY <1>2, <1>4, <2>2
  <2>4. job[x].op # "push" \/ job[x].routes # {} => on = b
    BY <1>1, <1>5, <1>6 DEF Aimed, Sent
  <2>5. job[x].routes # {} => job[x].op \in {"set", "push"}
    BY <1>5, <1>6 DEF Aimed, DevboxOps
  <2>6. ASSUME x \notin met', on = b
        PROVE  table'[b] = "devbox" <=> job[x].routes # {}
    <3>1. job[x].routes # {} => table[b] # "none"
      BY <1>4, <2>1, <2>5, <2>6
    <3> QED
      BY <2>1, <2>2, <2>6, <3>1
  <2>7. ASSUME x \notin met'
        PROVE  /\ job[x].op = "push" /\ session[b] = "up"
                    => (intercept[b] <=> job[x].routes # {})
               /\ snap = b <=> job[x].routes # {}
    <3>1. Calm(x)
      BY <1>3, <1>6, <2>1, <2>7, AloneFacts
    <3> QED
      BY <3>1, <1>1 DEF Calm, Sent
  <2>8. ASSUME x \notin met', b \notin unsure'
        PROVE  table'[b] = "devbox" <=> snap = b
    <3>1. CASE on = b
      BY <2>6, <2>7, <2>8, <3>1
    <3>2. CASE on # b
      <4>1. snap # b
        BY <2>4, <2>7, <2>8, <3>2
      <4>2. TableMatches(b) /\ Pending(b) = {x}
        BY <1>3, <1>6, <2>1, <2>8, AloneFacts
      <4>3. ~Stopping(b)
        BY <4>2, <3>2 DEF Stopping
      <4>4. table[b] # "devbox"
        BY <4>1, <4>2, <4>3 DEF TableMatches
      <4> QED
        BY <4>1, <4>4, <2>1, <2>2, <3>2
    <3> QED
      BY <3>1, <3>2
  <2> HIDE DEF b, on
  <2>9. b = job[x].branch /\ on = job[x].on
    BY DEF b, on
  <2> QED
    BY <1>1, <1>2, <1>3, <1>6, <2>1, <2>3, <2>6, <2>7, <2>8, <2>9, TaskGoesOn
<1>7. CASE job[x].op \notin DevboxOps
  <2>1. \A y \in Callers : y # x => job'[y] = job[y]
    BY <1>1 DEF Only
  <2>2. job'[x].op = job[x].op /\ job'[x].branch = job[x].branch
    BY <1>1 DEF Keeps
  <2>3. \A t \in Tasks : \/ job'[t] = job[t]
                         \/ job[t].op \notin DevboxOps /\ job'[t].op \notin DevboxOps
    BY <1>7, <2>1, <2>2, CallersFact
  <2>4. Registering' = Registering
    BY <1>2 DEF Registering
  <2>5. \A c : \A k \in Conns : InFlight(k, c)' => InFlight(k, c)
    BY <1>1, <2>1, <2>2, CallersFact DEF InFlight
  <2>6. job[x].op = "replay" => on = b /\ b \in Branches /\ job[x].routes = {b} /\ x \in Conns
                                /\ InFlight(x, b)
    <3>1. job[x].op = "replay" => on = b /\ job[x].routes = {b}
      BY <1>1, <1>5 DEF Aimed, Sent
    <3>2. job[x].op = "replay" => b \in Branches
      BY DEF TypeInv, JobsOK, WellFormed
    <3>3. job[x].op = "replay" => x \in Conns
      BY DEF Shaped, Registers, Callers
    <3> QED
      BY <3>1, <3>2, <3>3, <1>1 DEF InFlight
  <2>7. \A c \in Branches : \/ c \in unsure' /\ Pending(c) \subseteq met'
                            \/ table'[c] = "devbox" <=> table[c] = "devbox"
                            \/ table'[c] = "devbox" /\ \E k \in Conns : InFlight(k, c)
    <3>1. CASE job[x].op = "replay"
      BY <3>1, <2>6, WrittenFacts
    <3>2. CASE job[x].op # "replay"
      BY <3>2, <1>4, <1>7, WrittenFacts
    <3> QED
      BY <3>1, <3>2
  <2>8. ASSUME NEW c \in Branches, c \notin unsure', table'[c] # "devbox", Awaits(c)
        PROVE  Awaits(c)'
    <3>0. side \in Conns \cup {None}
      BY DEF TypeInv, TypeOK
    <3>1. CASE x # side
      <4>1. side = None \/ job'[side] = job[side]
        BY <3>0, <3>1, <2>1, CallersFact
      <4> QED
        BY <4>1, <2>8, <1>2 DEF Awaits
    <3>2. CASE x = side /\ job[x].op # "replay"
      BY <3>2, <2>2, <2>8, <1>2 DEF Awaits
    <3>3. CASE x = side /\ job[x].op = "replay"
      <4>1. conn[x] = "replay" /\ side # None
        BY <3>3, <2>6, BoundsAssumption DEF Shaped, Registers, Conns, None
      <4>2. c = b
        BY <4>1, <3>3, <2>8 DEF Awaits
      <4>3. table[c] # "none"
        BY <4>2, <3>3, <2>6, <2>8, <1>4
      <4>4. table'[c] = "devbox"
        BY <4>2, <4>3, <3>3, <2>6, WrittenFacts
      <4> QED
        BY <4>4, <2>8
    <3> QED
      BY <3>1, <3>2, <3>3
  <2> QED
    BY <1>2, <1>3, <2>3, <2>4, <2>5, <2>7, <2>8, Steady
<1> QED
  BY <1>6, <1>7

\* The end of a call keeps Matched.
LEMMA AnswerMatches ==
    ASSUME TypeInv, Shaped, Matched, NEW x \in Callers, Answer(x)
    PROVE  Matched'
<1> DEFINE b == job[x].branch
<1>0. /\ job[x].stage = "shut" /\ job[x].via = side
      /\ End(x, TRUE) /\ Known(x, job[x].on = b)
      /\ UNCHANGED <<session, intercept, outside, snap, side, table>>
  BY DEF Answer
<1>1. job[x].op # "idle" /\ Aimed(job[x])
  BY <1>0 DEF TypeInv, JobsOK, WellFormed, Shaped
<1>2. CASE job[x].op \in DevboxOps
  <2>1. x \in Tasks
    BY <1>2, UserTasks
  <2>2. Only(x) /\ job'[x] = Idle /\ met' = met \ {x} /\ conn' = conn
    BY <1>0, <2>1, EndEffect
  <2>3. /\ x \in met => unsure' = unsure \cup {b}
        /\ x \notin met => unsure' = IF job[x].on = b THEN unsure \ {b} ELSE unsure
    BY <1>0, <1>2 DEF Known
  <2>4. ASSUME b \notin unsure'
        PROVE  x \notin met /\ SnapMatches(b) /\ (table[b] = "devbox" <=> snap = b)
    <3>1. x \notin met
      BY <2>3, <2>4
    <3>2. Calm(x) /\ Pending(b) = {x}
      BY <3>1, <2>1, <1>2, AloneFacts
    <3>3. SnapMatches(b) /\ (snap = b <=> job[x].routes # {})
      BY <3>2, <2>1, <1>0, <1>1, <1>2, MeantFacts DEF Calm, Sent
    <3>4. CASE job[x].on = b
      BY <3>1, <3>2, <3>3, <3>4, <1>0 DEF Calm
    <3>5. CASE job[x].on # b
      <4>1. snap # b
        BY <3>3, <3>5, <1>0, <1>1, <1>2 DEF Aimed, Sent
      <4>2. TableMatches(b)
        BY <3>1, <3>5, <2>1, <2>3, <2>4, <1>2, AloneFacts
      <4>3. ~Stopping(b)
        BY <3>2, <1>0 DEF Stopping
      <4> QED
        BY <4>1, <4>2, <4>3, <3>1, <3>3 DEF TableMatches
    <3> QED
      BY <3>4, <3>5
  <2>5. unsure \ {b} \subseteq unsure'
    BY <2>3
  <2> HIDE DEF b
  <2>6. b = job[x].branch
    BY DEF b
  <2> QED
    BY <1>0, <1>2, <2>1, <2>2, <2>4, <2>5, <2>6, TaskEnds
<1>3. CASE job[x].op \notin DevboxOps
  <2>1. x \notin met
    BY <1>3 DEF TypeInv, MetOK
  <2>2. unsure' = unsure
    BY <2>1, <1>0, <1>3 DEF Known
  <2>3. \A c : ~InFlight(x, c)
    BY <1>0 DEF InFlight
  <2> QED
    BY <1>0, <1>1, <1>3, <2>2, <2>3, CallerEnds
<1> QED
  BY <1>2, <1>3

----------------------------------------------------------------------------
(* The connections and restarts.                                            *)

\* Connection k takes a step of its registration, or its end is noticed.
LEMMA ConnMatches ==
    ASSUME TypeInv, Shaped, Matched, NEW k \in Conns, Only(k),
           UNCHANGED <<session, intercept, outside, snap, side, table, met>>,
           unsure \subseteq unsure',
           \A i \in Conns : i # k => conn'[i] = conn[i], k \in Registering' => k \in Registering,
           \A b \in Branches : k = side /\ snap = b /\ Awaits(b) => Awaits(b)',
           \A b \in Branches : InFlight(k, b)' => InFlight(k, b) \/ snap = b
    PROVE  Matched'
<1>1. \A y \in Callers : y # k => job'[y] = job[y]
  BY DEF Only
<1>2. side \in Conns \cup {None}
  BY DEF TypeInv, TypeOK
<1>3. \A t \in Tasks : job'[t] = job[t]
  BY <1>1, CallersFact
<1>4. Registering' \subseteq Registering
  BY DEF Registering
<1>5. \A b \in Branches : snap = b /\ Awaits(b) => Awaits(b)'
  <2>1. CASE k = side
    BY <2>1
  <2>2. CASE k # side
    <3>1. side = None \/ (conn'[side] = conn[side] /\ job'[side] = job[side])
      BY <1>1, <1>2, <2>2, CallersFact
    <3> QED
      BY <3>1 DEF Awaits
  <2> QED
    BY <2>1, <2>2
<1>6. \A b \in Branches : \A i \in Conns : InFlight(i, b)' => InFlight(i, b) \/ snap = b
  BY <1>1, CallersFact DEF InFlight
<1> QED
  BY <1>3, <1>4, <1>5, <1>6, Steady

\* A new connection keeps Matched.
LEMMA OpenMatches ==
    ASSUME TypeInv, Shaped, Matched, NEW k \in Conns, Open(k)
    PROVE  Matched'
<1>1. /\ UNCHANGED <<session, intercept, outside, snap, job, table, unsure>>
      /\ met' = met \cup {x \in Tasks : job[x].op \in DevboxOps} /\ side' = k
      /\ conn'[k] = "open"
  BY DEF Open, apiVars, TypeInv, TypeOK
<1>2. \A b : Awaits(b)'
  BY <1>1 DEF Awaits
<1>3. \A b : \A i \in Conns : InFlight(i, b)' => InFlight(i, b)
  BY <1>1 DEF InFlight
<1> QED
  BY <1>1, <1>2, <1>3, Steady

\* The entry of a sidecar keeps Matched.
LEMMA InsertMatches ==
    ASSUME TypeInv, Shaped, Matched, NEW k \in Conns, Insert(k)
    PROVE  Matched'
<1>1. /\ UNCHANGED <<session, intercept, outside, snap, job, side, table, met, unsure>>
      /\ conn[k] = "open" /\ conn'[k] = "inserted" /\ \A i \in Conns : i # k => conn'[i] = conn[i]
  BY DEF Insert, apiVars, TypeInv, TypeOK
<1>2. k \in Registering
  BY <1>1 DEF Registering
<1>3. \A b : k = side => Awaits(b)'
  BY <1>1 DEF Awaits
<1>4. \A b : InFlight(k, b)' => InFlight(k, b)
  BY <1>1 DEF InFlight
<1>5. Only(k)
  BY <1>1 DEF Only
<1> QED
  BY <1>1, <1>2, <1>3, <1>4, <1>5, ConnMatches

\* A registration that goes on to its list, or leaves it out, keeps Matched.
LEMMA KeepMatches ==
    ASSUME TypeInv, Shaped, Matched, NEW k \in Conns, KeepGeneration(k)
    PROVE  Matched'
<1>1. /\ UNCHANGED <<session, intercept, outside, snap, side, table, met, unsure>>
      /\ conn[k] = "inserted"
  BY DEF KeepGeneration, apiVars
<1>2. \A i \in Conns : i # k => conn'[i] = conn[i]
  BY DEF KeepGeneration, TypeInv, TypeOK
<1>3. conn'[k] = "listing" \/ (conn'[k] = "replay" /\ job' = job)
  BY DEF KeepGeneration, TypeInv, TypeOK
<1>4. job' = job \/ job' = [job EXCEPT ![k] = [Idle EXCEPT !.op = "list", !.stage = "pick"]]
  BY DEF KeepGeneration
<1>5. Only(k)
  BY <1>4 DEF Only, TypeInv, JobsOK
<1>6. job[k].op # "replay"
  BY <1>1 DEF Shaped, Registers
<1>7. job'[k].op # "replay"
  <2>1. [Idle EXCEPT !.op = "list", !.stage = "pick"].op = "list"
    BY DEF Idle
  <2> QED
    BY <2>1, <1>4, <1>6, CallersFact DEF TypeInv, JobsOK
<1>8. k \in Registering
  BY <1>1 DEF Registering
<1>9. \A b : k = side => Awaits(b)'
  BY <1>1, <1>3, <1>7 DEF Awaits
<1>10. \A b : ~InFlight(k, b)'
  BY <1>7 DEF InFlight
<1> QED
  BY <1>1, <1>2, <1>5, <1>8, <1>9, <1>10, ConnMatches

\* The start of a replay keeps Matched.
LEMMA ReplayMatches ==
    ASSUME TypeInv, Shaped, Matched, NEW k \in Conns, Replay(k)
    PROVE  Matched'
<1>1. /\ UNCHANGED <<session, intercept, outside, snap, side, table, met, unsure>>
      /\ conn[k] = "replay"
  BY DEF Replay, apiVars
<1>2. \A i \in Conns : i # k => conn'[i] = conn[i]
  BY DEF Replay, TypeInv, TypeOK
<1>3. k \in Registering
  BY <1>1 DEF Registering
<1> DEFINE j == [Idle EXCEPT !.op = "replay", !.stage = "pick", !.branch = snap, !.on = snap,
                             !.routes = {snap}]
<1>4. j.op = "replay" /\ j.stage = "pick" /\ j.branch = snap
  BY DEF Idle
<1>5. snap # NoBranch => job' = [job EXCEPT ![k] = j]
  BY DEF Replay
<1>6. snap = NoBranch => job' = job
  BY DEF Replay
<1> HIDE DEF j
<1>7. snap # NoBranch => Only(k) /\ job'[k] = j
  BY <1>5, CallersFact DEF Only, TypeInv, JobsOK
<1>8. Only(k)
  BY <1>6, <1>7 DEF Only
<1>9. \A b \in Branches : InFlight(k, b)' => InFlight(k, b) \/ snap = b
  BY <1>4, <1>6, <1>7 DEF InFlight
<1>10. \A b \in Branches : k = side /\ snap = b => Awaits(b)'
  BY <1>1, <1>4, <1>7, NoBranchAssumption DEF Awaits
<1> QED
  BY <1>1, <1>2, <1>3, <1>8, <1>9, <1>10, ConnMatches

\* The cleanup of a connection keeps Matched.
LEMMA DisconnectMatches ==
    ASSUME TypeInv, Shaped, Matched, NEW k \in Conns, Disconnect(k)
    PROVE  Matched'
<1>1. /\ UNCHANGED <<session, intercept, outside, snap, side, table>>
      /\ unsure \subseteq unsure'
      /\ side # k /\ met' = met \ {k}
  BY DEF Disconnect, apiVars
<1>2. /\ \A i \in Conns : i # k => conn'[i] = conn[i]
      /\ conn'[k] \in {"leaked", "gone"}
  BY DEF Disconnect, TypeInv, TypeOK
<1>3. Only(k) /\ job'[k] = Idle
  BY CallersFact DEF Disconnect, Only, TypeInv, JobsOK
<1>4. met' = met
  BY <1>1, CallersFact, UserTasks
<1>5. k \notin Registering'
  BY <1>2 DEF Registering
<1>6. \A b : ~InFlight(k, b)'
  BY <1>3, IdleFact DEF InFlight
<1> QED
  BY <1>1, <1>2, <1>3, <1>4, <1>5, <1>6, ConnMatches

\* A restart of the sidecar keeps Matched.
LEMMA SidecarMatches ==
    ASSUME TypeInv, Shaped, Matched, RestartSidecar
    PROVE  Matched'
<1>1. /\ UNCHANGED <<session, intercept, outside, snap, conn, job, met, unsure>>
      /\ side' = None
      /\ \A b \in Branches : table'[b] = "none"
  BY DEF RestartSidecar, apiVars
<1>2. \A b : Awaits(b)'
  BY <1>1 DEF Awaits
<1>3. \A b : \A i \in Conns : InFlight(i, b)' => InFlight(i, b)
  BY <1>1 DEF InFlight
<1>4. Registering' = Registering
  BY <1>1 DEF Registering
<1> QED
  BY <1>1, <1>2, <1>3, <1>4, Steady

\* A restart of the kube-manager keeps Matched.
LEMMA ManagerMatches ==
    ASSUME TypeInv, Shaped, Matched, RestartManager
    PROVE  Matched'
<1> DEFINE hit == {x \in Callers : job[x].stage \in {"pick", "call", "shut"}}
<1>1. /\ UNCHANGED <<session, intercept, outside, table>> /\ snap' = NoBranch /\ side' = None
      /\ met' = met \ hit
      /\ \A x \in Callers : job'[x] = IF x \in hit THEN Idle ELSE job[x]
      /\ \A k \in Conns : conn'[k] \in {"new", "gone"}
      /\ unsure' = unsure \cup Some(snap) \cup UNION {Failed(x) : x \in hit}
  BY DEF RestartManager
<1>2. Registering' = {}
  BY <1>1 DEF Registering
<1>3. Idle.op \notin DevboxOps /\ Idle.op # "replay"
  BY IdleFact DEF DevboxOps
<1>4. \A t \in Tasks : job'[t].op \in DevboxOps => t \notin hit /\ job'[t] = job[t]
  BY <1>1, <1>3, CallersFact
<1>5. \A b : Pending(b)' = Pending(b) \ hit
  BY <1>1, <1>3, <1>4, CallersFact DEF Pending
<1>6. \A b \in Branches \ unsure' : /\ b \notin unsure /\ snap # b
                                    /\ Pending(b) \cap hit = {}
  <2> SUFFICES ASSUME NEW b \in Branches, b \notin unsure'
               PROVE  b \notin unsure /\ snap # b /\ Pending(b) \cap hit = {}
    OBVIOUS
  <2>1. b \notin unsure /\ snap # b
    BY <1>1, NoBranchAssumption DEF Some
  <2>2. ASSUME NEW t \in Pending(b), t \in hit PROVE FALSE
    <3>1. b \in Failed(t)
      BY <2>2, NoBranchAssumption DEF Pending, Failed, Some
    <3> QED
      BY <3>1, <2>2, <1>1
  <2> QED
    BY <2>1, <2>2
<1> HIDE DEF hit
<1>7. Calmness'
  <2> SUFFICES ASSUME NEW t \in Tasks, t \notin met', job'[t].op \in DevboxOps
               PROVE  Calm(t)'
    BY DEF Calmness
  <2>1. t \notin hit /\ job'[t] = job[t] /\ t \notin met
    BY <1>1, <1>4
  <2>2. Calm(t) /\ Pending(job[t].branch) = {t}
    BY <2>1, AloneFacts
  <2>3. job[t].stage \notin Sent /\ job[t].stage # "shut"
    BY <2>1, CallersFact DEF hit, Sent
  <2>4. Pending(job[t].branch)' = {t}
    BY <2>1, <2>2, <1>5
  <2> QED
    BY <2>1, <2>2, <2>3, <2>4, <1>1, <1>2 DEF Calm, Online
<1>8. Tabled'
  <2> SUFFICES ASSUME NEW b \in Branches, b \notin unsure', ~Excused(b)'
               PROVE  TableMatches(b)'
    BY DEF Tabled
  <2>1. b \notin unsure /\ snap # b /\ Pending(b) \cap hit = {} /\ Pending(b)' = Pending(b)
    BY <1>5, <1>6
  <2>2. ~Excused(b)
    BY <2>1, <1>1 DEF Excused
  <2>3. ~Stopping(b)
    BY <2>1, CallersFact DEF Stopping, Pending, hit
  <2>4. table[b] # "devbox"
    BY <2>1, <2>2, <2>3 DEF Matched, Tabled, TableMatches
  <2>5. \A k \in Conns : ~InFlight(k, b)'
    BY <1>1, <1>3, CallersFact DEF InFlight, hit
  <2> QED
    BY <2>4, <2>5, <1>1, NoBranchAssumption DEF TableMatches
<1>9. Snapped'
  <2> SUFFICES ASSUME NEW b \in Branches, b \notin unsure', Pending(b)' = {}
               PROVE  SnapMatches(b)'
    BY DEF Snapped
  <2>1. b \notin unsure /\ snap # b /\ Pending(b) = {}
    BY <1>5, <1>6
  <2> QED
    BY <2>1, <1>1, NoBranchAssumption DEF Matched, Snapped, SnapMatches
<1> QED
  BY <1>7, <1>8, <1>9 DEF Matched

----------------------------------------------------------------------------
(* The shape of the callers.                                                *)

\* An idle caller aims at nothing.
LEMMA AimedIdle == Aimed(Idle)
  BY DEF Aimed, Idle, DevboxOps, Sent

\* One caller changes, and of the connections only its own.
LEMMA ShapedCaller ==
    ASSUME TypeInv, Shaped, NEW x \in Callers, Only(x), NEW j, job'[x] = j, Aimed(j),
           x \in Tasks => j.op # "replay",
           x \in Conns => /\ conn'[x] = "listing" <=> j.op = "list"
                          /\ j.op = "replay" => conn'[x] = "replay"
                          /\ x = side' => conn'[x] \in {"open", "inserted", "listing",
                                                        "replay", "served", "failed"},
           \A k \in Conns : k # x => conn'[k] = conn[k],
           side' \in {side, None, x}, side' \in Conns \cup {None}
    PROVE  Shaped'
<1>1. \A y \in Callers : y # x => job'[y] = job[y]
  BY DEF Only
<1>2. \A y \in Callers : Aimed(job'[y])
  BY <1>1 DEF Shaped
<1>3. \A k \in Conns : /\ conn'[k] = "listing" <=> job'[k].op = "list"
                       /\ job'[k].op = "replay" => conn'[k] = "replay"
  BY <1>1, CallersFact DEF Shaped, Registers
<1>4. \A t \in Tasks : job'[t].op # "replay"
  BY <1>1, CallersFact DEF Shaped, Registers
<1>5. side' # None => conn'[side'] \in {"open", "inserted", "listing", "replay", "served",
                                        "failed"}
  BY DEF Shaped, Registers
<1> QED
  BY <1>2, <1>3, <1>4, <1>5 DEF Shaped, Registers, Aimed

\* A task changes.
LEMMA ShapedTask ==
    ASSUME TypeInv, Shaped, NEW t \in Tasks, Only(t), NEW j, job'[t] = j, Aimed(j),
           j.op # "replay", conn' = conn, side' = side
    PROVE  Shaped'
<1>1. side \in Conns \cup {None} /\ t \in Callers /\ t \notin Conns
  BY CallersFact DEF TypeInv, TypeOK
<1> QED
  BY <1>1, ShapedCaller

\* Steps that change no caller and no connection keep Shaped.
LEMMA ShapedStays ==
    ASSUME Shaped, job' = job, conn' = conn, side' \in {side, None}
    PROVE  Shaped'
  BY DEF Shaped, Registers, Aimed

\* A spawned task keeps Shaped.
LEMMA ShapedSpawn ==
    ASSUME TypeInv, Shaped, NEW op \in DevboxOps \cup {"upsert", "drop"}, NEW b, Spawn(op, b),
           conn' = conn, side' = side
    PROVE  Shaped'
<1>1. PICK t \in Tasks :
             /\ Only(t) /\ job[t] = Idle
             /\ job'[t].op = op /\ job'[t].branch = b /\ job'[t].stage = First(op)
             /\ job'[t].routes = {}
  BY SpawnEffect
<1>2. Aimed(job'[t])
  BY <1>1 DEF Aimed, First, DevboxOps, Sent
<1> QED
  BY <1>1, <1>2, ShapedTask DEF DevboxOps

\* A caller that ends keeps Shaped.
LEMMA ShapedEnd ==
    ASSUME TypeInv, Shaped, NEW x \in Callers, NEW ok \in BOOLEAN, End(x, ok), side' = side
    PROVE  Shaped'
<1>1. /\ Only(x) /\ job'[x] = Idle
      /\ \A k \in Conns : k # x => conn'[k] = conn[k]
      /\ x \in Tasks => conn' = conn
      /\ x \in Conns => /\ job[x].op = "replay" => conn'[x] = "served"
                        /\ job[x].op # "replay" => conn'[x] \in {"replay", "failed"}
  BY EndEffect
<1>2. Idle.op = "idle" /\ side \in Conns \cup {None}
  BY IdleFact DEF TypeInv, TypeOK
<1>3. x \in Conns => conn'[x] \in {"served", "replay", "failed"}
  BY <1>1
<1> QED
  BY <1>1, <1>2, <1>3, AimedIdle, ShapedCaller

\* A task that reads the database keeps Shaped.
LEMMA ShapedBuild ==
    ASSUME TypeInv, Shaped, NEW t \in Tasks, Build(t)
    PROVE  Shaped'
<1>1. /\ Only(t) /\ Keeps(t) /\ job[t].stage = "build"
      /\ job[t].op \in {"push", "upsert"}
      /\ job[t].op = "push" => /\ job'[t].stage = "manager"
                               /\ job'[t].routes = IF intercept[job[t].branch]
                                                   THEN {job[t].branch} ELSE {}
      /\ job[t].op # "push" => job'[t].stage = "pick"
  BY BuildEffect
<1>2. conn' = conn /\ side' = side
  BY DEF Build, sidecarVars
<1>3. Aimed(job'[t]) /\ job'[t].op # "replay"
  BY <1>1 DEF Aimed, Keeps, DevboxOps, Sent
<1> QED
  BY <1>1, <1>2, <1>3, ShapedTask

\* remove_devbox_route keeps Shaped.
LEMMA ShapedRemove ==
    ASSUME TypeInv, Shaped, NEW t \in Tasks, Remove(t)
    PROVE  Shaped'
<1>1. CASE snap = job[t].branch
  <2>1. /\ Only(t) /\ Keeps(t) /\ job[t].op = "remove"
        /\ job'[t].stage = "pick" /\ job'[t].on = job[t].branch
        /\ job'[t].routes = job[t].routes /\ conn' = conn
    BY <1>1, RemoveEffect
  <2>2. side' = side
    BY DEF Remove
  <2>3. job[t].routes = {}
    BY <2>1, CallersFact DEF Shaped, Aimed
  <2>4. Aimed(job'[t]) /\ job'[t].op # "replay"
    BY <2>1, <2>3 DEF Aimed, Keeps, DevboxOps, Sent
  <2> QED
    BY <2>1, <2>2, <2>4, ShapedTask
<1>2. CASE snap # job[t].branch
  BY <1>2, CallersFact, ShapedEnd DEF Remove
<1> QED
  BY <1>1, <1>2

\* A change of what the kube-manager remembers keeps Shaped.
LEMMA ShapedRemember ==
    ASSUME TypeInv, Shaped, NEW t \in Tasks, Remember(t)
    PROVE  Shaped'
<1>1. /\ Only(t) /\ Keeps(t)
      /\ job[t].op \in {"push", "set", "clear"} /\ job'[t].stage = "pick"
      /\ job'[t].on = IF Empty(t) THEN snap ELSE job[t].branch
      /\ job'[t].routes = IF job[t].op = "set" THEN {job[t].branch} ELSE job[t].routes
  BY RememberEffect
<1>2. conn' = conn /\ side' = side
  BY DEF Remember, sidecarVars
<1>3. /\ job[t].routes \subseteq {job[t].branch}
      /\ job[t].op = "clear" => job[t].routes = {}
  BY <1>1, CallersFact DEF Shaped, Aimed, DevboxOps
<1>4. Aimed(job'[t]) /\ job'[t].op # "replay"
  BY <1>1, <1>3 DEF Aimed, Keeps, Empty, DevboxOps, Sent
<1> QED
  BY <1>1, <1>2, <1>4, ShapedTask

\* A caller goes on with its call.
LEMMA ShapedCall ==
    ASSUME TypeInv, Shaped, NEW x \in Callers, Only(x), Keeps(x), job[x].stage \in {"pick", "call"},
           job'[x].stage \in {"call", "shut"}, job'[x].on = job[x].on, job'[x].via # None,
           job[x].op # "list" => job'[x].routes = job[x].routes, conn' = conn, side' = side
    PROVE  Shaped'
<1>1. Aimed(job'[x])
  BY DEF Shaped, Aimed, Keeps, DevboxOps, Sent
<1>2. side \in Conns \cup {None} /\ job'[x].op = job[x].op
  BY DEF TypeInv, TypeOK, Keeps
<1>3. x \in Conns => /\ conn[x] = "listing" <=> job[x].op = "list"
                     /\ job[x].op = "replay" => conn[x] = "replay"
  BY DEF Shaped, Registers
<1>4. x \in Tasks => job[x].op # "replay"
  BY DEF Shaped, Registers
<1>5. x = side /\ x \in Conns => conn[x] \in {"open", "inserted", "listing", "replay", "served",
                                  "failed"}
  BY BoundsAssumption DEF Shaped, Registers, Conns, None
<1> QED
  BY <1>1, <1>2, <1>3, <1>4, <1>5, ShapedCaller

\* Connection k takes a step that makes no call.
LEMMA ShapedConn ==
    ASSUME TypeInv, Shaped, NEW k \in Conns, Only(k), NEW j, job'[k] = j, Aimed(j),
           conn'[k] = "listing" <=> j.op = "list", j.op = "replay" => conn'[k] = "replay",
           \A i \in Conns : i # k => conn'[i] = conn[i],
           side' = side \/ side' = k,
           k = side' => conn'[k] \in {"open", "inserted", "listing", "replay", "served", "failed"}
    PROVE  Shaped'
<1>1. k \in Callers /\ k \notin Tasks /\ side \in Conns \cup {None}
  BY CallersFact DEF TypeInv, TypeOK
<1> QED
  BY <1>1, ShapedCaller

\* Every action keeps the shape of the callers.
LEMMA ShapedStep == TypeInv /\ StreamInv /\ Shaped /\ [Next]_vars => Shaped'
<1> SUFFICES ASSUME TypeInv, StreamInv, Shaped, [Next]_vars PROVE Shaped'
  OBVIOUS
<1>1. ASSUME NEW b \in Branches, StartIntercept(b) PROVE Shaped'
  <2>1. conn' = conn /\ side' = side
    BY <1>1 DEF StartIntercept, sidecarVars
  <2>2. Spawn("set", b) \/ job' = job
    BY <1>1 DEF StartIntercept
  <2> QED
    BY <2>1, <2>2, ShapedSpawn, ShapedStays DEF DevboxOps
<1>2. ASSUME NEW b \in Branches, StopIntercept(b) PROVE Shaped'
  <2>1. conn' = conn /\ side' = side
    BY <1>2 DEF StopIntercept, sidecarVars
  <2>2. Spawn("remove", b) \/ job' = job
    BY <1>2 DEF StopIntercept
  <2> QED
    BY <2>1, <2>2, ShapedSpawn, ShapedStays DEF DevboxOps
<1>3. ASSUME NEW b \in Branches, ListSession(b) PROVE Shaped'
  BY <1>3, ShapedStays DEF ListSession, sidecarVars
<1>4. ASSUME NEW b \in Branches, UnlistSession(b) PROVE Shaped'
  BY <1>4, ShapedStays DEF UnlistSession, sidecarVars
<1>5. ASSUME NEW b \in Branches, Choose(b) PROVE Shaped'
  BY <1>5, ShapedStays DEF Choose, sidecarVars
<1>6. ASSUME NEW b \in Branches, Greet(b) PROVE Shaped'
  BY <1>6, ShapedSpawn DEF Greet, sidecarVars, DevboxOps
<1>7. ASSUME NEW b \in Branches, ClearSession(b) PROVE Shaped'
  BY <1>7, ShapedSpawn DEF ClearSession, sidecarVars, DevboxOps
<1>8. ASSUME NEW b \in Branches, UpdateWorkload(b) PROVE Shaped'
  BY <1>8, ShapedSpawn DEF UpdateWorkload, sidecarVars, DevboxOps
<1>9. ASSUME NEW b \in Branches, DeleteWorkload(b) PROVE Shaped'
  BY <1>9, ShapedSpawn DEF DeleteWorkload, sidecarVars, DevboxOps
<1>10. ASSUME ChangeServices PROVE Shaped'
  BY <1>10, ShapedStays DEF ChangeServices, sidecarVars
<1>11. ASSUME Subscribe PROVE Shaped'
  BY <1>11, ShapedStays DEF Subscribe, sidecarVars
<1>12. ASSUME Finish PROVE Shaped'
  BY <1>12, ShapedStays DEF Finish, sidecarVars
<1>13. ASSUME LoseConnection PROVE Shaped'
  BY <1>13, ShapedStays DEF LoseConnection, sidecarVars
<1>14. ASSUME RestartSidecar PROVE Shaped'
  BY <1>14, ShapedStays DEF RestartSidecar, sidecarVars
<1>15. ASSUME NEW t \in Tasks, Build(t) PROVE Shaped'
  BY <1>15, ShapedBuild
<1>16. ASSUME NEW t \in Tasks, FallBack(t) PROVE Shaped'
  <2>1. Only(t) /\ job'[t].op = "list" /\ job'[t].stage = "pick"
    BY <1>16, FallBackEffect
  <2>2. Aimed(job'[t])
    BY <2>1 DEF Aimed, DevboxOps, Sent
  <2>3. conn' = conn /\ side' = side
    BY <1>16 DEF FallBack, sidecarVars
  <2> QED
    BY <2>1, <2>2, <2>3, ShapedTask
<1>17. ASSUME NEW t \in Tasks, LookupFails(t) PROVE Shaped'
  BY <1>17, CallersFact, ShapedEnd DEF LookupFails
<1>18. ASSUME NEW t \in Tasks, TaskFails(t) PROVE Shaped'
  BY <1>18, CallersFact, ShapedEnd DEF TaskFails
<1>19. ASSUME NEW t \in Tasks, Remove(t) PROVE Shaped'
  BY <1>19, ShapedRemove
<1>20. ASSUME NEW t \in Tasks, Remember(t) PROVE Shaped'
  BY <1>20, ShapedRemember
<1>21. ASSUME NEW x \in Callers, ListFails(x) PROVE Shaped'
  BY <1>21, ShapedEnd DEF ListFails
<1>22. ASSUME NEW x \in Callers, CallFails(x) PROVE Shaped'
  BY <1>22, ShapedEnd DEF CallFails
<1>23. ASSUME NEW x \in Callers, Answer(x) PROVE Shaped'
  BY <1>23, ShapedEnd DEF Answer
<1>24. ASSUME NEW x \in Callers, Pick(x) PROVE Shaped'
  <2>1. side' = side
    BY <1>24 DEF Pick
  <2>2. CASE NoEntry
    BY <1>24, <2>1, <2>2, ShapedEnd DEF Pick
  <2>3. CASE ~NoEntry
    BY <1>24, <2>1, <2>3, PickEffect, ShapedCall
  <2> QED
    BY <2>2, <2>3
<1>25. ASSUME NEW x \in Callers, Write(x) PROVE Shaped'
  <2>1. conn' = conn /\ side' = side
    BY <1>25 DEF Write, sidecarVars
  <2>2. Aimed(job[x])
    BY DEF Shaped
  <2>3. job[x].stage = "call" => job[x].via # None
    BY <2>2 DEF Aimed
  <2> QED
    BY <1>25, <2>1, <2>3, WriteEffect, ShapedCall
<1>26. ASSUME NEW k \in Conns, Open(k) PROVE Shaped'
  <2>1. /\ conn[k] = "new" /\ conn'[k] = "open" /\ job' = job /\ side' = k
        /\ \A i \in Conns : i # k => conn'[i] = conn[i]
    BY <1>26 DEF Open, TypeInv, TypeOK
  <2>2. job[k].op \notin {"list", "replay"} /\ Aimed(job[k])
    BY <2>1, CallersFact DEF Shaped, Registers
  <2>3. Only(k)
    BY <2>1 DEF Only
  <2> QED
    BY <2>1, <2>2, <2>3, ShapedConn
<1>27. ASSUME NEW k \in Conns, Insert(k) PROVE Shaped'
  <2>1. /\ conn[k] = "open" /\ conn'[k] = "inserted" /\ job' = job /\ side' = side
        /\ \A i \in Conns : i # k => conn'[i] = conn[i]
    BY <1>27 DEF Insert, TypeInv, TypeOK
  <2>2. job[k].op \notin {"list", "replay"} /\ Aimed(job[k])
    BY <2>1, CallersFact DEF Shaped, Registers
  <2>3. Only(k)
    BY <2>1 DEF Only
  <2> QED
    BY <2>1, <2>2, <2>3, ShapedConn
<1>28. ASSUME NEW k \in Conns, KeepGeneration(k) PROVE Shaped'
  <2> DEFINE j == [Idle EXCEPT !.op = "list", !.stage = "pick"]
  <2>1. /\ conn[k] = "inserted" /\ side' = side
        /\ \/ conn' = [conn EXCEPT ![k] = "listing"] /\ job' = [job EXCEPT ![k] = j]
           \/ conn' = [conn EXCEPT ![k] = "replay"] /\ job' = job
    BY <1>28 DEF KeepGeneration
  <2>2. job[k].op \notin {"list", "replay"} /\ Aimed(job[k])
    BY <2>1, CallersFact DEF Shaped, Registers
  <2>3. j.op = "list" /\ Aimed(j)
    BY DEF Idle, Aimed, DevboxOps, Sent
  <2> HIDE DEF j
  <2>4. conn \in ConnStates /\ job \in [Callers -> Jobs]
    BY DEF TypeInv, TypeOK, ConnStates
  <2>5. CASE conn' = [conn EXCEPT ![k] = "listing"] /\ job' = [job EXCEPT ![k] = j]
    <3>1. /\ Only(k) /\ job'[k] = j /\ conn'[k] = "listing"
          /\ \A i \in Conns : i # k => conn'[i] = conn[i]
      BY <2>4, <2>5, CallersFact DEF Only, ConnStates
    <3> QED
      BY <3>1, <2>1, <2>3, ShapedConn
  <2>6. CASE conn' = [conn EXCEPT ![k] = "replay"] /\ job' = job
    <3>1. /\ Only(k) /\ job'[k] = job[k] /\ conn'[k] = "replay"
          /\ \A i \in Conns : i # k => conn'[i] = conn[i]
      BY <2>4, <2>6 DEF Only, ConnStates
    <3> QED
      BY <3>1, <2>1, <2>2, ShapedConn
  <2> QED
    BY <2>1, <2>5, <2>6
<1>29. ASSUME NEW k \in Conns, Replay(k) PROVE Shaped'
  <2> DEFINE j == [Idle EXCEPT !.op = "replay", !.stage = "pick", !.branch = snap,
                               !.on = snap, !.routes = {snap}]
  <2>1. /\ conn[k] = "replay" /\ side' = side /\ job[k] = Idle
        /\ \/ conn' = [conn EXCEPT ![k] = "served"] /\ job' = job
           \/ conn' = conn /\ job' = [job EXCEPT ![k] = j]
    BY <1>29 DEF Replay
  <2>2. j.op = "replay" /\ Aimed(j)
    BY DEF Idle, Aimed, DevboxOps, Sent
  <2> HIDE DEF j
  <2>3. conn \in ConnStates /\ job \in [Callers -> Jobs]
    BY DEF TypeInv, TypeOK, ConnStates
  <2>4. CASE conn' = [conn EXCEPT ![k] = "served"] /\ job' = job
    <3>1. /\ Only(k) /\ job'[k] = Idle /\ conn'[k] = "served"
          /\ \A i \in Conns : i # k => conn'[i] = conn[i]
      BY <2>1, <2>3, <2>4 DEF Only, ConnStates
    <3> QED
      BY <3>1, <2>1, AimedIdle, IdleFact, ShapedConn
  <2>5. CASE conn' = conn /\ job' = [job EXCEPT ![k] = j]
    <3>1. Only(k) /\ job'[k] = j /\ conn'[k] = "replay"
      BY <2>1, <2>3, <2>5, CallersFact DEF Only
    <3> QED
      BY <3>1, <2>1, <2>2, <2>5, ShapedConn
  <2> QED
    BY <2>1, <2>4, <2>5
<1>30. ASSUME NEW k \in Conns, Disconnect(k) PROVE Shaped'
  <2>1. /\ conn'[k] \in {"leaked", "gone"} /\ side' = side /\ side # k
        /\ \A i \in Conns : i # k => conn'[i] = conn[i]
    BY <1>30 DEF Disconnect, TypeInv, TypeOK
  <2>2. Only(k) /\ job'[k] = Idle
    BY <1>30, CallersFact DEF Disconnect, Only, TypeInv, JobsOK
  <2> QED
    BY <2>1, <2>2, AimedIdle, IdleFact, ShapedConn
<1>31. ASSUME RestartManager PROVE Shaped'
  <2> DEFINE hit == {x \in Callers : job[x].stage \in {"pick", "call", "shut"}}
  <2>1. /\ side' = None
        /\ \A x \in Callers : job'[x] = IF x \in hit THEN Idle ELSE job[x]
        /\ \A k \in Conns : conn'[k] \in {"new", "gone"}
    BY <1>31 DEF RestartManager
  <2>2. \A k \in Conns : job'[k] = Idle
    BY <2>1, CallersFact DEF StreamInv, Registrations
  <2>3. \A x \in Callers : Aimed(job'[x])
    BY <2>1, AimedIdle DEF Shaped
  <2>4. \A t \in Tasks : job'[t].op # "replay"
    BY <2>1, IdleFact, CallersFact DEF Shaped, Registers
  <2> QED
    BY <2>1, <2>2, <2>3, <2>4, IdleFact DEF Shaped, Registers, Aimed
<1>32. CASE UNCHANGED vars
  BY <1>32, ShapedStays DEF vars
<1>33. ASSUME NEW b \in Branches, SwitchTo(b) PROVE Shaped'
  BY <1>33, ShapedSpawn DEF SwitchTo, sidecarVars, DevboxOps
<1>34. ASSUME NEW b \in Branches, SwitchAway(b) PROVE Shaped'
  BY <1>34, ShapedSpawn DEF SwitchAway, sidecarVars, DevboxOps
<1> QED
  BY <1>1, <1>2, <1>3, <1>4, <1>5, <1>6, <1>7, <1>8, <1>9, <1>10, <1>11, <1>12,
       <1>13, <1>14, <1>15, <1>16, <1>17, <1>18, <1>19, <1>20, <1>21, <1>22, <1>23,
       <1>24, <1>25, <1>26, <1>27, <1>28, <1>29, <1>30, <1>31, <1>32, <1>33, <1>34 DEF Next

\* Every action keeps the table and the remembered route in step.
LEMMA MatchStep ==
    TypeInv /\ Entries /\ Shaped /\ Matched /\ [Next]_vars => Matched'
<1> SUFFICES ASSUME TypeInv, Entries, Shaped, Matched, [Next]_vars PROVE Matched'
  OBVIOUS
<1>1. ASSUME NEW b \in Branches, StartIntercept(b) PROVE Matched'
  <2>1. OnlyUser(b) /\ session' = session /\ intercept'[b]
    BY <1>1 DEF StartIntercept, OnlyUser, sidecarVars, TypeInv, TypeOK
  <2>2. CASE Connected(b)
    <3>1. Spawn("set", b) /\ Called("set", b)
      BY <1>1, <2>1, <2>2 DEF StartIntercept, Called, Connected, Online
    <3> QED
      BY <2>1, <3>1, SpawnUser DEF DevboxOps
  <2>3. CASE ~Connected(b)
    BY <1>1, <2>1, <2>3, QuietUser DEF StartIntercept, Connected
  <2> QED
    BY <2>2, <2>3
<1>2. ASSUME NEW b \in Branches, StopIntercept(b) PROVE Matched'
  <2>1. OnlyUser(b) /\ session' = session /\ ~intercept'[b]
    BY <1>2 DEF StopIntercept, OnlyUser, sidecarVars, TypeInv, TypeOK
  <2>2. CASE Connected(b)
    <3>1. Spawn("remove", b) /\ Called("remove", b)
      BY <1>2, <2>1, <2>2 DEF StopIntercept, Called
    <3> QED
      BY <2>1, <3>1, SpawnUser DEF DevboxOps
  <2>3. CASE ~Connected(b)
    BY <1>2, <2>1, <2>3, QuietUser DEF StopIntercept
  <2> QED
    BY <2>2, <2>3
<1>3. ASSUME NEW b \in Branches, ListSession(b) PROVE Matched'
  <2>1. OnlyUser(b) /\ UNCHANGED <<job, met, intercept, outside>>
    BY <1>3 DEF ListSession, OnlyUser, sidecarVars, TypeInv, TypeOK
  <2>2. session[b] = "off" /\ session'[b] \in {"listed", "elsewhere"}
    BY <1>3 DEF ListSession, TypeInv, TypeOK
  <2> QED
    BY <2>1, <2>2, QuietUser
<1>4. ASSUME NEW b \in Branches, UnlistSession(b) PROVE Matched'
  <2>1. OnlyUser(b) /\ UNCHANGED <<job, met, intercept, outside>>
    BY <1>4 DEF UnlistSession, OnlyUser, sidecarVars, TypeInv, TypeOK
  <2>2. \/ Online(b) /\ session'[b] = "leaving"
        \/ session[b] = "elsewhere" /\ session'[b] = "off"
    BY <1>4 DEF UnlistSession, Connected, TypeInv, TypeOK
  <2> QED
    BY <2>1, <2>2, QuietUser
<1>5. ASSUME NEW b \in Branches, Greet(b) PROVE Matched'
  <2>1. OnlyUser(b) /\ Spawn("push", b) /\ session'[b] = "up"
    BY <1>5 DEF Greet, OnlyUser, sidecarVars, TypeInv, TypeOK
  <2>2. Called("push", b)
    BY <2>1 DEF Called
  <2> QED
    BY <2>1, <2>2, SpawnUser DEF DevboxOps
<1>6. ASSUME NEW b \in Branches, ClearSession(b) PROVE Matched'
  <2>1. OnlyUser(b) /\ Spawn("clear", b) /\ session'[b] = "off" /\ b \notin outside'
    BY <1>6 DEF ClearSession, OnlyUser, sidecarVars, TypeInv, TypeOK
  <2>2. Called("clear", b)
    BY <2>1 DEF Called
  <2> QED
    BY <2>1, <2>2, SpawnUser DEF DevboxOps
<1>7. ASSUME NEW b \in Branches, UpdateWorkload(b) PROVE Matched'
  <2>1. /\ Spawn("upsert", b)
        /\ UNCHANGED <<session, intercept, outside, snap, conn, side, table, unsure>>
    BY <1>7 DEF UpdateWorkload, apiVars, sidecarVars
  <2>2. PICK t \in Tasks : Only(t) /\ job[t] = Idle /\ job'[t].op = "upsert" /\ met' = met
    BY <2>1, SpawnEffect DEF DevboxOps
  <2>3. job[t].op \notin DevboxOps /\ job'[t].op \notin DevboxOps
    BY <2>2, IdleFact DEF DevboxOps
  <2>4. \A y \in Callers : y # t => job'[y] = job[y]
    BY <2>2 DEF Only
  <2> QED
    BY <2>1, <2>2, <2>3, <2>4, CallersFact, Bystand
<1>8. ASSUME NEW b \in Branches, DeleteWorkload(b) PROVE Matched'
  <2>1. /\ Spawn("drop", b)
        /\ UNCHANGED <<session, intercept, outside, snap, conn, side, table, unsure>>
    BY <1>8 DEF DeleteWorkload, apiVars, sidecarVars
  <2>2. PICK t \in Tasks : Only(t) /\ job[t] = Idle /\ job'[t].op = "drop" /\ met' = met
    BY <2>1, SpawnEffect DEF DevboxOps
  <2>3. job[t].op \notin DevboxOps /\ job'[t].op \notin DevboxOps
    BY <2>2, IdleFact DEF DevboxOps
  <2>4. \A y \in Callers : y # t => job'[y] = job[y]
    BY <2>2 DEF Only
  <2> QED
    BY <2>1, <2>2, <2>3, <2>4, CallersFact, Bystand
<1>9. ASSUME NEW b \in Branches, Choose(b) PROVE Matched'
  BY <1>9, Bystand DEF Choose, apiVars, sidecarVars
<1>10. ASSUME ChangeServices PROVE Matched'
  BY <1>10, Bystand DEF ChangeServices, apiVars, sidecarVars
<1>11. ASSUME Subscribe PROVE Matched'
  BY <1>11, Bystand DEF Subscribe, apiVars, sidecarVars
<1>12. ASSUME Finish PROVE Matched'
  BY <1>12, Bystand DEF Finish, apiVars, sidecarVars
<1>13. ASSUME LoseConnection PROVE Matched'
  BY <1>13, Bystand DEF LoseConnection, apiVars, sidecarVars
<1>14. ASSUME RestartSidecar PROVE Matched'
  BY <1>14, SidecarMatches
<1>15. ASSUME RestartManager PROVE Matched'
  BY <1>15, ManagerMatches
<1>16. ASSUME NEW t \in Tasks, Build(t) PROVE Matched'
  BY <1>16, BuildMatches
<1>17. ASSUME NEW t \in Tasks, FallBack(t) PROVE Matched'
  <2>1. Only(t) /\ job[t].op = "upsert" /\ job'[t].op = "list"
    BY <1>17, FallBackEffect
  <2>2. UNCHANGED <<session, intercept, outside, snap, conn, side, table, met, unsure>>
    BY <1>17 DEF FallBack, apiVars, sidecarVars
  <2>3. job[t].op \notin DevboxOps /\ job'[t].op \notin DevboxOps
    BY <2>1 DEF DevboxOps
  <2>4. \A y \in Callers : y # t => job'[y] = job[y]
    BY <2>1 DEF Only
  <2> QED
    BY <2>2, <2>3, <2>4, CallersFact, Bystand
<1>18. ASSUME NEW t \in Tasks, LookupFails(t) PROVE Matched'
  BY <1>18, CallersFact, UnreplayedTask, FailMatches DEF LookupFails, Missing
<1>19. ASSUME NEW t \in Tasks, TaskFails(t) PROVE Matched'
  BY <1>19, CallersFact, UnreplayedTask, FailMatches DEF TaskFails
<1>20. ASSUME NEW t \in Tasks, Remove(t) PROVE Matched'
  BY <1>20, RemoveMatches
<1>21. ASSUME NEW t \in Tasks, Remember(t) PROVE Matched'
  BY <1>21, RememberMatches
<1>22. ASSUME NEW x \in Callers, ListFails(x) PROVE Matched'
  <2>1. /\ End(x, FALSE) /\ job[x].op = "list" /\ job[x].stage # "idle"
        /\ UNCHANGED <<session, intercept, outside, snap, side, table>>
        /\ unsure' = unsure \cup Unreplayed(x)
    BY <1>22 DEF ListFails
  <2>2. Failed(x) = {}
    BY <2>1 DEF DevboxOps, Failed
  <2> QED
    BY <2>1, <2>2, FailMatches
<1>23. ASSUME NEW x \in Callers, CallFails(x) PROVE Matched'
  BY <1>23, FailMatches DEF CallFails
<1>24. ASSUME NEW x \in Callers, Pick(x) PROVE Matched'
  BY <1>24, PickMatches
<1>25. ASSUME NEW x \in Callers, Write(x) PROVE Matched'
  BY <1>25, WriteMatches
<1>26. ASSUME NEW x \in Callers, Answer(x) PROVE Matched'
  BY <1>26, AnswerMatches
<1>27. ASSUME NEW k \in Conns, Open(k) PROVE Matched'
  BY <1>27, OpenMatches
<1>28. ASSUME NEW k \in Conns, Insert(k) PROVE Matched'
  BY <1>28, InsertMatches
<1>29. ASSUME NEW k \in Conns, KeepGeneration(k) PROVE Matched'
  BY <1>29, KeepMatches
<1>30. ASSUME NEW k \in Conns, Replay(k) PROVE Matched'
  BY <1>30, ReplayMatches
<1>31. ASSUME NEW k \in Conns, Disconnect(k) PROVE Matched'
  BY <1>31, DisconnectMatches
<1>32. CASE UNCHANGED vars
  BY <1>32, Bystand DEF vars
<1>33. ASSUME NEW b \in Branches, SwitchTo(b) PROVE Matched'
  <2>1. OnlyUser(b) /\ Spawn("push", b) /\ session'[b] = "up"
    BY <1>33 DEF SwitchTo, OnlyUser, sidecarVars, TypeInv, TypeOK
  <2>2. Called("push", b)
    BY <2>1 DEF Called
  <2> QED
    BY <2>1, <2>2, SpawnUser DEF DevboxOps
<1>34. ASSUME NEW b \in Branches, SwitchAway(b) PROVE Matched'
  <2>1. OnlyUser(b) /\ Spawn("clear", b) /\ session'[b] = "elsewhere" /\ b \notin outside'
    BY <1>34 DEF SwitchAway, OnlyUser, sidecarVars, TypeInv, TypeOK
  <2>2. Called("clear", b)
    BY <2>1 DEF Called
  <2> QED
    BY <2>1, <2>2, SpawnUser DEF DevboxOps
<1> QED
  BY <1>1, <1>2, <1>3, <1>4, <1>5, <1>6, <1>7, <1>8, <1>9, <1>10, <1>11, <1>12,
       <1>13, <1>14, <1>15, <1>16, <1>17, <1>18, <1>19, <1>20, <1>21, <1>22, <1>23,
       <1>24, <1>25, <1>26, <1>27, <1>28, <1>29, <1>30, <1>31, <1>32, <1>33, <1>34 DEF Next

\* Nobody works in an environment and has a route from elsewhere into it.
Abroad == \A b \in outside : session[b] # "up"

\* Every action keeps it.
LEMMA AbroadStep == TypeInv /\ Abroad /\ [Next]_vars => Abroad'
<1> SUFFICES ASSUME TypeInv, Abroad, [Next]_vars PROVE Abroad'
  OBVIOUS
<1>0. session \in [Branches -> {"off", "listed", "up", "leaving", "elsewhere"}]
  BY DEF TypeInv, TypeOK
<1>1. ASSUME NEW b \in Branches,
             \/ StartIntercept(b) \/ StopIntercept(b)
             \/ ListSession(b) \/ Greet(b) \/ UnlistSession(b) \/ ClearSession(b)
             \/ SwitchTo(b) \/ SwitchAway(b)
      PROVE  Abroad'
  <2>1. \A c \in outside' : \/ /\ c \in outside
                               /\ session'[c] = session[c] \/ session'[c] # "up"
                           \/ session'[c] = "elsewhere"
    BY <1>0, <1>1 DEF StartIntercept, StopIntercept, ListSession, Greet, UnlistSession,
         ClearSession, SwitchTo, SwitchAway, TypeInv, TypeOK
  <2> QED
    BY <2>1 DEF Abroad
<1>2. CASE UNCHANGED <<session, outside>>
  BY <1>2 DEF Abroad
<1>3. ASSUME NEW b \in Branches, UpdateWorkload(b) \/ DeleteWorkload(b) \/ Choose(b)
      PROVE  UNCHANGED <<session, outside>>
  BY <1>3 DEF UpdateWorkload, DeleteWorkload, Choose, apiVars
<1>4. ASSUME NEW t \in Tasks, \/ Build(t) \/ LookupFails(t) \/ FallBack(t) \/ TaskFails(t)
                              \/ Remove(t) \/ Remember(t)
      PROVE  UNCHANGED <<session, outside>>
  BY <1>4 DEF Build, LookupFails, FallBack, TaskFails, Remove, Remember, apiVars
<1>5. ASSUME NEW x \in Callers, \/ Pick(x) \/ ListFails(x) \/ Write(x) \/ Answer(x)
                                \/ CallFails(x)
      PROVE  UNCHANGED <<session, outside>>
  BY <1>5 DEF Pick, ListFails, Write, Answer, CallFails, apiVars
<1>6. ASSUME NEW k \in Conns, \/ Open(k) \/ Insert(k) \/ KeepGeneration(k) \/ Replay(k)
                              \/ Disconnect(k)
      PROVE  UNCHANGED <<session, outside>>
  BY <1>6 DEF Open, Insert, KeepGeneration, Replay, Disconnect, apiVars
<1>7. ASSUME \/ ChangeServices \/ LoseConnection \/ RestartSidecar
             \/ RestartManager \/ Subscribe \/ Finish \/ UNCHANGED vars
      PROVE  UNCHANGED <<session, outside>>
  BY <1>7 DEF ChangeServices, LoseConnection, RestartSidecar, RestartManager,
       Subscribe, Finish, apiVars, vars
<1> QED
  BY <1>1, <1>2, <1>3, <1>4, <1>5, <1>6, <1>7 DEF Next

\* The invariants hold initially.
LEMMA MatchInit == Init => Shaped /\ Matched /\ StreamInv /\ Entries
<1> SUFFICES ASSUME Init PROVE Shaped /\ Matched /\ StreamInv /\ Entries
  OBVIOUS
<1>1. \A x \in Callers : job[x] = Idle /\ job[x].op = "idle"
  BY IdleFact DEF Init
<1>2. \A b : Pending(b) = {}
  BY <1>1, CallersFact DEF Pending, DevboxOps
<1>3. Shaped
  BY <1>1, AimedIdle, CallersFact DEF Init, Shaped, Registers
<1>4. Calmness
  BY <1>1, CallersFact DEF Calmness, DevboxOps
<1>5. Tabled /\ Snapped
  BY <1>1, CallersFact, NoBranchAssumption DEF Init, Tabled, TableMatches, InFlight, Snapped,
       SnapMatches
<1>6. StreamInv /\ Entries
  BY IdleFact DEF Init, Entries, Entered, StreamInv, KeysShut, Registrations, Routed,
       NoStream, Callers
<1> QED
  BY <1>3, <1>4, <1>5, <1>6 DEF Matched

\* RoutesMatchIntercepts holds in every state: once the tasks are done and the sidecar
\* has registered or was refused, its table has a devbox route for exactly the branches
\* whose user works in them and intercepts the workload, and those whose intercept was
\* started from another environment; whatever was lost, restarted, refused or replayed
\* on the way, but for the branches the property excepts.
THEOREM RoutesMatch == Spec => []RoutesMatchIntercepts
<1>1. Spec => []TypeInv
  BY TypeInit, TypeStep, PTL DEF Spec
<1>2. Spec => []StreamInv
  BY <1>1, MatchInit, StreamStep, PTL DEF Spec
<1>3. Spec => []Entries
  BY <1>1, <1>2, MatchInit, EntryStep, PTL DEF Spec
<1>4. Spec => []Shaped
  BY <1>1, <1>2, MatchInit, ShapedStep, PTL DEF Spec
<1>5. Spec => []Matched
  BY <1>1, <1>3, <1>4, MatchInit, MatchStep, PTL DEF Spec
<1>6. Spec => []Abroad
  <2>1. Init => Abroad
    BY DEF Init, Abroad
  <2> QED
    BY <1>1, <2>1, AbroadStep, PTL DEF Spec
<1>7. TypeInv /\ Abroad /\ Matched => RoutesMatchIntercepts
  <2> SUFFICES ASSUME TypeInv, Abroad, Matched, Settled, NEW b \in Branches, b \notin unsure
               PROVE  table[b] = "devbox" <=>
                        (session[b] = "up" /\ intercept[b]) \/ b \in outside
    BY DEF RoutesMatchIntercepts
  <2>1. \A x \in Callers : job[x].op = "idle"
    BY IdleFact DEF Settled
  <2>2. Pending(b) = {}
    BY <2>1, CallersFact DEF Pending, DevboxOps
  <2>3. SnapMatches(b) /\ TableMatches(b) /\ ~Sending(b) /\ ~Stopping(b)
    BY <2>2 DEF Matched, Tabled, Snapped, Excused, Sending, Stopping
  <2>4. side \in Conns /\ conn[side] \in {"served", "failed"}
    BY DEF Settled, TypeInv, TypeOK
  <2>5. ~Awaits(b)
    BY <2>1, <2>4, CallersFact DEF Settled, Awaits
  <2>6. table[b] = "devbox" <=> snap = b
    BY <2>3, <2>5 DEF TableMatches
  <2>7. session[b] \in {"off", "up", "elsewhere"} /\ intercept[b] \in BOOLEAN
    BY DEF Settled, TypeInv, TypeOK
  <2> QED
    BY <2>3, <2>6, <2>7 DEF SnapMatches, Abroad
<1> QED
  BY <1>1, <1>5, <1>6, <1>7, PTL

=============================================================================
