------------------------ MODULE ClusterWatchesProofs ------------------------
(***************************************************************************)
(* Theorems about ClusterWatches, for every set of namespaces and every    *)
(* number of connections, requests, changes and cuts.                      *)
(***************************************************************************)
EXTENDS ClusterWatches, TLAPS

----------------------------------------------------------------------------
(* Type correctness.                                                        *)

\* A request that is about to write changes a namespace of an environment.
TypeInv ==
    /\ TypeOK
    /\ \A t \in Tasks : task[t].stage = "write" => task[t].ns \subseteq EnvNamespaces

\* Connections and request slots are different callers.
LEMMA CallersFact ==
    /\ Conns \subseteq Callers /\ Tasks \subseteq Callers
    /\ \A x \in Callers : x \notin Conns => x \in Tasks
    /\ \A x \in Tasks : x \notin Conns
    /\ None \notin Conns
  BY BoundsAssumption DEF Callers, Conns, Tasks, None

\* The calls, and the wanted namespaces.
LEMMA CallFacts ==
    ASSUME TypeOK
    PROVE  /\ Wanted \subseteq Namespaces
           /\ NoCall \in CallType
           /\ \A x \in Callers : /\ call[x] \in CallType
                                /\ Touches(x) \subseteq Namespaces
                                /\ Over(x, "done") \in CallType
                                /\ Over(x, "lost") \in CallType
  BY DEF TypeOK, Wanted, Namespaces, NoCall, CallType, Touches, Over, Running

\* The record of what crossed keeps its type in every form it is written in.
LEMMA CrossedType ==
    ASSUME TypeOK
    PROVE  /\ \A N \in SUBSET Namespaces : Changes(N) => crossed' \in [Callers -> SUBSET Namespaces]
           /\ \A x \in Callers : Forgets(x) => crossed' \in [Callers -> SUBSET Namespaces]
           /\ \A x \in Callers : Crossing(x) \subseteq Namespaces
           /\ \A x, y \in Callers : Meets(x, y) \subseteq Namespaces
  BY CallFacts DEF TypeOK, Changes, Forgets, Crossing, Meets

\* A call that advances, or whose work shrinks, keeps its type.
LEMMA CallChange ==
    ASSUME TypeOK, NEW x \in Callers
    PROVE  /\ \A s \in Running, A, B \in SUBSET Namespaces :
                /\ [call[x] EXCEPT !.stage = s] \in CallType
                /\ [call[x] EXCEPT !.stage = s, !.stop = A, !.start = B] \in CallType
                /\ [call[x] EXCEPT !.stop = A] \in CallType
                /\ [call[x] EXCEPT !.start = A] \in CallType
           /\ \A r \in CallType : [call EXCEPT ![x] = r] \in [Callers -> CallType]
           /\ call[x].stop \subseteq Namespaces /\ call[x].start \subseteq Namespaces
           /\ call[x].arg \subseteq Namespaces /\ watched \subseteq Namespaces
<1> DEFINE c == call[x]
<1>1. c \in CallType /\ call \in [Callers -> CallType] /\ watched \subseteq Namespaces
  BY DEF TypeOK
<1> HIDE DEF c
<1>2. ASSUME NEW s \in Running, NEW A \in SUBSET Namespaces, NEW B \in SUBSET Namespaces
      PROVE  /\ [c EXCEPT !.stage = s] \in CallType
             /\ [c EXCEPT !.stage = s, !.stop = A, !.start = B] \in CallType
             /\ [c EXCEPT !.stop = A] \in CallType
             /\ [c EXCEPT !.start = A] \in CallType
  BY <1>1 DEF CallType
<1>3. c.stop \subseteq Namespaces /\ c.start \subseteq Namespaces /\ c.arg \subseteq Namespaces
  BY <1>1 DEF CallType
<1> QED
  BY <1>1, <1>2, <1>3 DEF c

\* A request to a connection is a call.
LEMMA RequestType ==
    ASSUME NEW op \in {"configure", "add", "remove"}, NEW c \in Conns, NEW A \in SUBSET Namespaces
    PROVE  Request(op, c, A) \in CallType
  BY DEF Request, NoCall, CallType

\* The requests in f have their types, and TypeInv speaks of them.
TaskFun(f) ==
    /\ f \in [Tasks -> [op: {"idle", "env_add", "env_remove", "cat_add", "cat_edit"},
                       ns: SUBSET Namespaces,
                       stage: {"idle", "write", "send", "pick", "list", "lock", "refresh"},
                       queue: SUBSET Conns]]
    /\ \A t \in Tasks : f[t].stage = "write" => f[t].ns \subseteq EnvNamespaces

\* A request that ends, or goes on, keeps its type.
LEMMA TaskChange ==
    ASSUME TypeInv, NEW t \in Tasks
    PROVE  /\ TaskFun(task)
           /\ TaskFun([task EXCEPT ![t] = Idle])
           /\ TaskFun([task EXCEPT ![t].stage = "lock"])
           /\ TaskFun([task EXCEPT ![t].stage = "send", ![t].queue = servers])
           /\ TaskFun([task EXCEPT ![t].stage = "refresh", ![t].queue = servers])
<1>1. TaskFun(task) /\ servers \subseteq Conns
  BY DEF TypeInv, TypeOK, TaskFun, servers
<1>2. TaskFun([task EXCEPT ![t] = Idle])
  BY <1>1 DEF TaskFun, Idle
<1>3. TaskFun([task EXCEPT ![t].stage = "lock"])
  BY <1>1 DEF TaskFun
<1>4. TaskFun([task EXCEPT ![t].stage = "send", ![t].queue = servers])
  BY ZenonT(40), <1>1 DEF TaskFun
<1>5. TaskFun([task EXCEPT ![t].stage = "refresh", ![t].queue = servers])
  BY ZenonT(40), <1>1 DEF TaskFun
<1> QED
  BY <1>1, <1>2, <1>3, <1>4, <1>5

\* Every action keeps the types.
LEMMA TypeStep == TypeInv /\ [Next]_vars => TypeInv'
<1> SUFFICES ASSUME TypeInv, [Next]_vars PROVE TypeInv'
  OBVIOUS
<1>0. TypeOK
  BY DEF TypeInv
<1>1. ASSUME NEW c \in Conns, Connect(c) PROVE TypeInv'
  BY <1>1 DEF Connect, dbVars, managerVars, TypeInv, TypeOK
<1>2. ASSUME NEW c \in Conns, ManagerClose(c) PROVE TypeInv'
  <2>1. call' \in [Callers -> CallType]
    BY <1>2, <1>0, CallFacts DEF ManagerClose, AbortCalls, TypeOK
  <2>2. torn' \subseteq Namespaces
    BY <1>2, <1>0, CallFacts DEF ManagerClose, Aborted, TypeOK
  <2> QED
    BY <1>2, <2>1, <2>2 DEF ManagerClose, dbVars, registryVars, managerVars, TypeInv,
         TypeOK
<1>3. ASSUME ManagerRestart PROVE TypeInv'
  <2>1. call' \in [Callers -> CallType]
    BY <1>3, <1>0, CallFacts DEF ManagerRestart, AbortCalls, TypeOK
  <2>2. cuts' \in 0 .. MaxCuts
    BY <1>3, <1>0, BoundsAssumption DEF ManagerRestart, TypeOK
  <2> QED
    BY <1>3, <2>1, <2>2, <1>0, CallFacts DEF ManagerRestart, dbVars, registryVars,
         TypeInv, TypeOK
<1>4. ASSUME NEW c \in Conns, ApiClose(c) PROVE TypeInv'
  BY <1>4 DEF ApiClose, dbVars, registryVars, managerVars, TypeInv, TypeOK
<1>5. ASSUME NEW c \in Conns, DrawGeneration(c) PROVE TypeInv'
  BY <1>5 DEF DrawGeneration, dbVars, managerVars, TypeInv, TypeOK
<1>6. ASSUME NEW c \in Conns, EnterRegistry(c) PROVE TypeInv'
  BY <1>6 DEF EnterRegistry, Entered, dbVars, managerVars, TypeInv, TypeOK
<1>7. ASSUME NEW c \in Conns, ListForRegistration(c) PROVE TypeInv'
  <2>1. call' \in [Callers -> CallType]
    BY <1>7, <1>0, CallFacts, CallersFact
       DEF ListForRegistration, Request, NoCall, CallType, TypeOK
  <2> QED
    BY <1>7, <2>1 DEF ListForRegistration, Entered, dbVars, managerVars, TypeInv, TypeOK
<1>8. ASSUME NEW c \in Conns, ListingFails(c) PROVE TypeInv'
  <2>1. cuts' \in 0 .. MaxCuts
    BY <1>8, <1>0, BoundsAssumption DEF ListingFails, TypeOK
  <2> QED
    BY <1>8, <2>1 DEF ListingFails, Entered, dbVars, managerVars, TypeInv, TypeOK
<1>9. ASSUME NEW c \in Conns, Unregister(c) PROVE TypeInv'
  BY <1>9 DEF Unregister, dbVars, managerVars, TypeInv, TypeOK
<1>10. ASSUME NEW t \in Tasks, NEW n \in EnvNamespaces, NEW op \in {"env_add", "env_remove"}, StartEnvironment(t, n, op) PROVE TypeInv'
  <2>1. edits' \in 0 .. MaxEdits
    BY <1>10, <1>0, BoundsAssumption DEF StartEnvironment, TypeOK
  <2>2. PICK c \in Conns : task' = [task EXCEPT ![t] =
            [op |-> op, ns |-> {n}, stage |-> "write", queue |-> {c}]]
    BY <1>10 DEF StartEnvironment, servers
  <2> QED
    BY ZenonT(40), <1>10, <2>1, <2>2 DEF StartEnvironment, Unaffected, registryVars, Namespaces,
         TypeInv, TypeOK
<1>11. ASSUME NEW t \in Tasks, WriteEnvironment(t) PROVE TypeInv'
  <2>1. crossed' \in [Callers -> SUBSET Namespaces]
    BY <1>11, <1>0, CrossedType DEF WriteEnvironment, TypeOK
  <2> QED
    BY SMTT(30), <1>11, <2>1 DEF WriteEnvironment, Unaffected, registryVars, TypeInv, TypeOK
<1>12. ASSUME NEW t \in Tasks, NEW n \in CatalogNamespaces, CreateCatalog(t, n) PROVE TypeInv'
  <2>1. edits' \in 0 .. MaxEdits
    BY <1>12, <1>0, BoundsAssumption DEF CreateCatalog, TypeOK
  <2>2. crossed' \in [Callers -> SUBSET Namespaces]
    BY <1>12, <1>0, CrossedType DEF CreateCatalog, Namespaces
  <2> QED
    BY <1>12, <2>1, <2>2 DEF CreateCatalog, Unaffected, registryVars, Namespaces,
         TypeInv, TypeOK
<1>13. ASSUME NEW t \in Tasks, NEW n \in CatalogNamespaces, EditCatalog(t, n) PROVE TypeInv'
  <2>1. edits' \in 0 .. MaxEdits
    BY <1>13, <1>0, BoundsAssumption DEF EditCatalog, TypeOK
  <2>2. crossed' \in [Callers -> SUBSET Namespaces]
    BY <1>13, <1>0, CrossedType DEF EditCatalog, Namespaces
  <2> QED
    BY <1>13, <2>1, <2>2 DEF EditCatalog, Unaffected, registryVars, Namespaces,
         TypeInv, TypeOK
<1>14. ASSUME NEW t \in Tasks, PickServers(t) PROVE TypeInv'
  <2>1. crossed' \in [Callers -> SUBSET Namespaces]
    BY <1>14, <1>0, CrossedType, CallersFact DEF PickServers, TypeOK
  <2>t. TaskFun(task')
    BY <1>14, TaskChange DEF PickServers
  <2> QED
    BY <1>14, <2>1, <2>t DEF PickServers, TaskFun, Unaffected, registryVars, dbVars,
         TypeInv, TypeOK
<1>15. ASSUME NEW t \in Tasks, ListForRefresh(t) PROVE TypeInv'
  <2>1. crossed' \in [Callers -> SUBSET Namespaces]
    BY <1>15, <1>0, CrossedType, CallersFact DEF ListForRefresh, TypeOK
  <2>t. TaskFun(task')
    BY <1>15, TaskChange DEF ListForRefresh
  <2> QED
    BY <1>15, <2>1, <2>t, <1>0, CallFacts DEF ListForRefresh, TaskFun, Unaffected,
         registryVars, dbVars, TypeInv, TypeOK
<1>16. ASSUME NEW t \in Tasks, SendTask(t) PROVE TypeInv'
  <2>2. PICK c \in task[t].queue :
          /\ task' = [task EXCEPT ![t].queue = @ \ {c}]
          /\ call' = [call EXCEPT ![t] =
               CASE task[t].op = "cat_edit"   -> Request("configure", c, list[t])
                 [] task[t].op = "env_remove" -> Request("remove", c, task[t].ns)
                 [] OTHER                     -> Request("add", c, task[t].ns)]
    BY <1>16 DEF SendTask
  <2>3. c \in Conns /\ list[t] \subseteq Namespaces /\ task[t].ns \subseteq Namespaces
    BY <1>0, <2>2 DEF TypeOK
  <2>1. call' \in [Callers -> CallType]
    BY <1>0, <2>2, <2>3, CallChange, RequestType, CallersFact
  <2> QED
    BY <1>16, <2>1, <2>2 DEF SendTask, Unaffected, registryVars, dbVars, TypeInv, TypeOK
<1>17. ASSUME NEW t \in Tasks, Cut(t) PROVE TypeInv'
  <2>1. crossed' \in [Callers -> SUBSET Namespaces]
    BY <1>17, <1>0, CrossedType, CallersFact DEF Cut
  <2>2. cuts' \in 0 .. MaxCuts
    BY <1>17, <1>0, BoundsAssumption DEF Cut, TypeOK
  <2> QED
    BY <1>17, <2>1, <2>2 DEF Cut, Idle, Unaffected, registryVars, dbVars, TypeInv,
         TypeOK
<1>18. ASSUME NEW x \in Callers, Answer(x) PROVE TypeInv'
  <2>1. call' \in [Callers -> CallType]
    BY <1>18, <1>0, CallFacts DEF Answer, Return, TypeOK
  <2>2. crossed' \in [Callers -> SUBSET Namespaces]
    BY <1>18, <1>0, CrossedType DEF Answer, Return, TypeOK
  <2>t. TaskFun(task')
    <3>1. TaskFun(task)
      BY DEF TypeInv, TypeOK, TaskFun
    <3>2. task' = task \/ (x \in Tasks /\ task' = [task EXCEPT ![x] = Idle])
      BY <1>18, CallersFact DEF Answer, Return
    <3> QED
      BY <3>1, <3>2, TaskChange
  <2>l. list' \in [Tasks -> SUBSET Namespaces]
    BY <1>18, <1>0, CallersFact DEF Answer, Return, TypeOK
  <2> QED
    BY <1>18, <2>1, <2>2, <2>t, <2>l, CallersFact DEF Answer, Return, TaskFun, Entered,
         Unaffected, dbVars, TypeInv, TypeOK
<1>19. ASSUME NEW x \in Callers, CallFails(x) PROVE TypeInv'
  <2>1. call' \in [Callers -> CallType]
    BY <1>19, <1>0, CallFacts DEF CallFails, Return, TypeOK
  <2>2. crossed' \in [Callers -> SUBSET Namespaces]
    BY <1>19, <1>0, CrossedType DEF CallFails, Return, TypeOK
  <2>t. TaskFun(task')
    <3>1. TaskFun(task)
      BY DEF TypeInv, TypeOK, TaskFun
    <3>2. task' = task \/ (x \in Tasks /\ task' = [task EXCEPT ![x] = Idle])
      BY <1>19, CallersFact DEF CallFails, Return
    <3> QED
      BY <3>1, <3>2, TaskChange
  <2>l. list' \in [Tasks -> SUBSET Namespaces]
    BY <1>19, <1>0, CallersFact DEF CallFails, Return, TypeOK
  <2> QED
    BY <1>19, <2>1, <2>2, <2>t, <2>l, CallersFact DEF CallFails, Return, TaskFun,
         Entered, Unaffected, dbVars, TypeInv, TypeOK
<1>20. ASSUME NEW x \in Callers, ConfigureDiff(x) PROVE TypeInv'
  <2>1. call' \in [Callers -> CallType]
    BY <1>20, <1>0, CallFacts, CallChange DEF ConfigureDiff, Begin, Running
  <2>2. crossed' \in [Callers -> SUBSET Namespaces] /\ torn' \subseteq Namespaces
    BY <1>20, <1>0, CrossedType DEF ConfigureDiff, Begin, TypeOK
  <2> QED
    BY <1>20, <2>1, <2>2 DEF ConfigureDiff, Begin, registryVars, dbVars, TypeInv, TypeOK
<1>21. ASSUME NEW x \in Callers, ConfigureApply(x) PROVE TypeInv'
  <2>a. ASSUME NEW n \in Namespaces
        PROVE  /\ [call EXCEPT ![x].stop = @ \ {n}] = [call EXCEPT ![x] = [call[x] EXCEPT !.stop = call[x].stop \ {n}]]
               /\ [call EXCEPT ![x].start = @ \ {n}] = [call EXCEPT ![x] = [call[x] EXCEPT !.start = call[x].start \ {n}]]
    BY <1>0 DEF TypeOK
  <2>b. ASSUME NEW n \in Namespaces
        PROVE  /\ [call EXCEPT ![x].stop = @ \ {n}] \in [Callers -> CallType]
               /\ [call EXCEPT ![x].start = @ \ {n}] \in [Callers -> CallType]
    <3>1. call[x].stop \ {n} \in SUBSET Namespaces /\ call[x].start \ {n} \in SUBSET Namespaces
      BY <1>0, CallChange
    <3> QED
      BY <1>0, <2>a, <3>1, CallChange DEF Running
  <2>c. call[x].stop \subseteq Namespaces /\ call[x].start \subseteq Namespaces
    BY <1>0, CallChange
  <2>1. call' \in [Callers -> CallType]
    BY ZenonT(40), <1>21, <2>b, <2>c DEF ConfigureApply
  <2> QED
    BY <1>21, <2>1 DEF ConfigureApply, Proceed, CallType, registryVars, dbVars,
         TypeInv, TypeOK
<1>22. ASSUME NEW x \in Callers, ConfigureWrite(x) PROVE TypeInv'
  <2>1. call' \in [Callers -> CallType]
    BY <1>22, <1>0, CallFacts, CallChange DEF ConfigureWrite, Proceed, Running
  <2>3. doubt' \subseteq Namespaces
    BY <1>22, <1>0, CallFacts DEF ConfigureWrite, Settle, TypeOK
  <2> QED
    BY <1>22, <2>1, <2>3 DEF ConfigureWrite, Proceed, CallType, registryVars, dbVars,
         TypeInv, TypeOK
<1>23. ASSUME NEW x \in Callers, AddCheck(x) PROVE TypeInv'
  <2>1. call' \in [Callers -> CallType]
    BY <1>23, <1>0, CallFacts, CallChange DEF AddCheck, Begin, Running
  <2>2. crossed' \in [Callers -> SUBSET Namespaces] /\ torn' \subseteq Namespaces
    BY <1>23, <1>0, CrossedType DEF AddCheck, Begin, TypeOK
  <2>3. doubt' \subseteq Namespaces
    BY <1>23, <1>0, CallFacts DEF AddCheck, Settle, TypeOK
  <2> QED
    BY <1>23, <2>1, <2>2, <2>3 DEF AddCheck, Begin, registryVars, dbVars, TypeInv,
         TypeOK
<1>24. ASSUME NEW x \in Callers, AddStart(x) PROVE TypeInv'
  <2>a. call' = [call EXCEPT ![x] = [call[x] EXCEPT !.stage = "insert"]]
    BY <1>24, <1>0 DEF AddStart, TypeOK
  <2>1. call' \in [Callers -> CallType]
    BY <1>0, <2>a, CallChange DEF Running
  <2> QED
    BY <1>24, <2>1 DEF AddStart, Proceed, CallType, registryVars, dbVars, TypeInv,
         TypeOK
<1>25. ASSUME NEW x \in Callers, AddInsert(x) PROVE TypeInv'
  <2>1. call' \in [Callers -> CallType]
    BY <1>25, <1>0, CallFacts, CallChange DEF AddInsert, Proceed, Running
  <2>3. doubt' \subseteq Namespaces
    BY <1>25, <1>0, CallFacts DEF AddInsert, Settle, TypeOK
  <2> QED
    BY <1>25, <2>1, <2>3 DEF AddInsert, Proceed, CallType, registryVars, dbVars,
         TypeInv, TypeOK
<1>26. ASSUME NEW x \in Callers, RemoveTake(x) PROVE TypeInv'
  <2>1. call' \in [Callers -> CallType]
    BY <1>26, <1>0, CallFacts, CallChange DEF RemoveTake, Begin, Running
  <2>2. crossed' \in [Callers -> SUBSET Namespaces] /\ torn' \subseteq Namespaces
    BY <1>26, <1>0, CrossedType DEF RemoveTake, Begin, TypeOK
  <2>3. doubt' \subseteq Namespaces
    BY <1>26, <1>0, CallFacts DEF RemoveTake, Settle, TypeOK
  <2> QED
    BY <1>26, <2>1, <2>2, <2>3 DEF RemoveTake, Begin, registryVars, dbVars, TypeInv,
         TypeOK
<1>27. ASSUME NEW x \in Callers, RemoveStop(x) PROVE TypeInv'
  <2>1. call' \in [Callers -> CallType]
    BY <1>27, <1>0, CallFacts, CallChange DEF RemoveStop, Proceed, Running
  <2>3. doubt' \subseteq Namespaces
    BY <1>27, <1>0, CallFacts DEF RemoveStop, Settle, TypeOK
  <2> QED
    BY <1>27, <2>1, <2>3 DEF RemoveStop, Proceed, registryVars, dbVars, TypeInv, TypeOK
<1>28. CASE UNCHANGED vars
  BY <1>28 DEF vars, TypeInv, TypeOK
<1> QED
  BY <1>1, <1>2, <1>3, <1>4, <1>5, <1>6, <1>7, <1>8, <1>9, <1>10, <1>11, <1>12, <1>13,
       <1>14, <1>15, <1>16, <1>17, <1>18, <1>19, <1>20, <1>21, <1>22, <1>23, <1>24,
       <1>25, <1>26, <1>27, <1>28 DEF Next, Register, Continue, Handle

\* TypeOK holds in every state: namespaces of catalogs and of environments stay
\* apart, and every call and request is one the code makes.
THEOREM TypeCorrect == Spec => []TypeOK
<1>1. Init => TypeInv
  BY BoundsAssumption, CallersFact
     DEF Init, TypeInv, TypeOK, Idle, NoCall, CallType, Running
<1>2. TypeInv => TypeOK
  BY DEF TypeInv
<1> QED
  BY <1>1, <1>2, TypeStep, PTL DEF Spec

----------------------------------------------------------------------------
(* The registry.                                                            *)

\* A connection has a number from the moment it drew one, and a connection that
\* waits for its own call waits for its registration.
RegistryInv ==
    /\ TypeInv
    /\ counter # 0
    /\ \A c \in Conns : number[c] = 0 <=> conn[c] \in {"new", "accepted"}
    /\ \A c \in Conns : call[c].stage # "none" => conn[c] = "waiting"

\* Every action keeps RegistryInv.
LEMMA RegistryStep == RegistryInv /\ [Next]_vars => RegistryInv'
<1> SUFFICES ASSUME RegistryInv, [Next]_vars PROVE RegistryInv'
  OBVIOUS
<1>0. TypeInv /\ TypeInv' /\ TypeOK
  BY TypeStep DEF RegistryInv, TypeInv
<1> DEFINE Numbered == \A c \in Conns : number[c] = 0 <=> conn[c] \in {"new",
     "accepted"}
           Waits == \A c \in Conns : call[c].stage # "none" => conn[c] = "waiting"
<1>a. counter # 0 /\ Numbered /\ Waits
  BY DEF RegistryInv
<1>b. SUFFICES (counter # 0 /\ Numbered /\ Waits)'
  BY <1>0 DEF RegistryInv
<1>c. ASSUME UNCHANGED <<conn, number, counter, call>> PROVE (counter # 0 /\ Numbered /\ Waits)'
  BY <1>a, <1>c
<1>d. ASSUME UNCHANGED registryVars,
             \A c \in Conns : call'[c].stage # "none" => call[c].stage # "none"
      PROVE  (counter # 0 /\ Numbered /\ Waits)'
  BY <1>a, <1>d DEF registryVars
<1>1. ASSUME NEW c \in Conns, Connect(c) PROVE (counter # 0 /\ Numbered /\ Waits)'
  BY <1>1, <1>0, <1>a DEF Connect, TypeOK
<1>2. ASSUME NEW c \in Conns, DrawGeneration(c) PROVE (counter # 0 /\ Numbered /\ Waits)'
  BY <1>2, <1>0, <1>a DEF DrawGeneration, TypeOK
<1>3. ASSUME NEW c \in Conns, EnterRegistry(c) PROVE (counter # 0 /\ Numbered /\ Waits)'
  BY <1>3, <1>0, <1>a DEF EnterRegistry, TypeOK
<1>4. ASSUME NEW c \in Conns, ListingFails(c) PROVE (counter # 0 /\ Numbered /\ Waits)'
  BY <1>4, <1>0, <1>a DEF ListingFails, TypeOK
<1>5. ASSUME NEW c \in Conns, Unregister(c) PROVE (counter # 0 /\ Numbered /\ Waits)'
  BY <1>5, <1>0, <1>a DEF Unregister, TypeOK
<1>6. ASSUME NEW c \in Conns, ListForRegistration(c) PROVE (counter # 0 /\ Numbered /\ Waits)'
  <2>1. \A d \in Conns \ {c} : call'[d] = call[d] /\ conn'[d] = conn[d]
    BY <1>6, <1>0 DEF ListForRegistration, TypeOK
  <2>2. conn'[c] = "waiting"
    BY <1>6, <1>0 DEF ListForRegistration, TypeOK
  <2> QED
    BY <1>6, <1>a, <2>1, <2>2 DEF ListForRegistration
<1>7. ASSUME NEW c \in Conns, ApiClose(c) PROVE (counter # 0 /\ Numbered /\ Waits)'
  BY <1>7, <1>c DEF ApiClose, registryVars
<1>8. ASSUME NEW t \in Tasks, WriteEnvironment(t) PROVE (counter # 0 /\ Numbered /\ Waits)'
  BY <1>8, <1>c DEF WriteEnvironment, registryVars
<1>9. ASSUME NEW t \in Tasks, PickServers(t) PROVE (counter # 0 /\ Numbered /\ Waits)'
  BY <1>9, <1>c DEF PickServers, registryVars
<1>10. ASSUME NEW t \in Tasks, ListForRefresh(t) PROVE (counter # 0 /\ Numbered /\ Waits)'
  BY <1>10, <1>c DEF ListForRefresh, registryVars
<1>11. ASSUME NEW t \in Tasks, Cut(t) PROVE (counter # 0 /\ Numbered /\ Waits)'
  BY <1>11, <1>c DEF Cut, registryVars
<1>12. ASSUME NEW t \in Tasks, NEW n \in EnvNamespaces, NEW op \in {"env_add", "env_remove"}, StartEnvironment(t, n, op) PROVE (counter # 0 /\ Numbered /\ Waits)'
  BY <1>12, <1>c DEF StartEnvironment, registryVars
<1>13. ASSUME NEW t \in Tasks, NEW n \in CatalogNamespaces, CreateCatalog(t, n) PROVE (counter # 0 /\ Numbered /\ Waits)'
  BY <1>13, <1>c DEF CreateCatalog, registryVars
<1>14. ASSUME NEW t \in Tasks, NEW n \in CatalogNamespaces, EditCatalog(t, n) PROVE (counter # 0 /\ Numbered /\ Waits)'
  BY <1>14, <1>c DEF EditCatalog, registryVars
<1>15. ASSUME NEW t \in Tasks, SendTask(t) PROVE (counter # 0 /\ Numbered /\ Waits)'
  <2>1. \A c \in Conns : call'[c] = call[c]
    BY <1>15, <1>0, CallersFact DEF SendTask, TypeOK
  <2> QED
    BY <1>15, <1>d, <2>1 DEF SendTask
<1>16. ASSUME NEW c \in Conns, ManagerClose(c) PROVE (counter # 0 /\ Numbered /\ Waits)'
  <2>1. \A d \in Conns : call'[d].stage # "none" => call[d].stage # "none"
    BY <1>16, CallersFact DEF ManagerClose, AbortCalls, Aborted, Running
  <2> QED
    BY <1>16, <1>d, <2>1 DEF ManagerClose
<1>17. ASSUME ManagerRestart PROVE (counter # 0 /\ Numbered /\ Waits)'
  <2>1. \A d \in Conns : call'[d].stage # "none" => call[d].stage # "none"
    BY <1>17, CallersFact DEF ManagerRestart, AbortCalls, Aborted, Running
  <2> QED
    BY <1>17, <1>d, <2>1 DEF ManagerRestart
<1>18. ASSUME NEW x \in Callers, ConfigureDiff(x) PROVE (counter # 0 /\ Numbered /\ Waits)'
  <2>1. \A d \in Conns : call'[d].stage # "none" => call[d].stage # "none"
    BY <1>18, <1>0, CallersFact DEF ConfigureDiff, Begin, TypeOK
  <2> QED
    BY <1>18, <1>d, <2>1 DEF ConfigureDiff, Begin
<1>19. ASSUME NEW x \in Callers, AddCheck(x) PROVE (counter # 0 /\ Numbered /\ Waits)'
  <2>1. \A d \in Conns : call'[d].stage # "none" => call[d].stage # "none"
    BY <1>19, <1>0, CallersFact DEF AddCheck, Begin, TypeOK
  <2> QED
    BY <1>19, <1>d, <2>1 DEF AddCheck, Begin
<1>20. ASSUME NEW x \in Callers, RemoveTake(x) PROVE (counter # 0 /\ Numbered /\ Waits)'
  <2>1. \A d \in Conns : call'[d].stage # "none" => call[d].stage # "none"
    BY <1>20, <1>0, CallersFact DEF RemoveTake, Begin, TypeOK
  <2> QED
    BY <1>20, <1>d, <2>1 DEF RemoveTake, Begin
<1>21. ASSUME NEW x \in Callers, ConfigureApply(x) PROVE (counter # 0 /\ Numbered /\ Waits)'
  <2>1. \A d \in Conns : call'[d].stage # "none" => call[d].stage # "none"
    BY <1>21, <1>0, CallersFact DEF ConfigureApply, Proceed, TypeOK, CallType
  <2> QED
    BY <1>21, <1>d, <2>1 DEF ConfigureApply, Proceed
<1>22. ASSUME NEW x \in Callers, ConfigureWrite(x) PROVE (counter # 0 /\ Numbered /\ Waits)'
  <2>1. \A d \in Conns : call'[d].stage # "none" => call[d].stage # "none"
    BY <1>22, <1>0, CallersFact DEF ConfigureWrite, Proceed, TypeOK, CallType
  <2> QED
    BY <1>22, <1>d, <2>1 DEF ConfigureWrite, Proceed
<1>23. ASSUME NEW x \in Callers, AddStart(x) PROVE (counter # 0 /\ Numbered /\ Waits)'
  <2>1. \A d \in Conns : call'[d].stage # "none" => call[d].stage # "none"
    BY <1>23, <1>0, CallersFact DEF AddStart, Proceed, TypeOK, CallType
  <2> QED
    BY <1>23, <1>d, <2>1 DEF AddStart, Proceed
<1>24. ASSUME NEW x \in Callers, AddInsert(x) PROVE (counter # 0 /\ Numbered /\ Waits)'
  <2>1. \A d \in Conns : call'[d].stage # "none" => call[d].stage # "none"
    BY <1>24, <1>0, CallersFact DEF AddInsert, Proceed, TypeOK, CallType
  <2> QED
    BY <1>24, <1>d, <2>1 DEF AddInsert, Proceed
<1>25. ASSUME NEW x \in Callers, RemoveStop(x) PROVE (counter # 0 /\ Numbered /\ Waits)'
  <2>1. \A d \in Conns : call'[d].stage # "none" => call[d].stage # "none"
    BY <1>25, <1>0, CallersFact DEF RemoveStop, Proceed, TypeOK, CallType
  <2> QED
    BY <1>25, <1>d, <2>1 DEF RemoveStop, Proceed
<1>26. ASSUME NEW x \in Callers, Answer(x) PROVE (counter # 0 /\ Numbered /\ Waits)'
  <2>1. \A d \in Conns : call'[d].stage # "none" => call[d].stage # "none" /\ d # x
    BY <1>26, <1>0, CallersFact DEF Answer, Return, NoCall, TypeOK
  <2>2. \A d \in Conns : d # x => conn'[d] = conn[d]
    BY <1>26, <1>0 DEF Answer, Return, TypeOK
  <2>3. x \in Conns => conn[x] = "waiting" /\ conn'[x] = "serving"
    BY <1>26, <1>0, <1>a DEF Answer, Return, TypeOK
  <2>4. UNCHANGED <<number, counter>>
    BY <1>26 DEF Answer, Return
  <2> QED
    BY <1>a, <2>1, <2>2, <2>3, <2>4
<1>27. ASSUME NEW x \in Callers, CallFails(x) PROVE (counter # 0 /\ Numbered /\ Waits)'
  <2>1. \A d \in Conns : call'[d].stage # "none" => call[d].stage # "none" /\ d # x
    BY <1>27, <1>0, CallersFact DEF CallFails, Return, NoCall, TypeOK
  <2>2. \A d \in Conns : d # x => conn'[d] = conn[d]
    BY <1>27, <1>0 DEF CallFails, Return, TypeOK
  <2>3. x \in Conns => conn[x] = "waiting" /\ conn'[x] = "serving"
    BY <1>27, <1>0, <1>a DEF CallFails, Return, TypeOK
  <2>4. UNCHANGED <<number, counter>>
    BY <1>27 DEF CallFails, Return
  <2> QED
    BY <1>a, <2>1, <2>2, <2>3, <2>4
<1>28. ASSUME UNCHANGED vars PROVE (counter # 0 /\ Numbered /\ Waits)'
  BY <1>28, <1>c DEF vars
<1> QED
  BY <1>1, <1>2, <1>3, <1>4, <1>5, <1>6, <1>7, <1>8, <1>9, <1>10, <1>11, <1>12, <1>13,
       <1>14, <1>15, <1>16, <1>17, <1>18, <1>19, <1>20, <1>21, <1>22, <1>23, <1>24,
       <1>25, <1>26, <1>27, <1>28 DEF Next, Register, Continue, Handle

\* Every action is a step of the registry, or leaves the registry alone.
LEMMA RegistryMap == RegistryInv /\ [Next]_vars => [Registry!Next]_(Registry!registryVars)
<1> SUFFICES ASSUME RegistryInv, [Next]_vars PROVE Registry!Next \/ UNCHANGED Registry!registryVars
  OBVIOUS
<1>0. TypeOK
  BY DEF RegistryInv, TypeInv
<1>c. ASSUME UNCHANGED <<number, counter>>,
             \A c \in Conns : conn'[c] = conn[c] \/
                 (conn[c] \in Entered /\ conn'[c] \in Entered) \/
                 (conn[c] = "new" /\ conn'[c] = "accepted")
      PROVE  UNCHANGED Registry!registryVars
  BY <1>c DEF servers, gone, Entered, Registry!registryVars
<1>d. ASSUME UNCHANGED registryVars PROVE UNCHANGED Registry!registryVars
  BY <1>d, <1>c DEF registryVars
<1>1. ASSUME NEW c \in Conns, DrawGeneration(c) PROVE Registry!Next
  <2>1. number[c] = 0 /\ UNCHANGED <<servers, gone>>
    BY <1>1, <1>0 DEF DrawGeneration, RegistryInv, servers, gone, Entered, TypeOK
  <2> QED
    BY <1>1, <2>1 DEF DrawGeneration, Registry!Next, Registry!Draw
<1>2. ASSUME NEW c \in Conns, EnterRegistry(c) PROVE Registry!Next
  <2>1. number[c] # 0 /\ c \notin servers \cup gone
    BY <1>2 DEF EnterRegistry, RegistryInv, servers, gone, Entered
  <2>2. servers' = servers \cup {c} /\ gone' = gone
    BY <1>2, <1>0 DEF EnterRegistry, servers, gone, Entered, TypeOK
  <2> QED
    BY <1>2, <2>1, <2>2 DEF EnterRegistry, Registry!Next, Registry!Enter
<1>3. ASSUME NEW c \in Conns, Unregister(c) PROVE Registry!Next
  <2>1. c \in servers
    BY <1>3 DEF Unregister, servers, Entered
  <2>2. servers' = servers \ {c} /\ gone' = gone \cup {c}
    BY <1>3, <1>0 DEF Unregister, servers, gone, Entered, TypeOK
  <2> QED
    BY <1>3, <2>1, <2>2 DEF Unregister, Registry!Next, Registry!Leave
<1>4. ASSUME NEW c \in Conns, Connect(c) PROVE UNCHANGED Registry!registryVars
  BY <1>4, <1>0, <1>c DEF Connect, Entered, TypeOK
<1>5. ASSUME NEW c \in Conns, ListForRegistration(c) PROVE UNCHANGED Registry!registryVars
  BY <1>5, <1>0, <1>c DEF ListForRegistration, Entered, TypeOK
<1>6. ASSUME NEW c \in Conns, ListingFails(c) PROVE UNCHANGED Registry!registryVars
  BY <1>6, <1>0, <1>c DEF ListingFails, Entered, TypeOK
<1>7. ASSUME NEW x \in Callers, Answer(x) PROVE UNCHANGED Registry!registryVars
  <2>1. \A d \in Conns : conn'[d] = conn[d] \/ (conn[d] = "waiting" /\ conn'[d] = "serving")
    BY <1>7, <1>0 DEF Answer, Return, RegistryInv, TypeOK
  <2> QED
    BY <1>7, <1>c, <2>1 DEF Answer, Return, Entered
<1>8. ASSUME NEW x \in Callers, CallFails(x) PROVE UNCHANGED Registry!registryVars
  <2>1. \A d \in Conns : conn'[d] = conn[d] \/ (conn[d] = "waiting" /\ conn'[d] = "serving")
    BY <1>8, <1>0 DEF CallFails, Return, RegistryInv, TypeOK
  <2> QED
    BY <1>8, <1>c, <2>1 DEF CallFails, Return, Entered
<1>9. ASSUME NEW c \in Conns, ManagerClose(c) PROVE UNCHANGED Registry!registryVars
  BY <1>9, <1>d DEF ManagerClose
<1>10. ASSUME NEW c \in Conns, ApiClose(c) PROVE UNCHANGED Registry!registryVars
  BY <1>10, <1>d DEF ApiClose
<1>11. ASSUME ManagerRestart PROVE UNCHANGED Registry!registryVars
  BY <1>11, <1>d DEF ManagerRestart
<1>12. ASSUME NEW t \in Tasks, WriteEnvironment(t) PROVE UNCHANGED Registry!registryVars
  BY <1>12, <1>d DEF WriteEnvironment
<1>13. ASSUME NEW t \in Tasks, PickServers(t) PROVE UNCHANGED Registry!registryVars
  BY <1>13, <1>d DEF PickServers
<1>14. ASSUME NEW t \in Tasks, ListForRefresh(t) PROVE UNCHANGED Registry!registryVars
  BY <1>14, <1>d DEF ListForRefresh
<1>15. ASSUME NEW t \in Tasks, SendTask(t) PROVE UNCHANGED Registry!registryVars
  BY <1>15, <1>d DEF SendTask
<1>16. ASSUME NEW t \in Tasks, Cut(t) PROVE UNCHANGED Registry!registryVars
  BY <1>16, <1>d DEF Cut
<1>17. ASSUME NEW t \in Tasks, NEW n \in EnvNamespaces, NEW op \in {"env_add", "env_remove"}, StartEnvironment(t, n, op) PROVE UNCHANGED Registry!registryVars
  BY <1>17, <1>d DEF StartEnvironment
<1>18. ASSUME NEW t \in Tasks, NEW n \in CatalogNamespaces, CreateCatalog(t, n) PROVE UNCHANGED Registry!registryVars
  BY <1>18, <1>d DEF CreateCatalog
<1>19. ASSUME NEW t \in Tasks, NEW n \in CatalogNamespaces, EditCatalog(t, n) PROVE UNCHANGED Registry!registryVars
  BY <1>19, <1>d DEF EditCatalog
<1>20. ASSUME NEW x \in Callers, Handle(x) PROVE UNCHANGED Registry!registryVars
  BY <1>20, <1>d DEF Handle, ConfigureDiff, ConfigureApply, ConfigureWrite, AddCheck,
       AddStart,
     AddInsert, RemoveTake, RemoveStop, Begin, Proceed
<1>21. ASSUME UNCHANGED vars PROVE UNCHANGED Registry!registryVars
  BY <1>21, <1>d DEF vars, registryVars
<1> QED
  BY <1>1, <1>2, <1>3, <1>4, <1>5, <1>6, <1>7, <1>8, <1>9, <1>10, <1>11, <1>12, <1>13,
       <1>14, <1>15, <1>16, <1>17, <1>18, <1>19, <1>20, <1>21 DEF Next, Register,
       Continue

\* The servers of a cluster are a generation registry, whatever requests, lost
\* connections and restarts do: a connection is entered once, under a number drawn
\* before, is removed by its own end only, and does not return.
THEOREM ImplementsRegistry == Spec => RegistrySpec
<1>1. Init => RegistryInv
  BY BoundsAssumption, CallersFact
     DEF Init, RegistryInv, TypeInv, TypeOK, Idle, NoCall, CallType, Running
<1>2. Init => Registry!Init
  BY DEF Init, Registry!Init, servers, gone, Entered
<1> QED
  BY <1>1, <1>2, RegistryStep, RegistryMap, PTL DEF Spec, RegistrySpec, Registry!Spec

----------------------------------------------------------------------------
(* The forms of calls and requests.                                         *)

\* The handler of x runs, and it is about namespace n.
Runs(x) == call[x].stage \in Running
Handles(x, n) == Runs(x) /\ n \in Touches(x)

\* A call that has not ended is one of the three, its handler is at a step of its
\* own, and it runs over the connection the kube-manager has open.
CallForm(x) ==
    /\ call[x].stage \in {"sent"} \cup Running => call[x].op \in {"configure", "add", "remove"}
    /\ call[x].stage = "apply"
          => /\ call[x].op = "configure"
             /\ call[x].stop \cap call[x].arg = {} /\ call[x].start \subseteq call[x].arg
    /\ call[x].stage \in {"starting", "insert"} => call[x].op = "add"
    /\ call[x].stage = "stopping" => call[x].op = "remove"
    /\ call[x].stage \in {"sent"} \cup Running => call[x].conn \in Conns
    /\ Runs(x) => call[x].conn = client
    /\ call[x].op = "remove" => \E n \in Namespaces : call[x].arg = {n}

\* A request that is under way is about one namespace, and waits for the call
\* that its stage and its kind make it send.
TaskForm(t) ==
    /\ task[t].stage # "idle" => \E n \in Namespaces : task[t].ns = {n}
    /\ task[t].stage = "idle" => task[t] = Idle
    /\ task[t].stage = "write" => task[t].op \in {"env_add", "env_remove"}
    /\ task[t].stage = "pick" => task[t].op = "cat_add"
    /\ task[t].stage \in {"list", "lock", "refresh"} => task[t].op = "cat_edit"
    /\ task[t].stage = "send" => task[t].op \in {"env_add", "env_remove", "cat_add"}
    /\ task[t].stage \notin {"send", "refresh"} => call[t] = NoCall
    /\ call[t].stage \in {"sent"} \cup Running
          => /\ call[t].op = "configure" <=> task[t].stage = "refresh"
             /\ call[t].op = "configure" => call[t].arg = list[t]
             /\ call[t].op # "configure" => call[t].arg = task[t].ns
             /\ call[t].op = "remove" <=> task[t].op = "env_remove"

\* A connection waits for nothing but the call of its registration.
ConnForm(c) ==
    call[c].stage # "none" => conn[c] = "waiting" /\ call[c].op \in {"none", "configure"}

Forms ==
    /\ \A x \in Callers : CallForm(x)
    /\ \A t \in Tasks : TaskForm(t)
    /\ \A c \in Conns : ConnForm(c)

\* What is left of a call once it has ended, and what a request looks like.
LEMMA CallShapes ==
    /\ NoCall.op = "none" /\ NoCall.stage = "none"
    /\ \A x \in Callers, s \in {"done", "lost"} :
          Over(x, s).op = "none" /\ Over(x, s).stage = s
    /\ \A op \in {"configure", "add", "remove"}, c \in Conns, A \in SUBSET Namespaces :
          LET r == Request(op, c, A)
          IN  r.op = op /\ r.arg = A /\ r.stage = "sent" /\ r.conn = c
  BY DEF NoCall, Over, Request

\* CallForm of a call that did not change, or has ended.
LEMMA CallFormFrame ==
    ASSUME NEW x \in Callers,
           \/ /\ CallForm(x) /\ call'[x] = call[x]
              /\ client' = client \/ ~Runs(x)
           \/ call'[x].op = "none" /\ call'[x].stage \in {"none", "done", "lost"}
    PROVE  CallForm(x)'
  BY DEF CallForm, Runs, Running

\* TaskForm of a request whose call ends, or nothing about it changes.
LEMMA TaskFormFrame ==
    ASSUME NEW t \in Tasks, TaskForm(t), task'[t] = task[t], list'[t] = list[t],
           \/ call'[t] = call[t]
           \/ call'[t] = NoCall
           \/ call[t] # NoCall /\ call'[t].stage \in {"done", "lost"}
    PROVE  TaskForm(t)'
  BY CallShapes DEF TaskForm, Running

\* Steps that touch no call and no request keep Forms.
LEMMA FormsRegistry ==
    ASSUME TypeOK, Forms, UNCHANGED <<task, list, call>>,
           \A c \in Conns : conn[c] = "waiting" => conn'[c] = "waiting",
           client' = client \/ client = None
    PROVE  Forms'
  <1>1. ASSUME NEW x \in Callers PROVE CallForm(x)'
    <2>1. CallForm(x)
      BY DEF Forms
    <2>2. client' = client \/ ~Runs(x)
      BY <2>1, CallersFact DEF CallForm, Runs
    <2> QED
      BY <2>1, <2>2, CallFormFrame
  <1>2. ASSUME NEW t \in Tasks PROVE TaskForm(t)'
    BY TaskFormFrame DEF Forms
  <1>3. ASSUME NEW c \in Conns PROVE ConnForm(c)'
    BY DEF Forms, ConnForm
  <1> QED
    BY <1>1, <1>2, <1>3 DEF Forms

\* Steps of one request between its calls keep Forms, if its new record is one.
LEMMA FormsTask ==
    ASSUME TypeOK, Forms, NEW t \in Tasks, UNCHANGED <<conn, client, call>>,
           \A s \in Tasks \ {t} : task'[s] = task[s] /\ list'[s] = list[s],
           call[t] = NoCall,
           task'[t].stage # "idle" => \E n \in Namespaces : task'[t].ns = {n},
           task'[t].stage = "idle" => task'[t] = Idle,
           task'[t].stage = "write" => task'[t].op \in {"env_add", "env_remove"},
           task'[t].stage = "pick" => task'[t].op = "cat_add",
           task'[t].stage \in {"list", "lock", "refresh"} => task'[t].op = "cat_edit",
           task'[t].stage = "send" => task'[t].op \in {"env_add", "env_remove", "cat_add"}
    PROVE  Forms'
  <1>1. ASSUME NEW x \in Callers PROVE CallForm(x)'
    BY CallFormFrame DEF Forms
  <1>2. ASSUME NEW s \in Tasks PROVE TaskForm(s)'
    <2>1. CASE s = t
      BY <2>1, CallShapes DEF TaskForm, Running
    <2>2. CASE s # t
      BY <2>2, TaskFormFrame DEF Forms
    <2> QED
      BY <2>1, <2>2
  <1>3. ASSUME NEW c \in Conns PROVE ConnForm(c)'
    BY DEF Forms, ConnForm
  <1> QED
    BY <1>1, <1>2, <1>3 DEF Forms

\* Steps in which calls end, or the handler of one moves on, keep Forms.
LEMMA FormsHandler ==
    ASSUME TypeOK, Forms, UNCHANGED <<conn, task, list>>,
           NEW x \in Callers, call[x].stage \in {"sent"} \cup Running, client' = client,
           \A y \in Callers \ {x} : call'[y] = call[y],
           \/ call'[x].op = "none" /\ call'[x].stage = "done"
           \/ /\ call'[x].op = call[x].op /\ call'[x].arg = call[x].arg
              /\ call'[x].stage \in Running /\ CallForm(x)'
    PROVE  Forms'
  <1>0. call[x] # NoCall
    BY CallShapes DEF Running
  <1>1. ASSUME NEW y \in Callers PROVE CallForm(y)'
    BY CallFormFrame DEF Forms
  <1>2. ASSUME NEW t \in Tasks PROVE TaskForm(t)'
    <2>1. TaskForm(t) /\ task'[t] = task[t] /\ list'[t] = list[t]
      BY DEF Forms
    <2>2. CASE t = x /\ call'[x].stage \in Running
      BY <1>0, <2>1, <2>2 DEF TaskForm, Running
    <2>3. CASE ~(t = x /\ call'[x].stage \in Running)
      BY <1>0, <2>1, <2>3, TaskFormFrame, CallersFact
    <2> QED
      BY <2>2, <2>3
  <1>3. ASSUME NEW c \in Conns PROVE ConnForm(c)'
    <2>1. ConnForm(c) /\ c \in Callers
      BY CallersFact DEF Forms
    <2>2. CASE c = x
      BY <2>1, <2>2 DEF ConnForm, Running
    <2>3. CASE c # x
      BY <2>1, <2>3 DEF ConnForm
    <2> QED
      BY <2>2, <2>3
  <1> QED
    BY <1>1, <1>2, <1>3 DEF Forms

\* When the kube-manager's end closes, every handler that runs is aborted.
LEMMA AbortFacts ==
    ASSUME TypeOK, Forms, AbortCalls(client)
    PROVE  /\ \A x \in Callers : Runs(x) => call'[x].op = "none" /\ call'[x].stage = "lost"
           /\ \A x \in Callers : ~Runs(x) => call'[x] = call[x]
           /\ \A x \in Callers : Runs(x) <=> x \in Aborted(client)
           /\ \A x \in Callers : ~Runs(x)'
  <1>1. \A x \in Callers : Runs(x) <=> x \in Aborted(client)
    BY DEF Aborted, Forms, CallForm, Runs
  <1>2. \A x \in Callers : call'[x] = IF x \in Aborted(client) THEN Over(x, "lost") ELSE call[x]
    BY DEF AbortCalls
  <1>3. \A x \in Callers : Runs(x) => call'[x].op = "none" /\ call'[x].stage = "lost"
    BY <1>1, <1>2, CallShapes
  <1>4. \A x \in Callers : ~Runs(x) => call'[x] = call[x]
    BY <1>1, <1>2
  <1> QED
    BY <1>1, <1>3, <1>4 DEF Runs, Running

\* A closing or restarting kube-manager keeps Forms.
LEMMA FormsAbort ==
    ASSUME TypeOK, Forms, AbortCalls(client), UNCHANGED <<conn, task, list>>
    PROVE  Forms'
  <1>1. ASSUME NEW x \in Callers PROVE CallForm(x)'
    BY AbortFacts, CallFormFrame DEF Forms
  <1>2. ASSUME NEW t \in Tasks PROVE TaskForm(t)'
    <2>1. t \in Callers
      BY CallersFact
    <2>2. Runs(t) => call[t] # NoCall
      BY CallShapes DEF Runs, Running
    <2> QED
      BY <2>1, <2>2, AbortFacts, TaskFormFrame DEF Forms
  <1>3. ASSUME NEW c \in Conns PROVE ConnForm(c)'
    <2>1. c \in Callers /\ ConnForm(c)
      BY CallersFact DEF Forms
    <2>2. CASE Runs(c)
      BY <2>1, <2>2, AbortFacts DEF ConnForm, Runs, Running
    <2>3. CASE ~Runs(c)
      BY <2>1, <2>3, AbortFacts DEF ConnForm
    <2> QED
      BY <2>2, <2>3
  <1> QED
    BY <1>1, <1>2, <1>3 DEF Forms

\* The steps that touch neither calls nor what is watched; a connection that
\* waits for its call goes on waiting.
RegistryStepOf(c) ==
    \/ Connect(c) \/ ApiClose(c) \/ DrawGeneration(c) \/ EnterRegistry(c)
    \/ ListingFails(c) \/ Unregister(c)

\* A step of the registry leaves requests and watches alone.
LEMMA RegistryStepFacts ==
    ASSUME TypeOK, NEW c \in Conns, RegistryStepOf(c)
    PROVE  /\ UNCHANGED <<task, list, call, torn, crossed, doubt, catalogs, envs, watched,
                          watchers>>
           /\ \A d \in Conns : conn'[d] = "waiting" <=> conn[d] = "waiting"
           /\ client' = client \/ client = None
  <1> USE DEF dbVars, managerVars, registryVars, TypeOK
  <1>1. CASE Connect(c)
    BY <1>1 DEF Connect
  <1>2. CASE ApiClose(c)
    BY <1>2 DEF ApiClose
  <1>3. CASE DrawGeneration(c)
    BY <1>3 DEF DrawGeneration
  <1>4. CASE EnterRegistry(c)
    BY <1>4 DEF EnterRegistry
  <1>5. CASE ListingFails(c)
    BY <1>5 DEF ListingFails
  <1>6. CASE Unregister(c)
    BY <1>6 DEF Unregister
  <1> QED
    BY <1>1, <1>2, <1>3, <1>4, <1>5, <1>6 DEF RegistryStepOf

\* The call of a registration begins.
LEMMA FormsRegistration ==
    ASSUME TypeOK, Forms, NEW c \in Conns, ListForRegistration(c)
    PROVE  Forms'
  <1>1. /\ \A x \in Callers \ {c} : call'[x] = call[x]
        /\ call'[c] = Request("configure", c, Wanted)
        /\ conn'[c] = "waiting" /\ \A d \in Conns \ {c} : conn'[d] = conn[d]
        /\ UNCHANGED <<task, list, client>>
    BY CallersFact DEF ListForRegistration, TypeOK
  <1>2. call'[c].op = "configure" /\ call'[c].stage = "sent" /\ call'[c].conn = c
    BY <1>1, CallFacts, CallShapes
  <1>3. ASSUME NEW x \in Callers PROVE CallForm(x)'
    <2>1. CASE x = c
      BY <1>2, <2>1 DEF CallForm, Runs, Running
    <2>2. CASE x # c
      BY <1>1, <2>2, CallFormFrame DEF Forms
    <2> QED
      BY <2>1, <2>2
  <1>4. ASSUME NEW t \in Tasks PROVE TaskForm(t)'
    BY <1>1, TaskFormFrame, CallersFact DEF Forms
  <1>5. ASSUME NEW d \in Conns PROVE ConnForm(d)'
    BY <1>1, <1>2, CallersFact DEF Forms, ConnForm
  <1> QED
    BY <1>3, <1>4, <1>5 DEF Forms

\* The steps of a request between its calls.
TaskStepOf(t) ==
    \/ WriteEnvironment(t) \/ PickServers(t) \/ ListForRefresh(t) \/ Cut(t)
    \/ \E n \in EnvNamespaces, op \in {"env_add", "env_remove"} : StartEnvironment(t, n, op)
    \/ \E n \in CatalogNamespaces : CreateCatalog(t, n) \/ EditCatalog(t, n)

\* A step of a request leaves connections, calls and other requests alone.
LEMMA TaskStepFacts ==
    ASSUME TypeOK, Forms, NEW t \in Tasks, TaskStepOf(t)
    PROVE  /\ UNCHANGED <<conn, client, call, watched, watchers, torn>>
           /\ \A s \in Tasks \ {t} : task'[s] = task[s] /\ list'[s] = list[s]
           /\ call[t] = NoCall
  <1> USE DEF Unaffected, registryVars, dbVars
  <1>0. TaskForm(t)
    BY DEF Forms
  <1>idle. task[t] = Idle => task[t].stage = "idle"
    BY DEF Idle
  <1>1. CASE WriteEnvironment(t)
    BY <1>0, <1>1 DEF WriteEnvironment, TaskForm, TypeOK
  <1>2. CASE PickServers(t)
    BY <1>0, <1>2 DEF PickServers, TaskForm, TypeOK
  <1>3. CASE ListForRefresh(t)
    BY <1>0, <1>3 DEF ListForRefresh, TaskForm, TypeOK
  <1>4. CASE Cut(t)
    BY <1>4 DEF Cut, TypeOK
  <1>5. ASSUME NEW n \in EnvNamespaces, NEW op \in {"env_add", "env_remove"},
               StartEnvironment(t, n, op)
        PROVE  /\ UNCHANGED <<conn, client, call, watched, watchers, torn>>
               /\ \A s \in Tasks \ {t} : task'[s] = task[s] /\ list'[s] = list[s]
               /\ call[t] = NoCall
    BY <1>0, <1>idle, <1>5 DEF StartEnvironment, Free, TaskForm, TypeOK
  <1>6. ASSUME NEW n \in CatalogNamespaces, CreateCatalog(t, n) \/ EditCatalog(t, n)
        PROVE  /\ UNCHANGED <<conn, client, call, watched, watchers, torn>>
               /\ \A s \in Tasks \ {t} : task'[s] = task[s] /\ list'[s] = list[s]
               /\ call[t] = NoCall
    BY <1>0, <1>idle, <1>6 DEF CreateCatalog, EditCatalog, Free, TaskForm, TypeOK
  <1> QED
    BY <1>1, <1>2, <1>3, <1>4, <1>5, <1>6 DEF TaskStepOf

\* They keep Forms.
LEMMA FormsTaskStep ==
    ASSUME TypeOK, Forms, NEW t \in Tasks, TaskStepOf(t)
    PROVE  Forms'
  <1>0. TaskForm(t)
    BY DEF Forms
  <1> DEFINE Formed ==
               /\ task'[t].stage # "idle" => \E n \in Namespaces : task'[t].ns = {n}
               /\ task'[t].stage = "idle" => task'[t] = Idle
               /\ task'[t].stage = "write" => task'[t].op \in {"env_add", "env_remove"}
               /\ task'[t].stage = "pick" => task'[t].op = "cat_add"
               /\ task'[t].stage \in {"list", "lock", "refresh"} => task'[t].op = "cat_edit"
               /\ task'[t].stage = "send"
                     => task'[t].op \in {"env_add", "env_remove", "cat_add"}
  <1>ended. ASSUME task' = [task EXCEPT ![t] = Idle] PROVE Formed
    BY <1>ended DEF TypeOK, Idle
  <1>1. CASE WriteEnvironment(t)
    <2>1. /\ task[t].stage = "write" /\ task'[t].stage = "send"
          /\ task'[t].ns = task[t].ns /\ task'[t].op = task[t].op
      BY <1>1 DEF WriteEnvironment, TypeOK
    <2>2. Formed
      BY <1>0, <2>1 DEF TaskForm
    <2> QED
      BY <2>2, FormsTask, TaskStepFacts
  <1>2. CASE PickServers(t)
    <2>1. CASE task' = [task EXCEPT ![t] = Idle]
      BY <1>ended, <2>1, FormsTask, TaskStepFacts
    <2>2. CASE task' = [task EXCEPT ![t].stage = "send", ![t].queue = servers]
      <3>1. /\ task[t].stage = "pick" /\ task'[t].stage = "send"
            /\ task'[t].ns = task[t].ns /\ task'[t].op = task[t].op
        BY <1>2, <2>2 DEF PickServers, TypeOK
      <3>2. Formed
        BY <1>0, <3>1 DEF TaskForm
      <3> QED
        BY <3>2, FormsTask, TaskStepFacts
    <2> QED
      BY <1>2, <2>1, <2>2 DEF PickServers
  <1>3. CASE ListForRefresh(t)
    <2>1. CASE task' = [task EXCEPT ![t] = Idle]
      BY <1>ended, <2>1, FormsTask, TaskStepFacts
    <2>2. CASE \/ task' = [task EXCEPT ![t].stage = "lock"]
               \/ task' = [task EXCEPT ![t].stage = "refresh", ![t].queue = servers]
      <3>1. /\ task[t].stage \in {"list", "lock"} /\ task'[t].stage \in {"lock", "refresh"}
            /\ task'[t].ns = task[t].ns /\ task'[t].op = task[t].op
        BY <1>3, <2>2 DEF ListForRefresh, TypeOK
      <3>2. Formed
        BY <1>0, <3>1 DEF TaskForm
      <3> QED
        BY <3>2, FormsTask, TaskStepFacts
    <2> QED
      BY <1>3, <2>1, <2>2 DEF ListForRefresh
  <1>4. CASE Cut(t)
    BY <1>ended, <1>4, FormsTask, TaskStepFacts DEF Cut
  <1>5. ASSUME NEW n \in EnvNamespaces, NEW op \in {"env_add", "env_remove"},
               StartEnvironment(t, n, op)
        PROVE  Forms'
    <2>1. task'[t].op = op /\ task'[t].ns = {n} /\ task'[t].stage = "write"
      BY <1>5 DEF StartEnvironment, TypeOK
    <2>2. Formed
      BY <2>1 DEF Namespaces
    <2> QED
      BY <2>2, FormsTask, TaskStepFacts
  <1>6. ASSUME NEW n \in CatalogNamespaces, CreateCatalog(t, n) \/ EditCatalog(t, n)
        PROVE  Forms'
    <2>1. /\ task'[t].ns = {n}
          /\ \/ task'[t].op = "cat_add" /\ task'[t].stage = "pick"
             \/ task'[t].op = "cat_edit" /\ task'[t].stage = "list"
      BY <1>6 DEF CreateCatalog, EditCatalog, TypeOK
    <2>2. Formed
      BY <2>1 DEF Namespaces
    <2> QED
      BY <2>2, FormsTask, TaskStepFacts
  <1> QED
    BY <1>1, <1>2, <1>3, <1>4, <1>5, <1>6 DEF TaskStepOf

\* A request sends the call that its kind asks for.
LEMMA SendFacts ==
    ASSUME TypeOK, Forms, NEW t \in Tasks, SendTask(t)
    PROVE  /\ UNCHANGED <<conn, client, list, watched, watchers, torn, crossed, doubt,
                          catalogs, envs>>
           /\ \A x \in Callers \ {t} : call'[x] = call[x]
           /\ \A s \in Tasks \ {t} : task'[s] = task[s]
           /\ task'[t].op = task[t].op /\ task'[t].ns = task[t].ns
           /\ task'[t].stage = task[t].stage
           /\ task[t].stage \in {"send", "refresh"}
           /\ call[t] = NoCall /\ call'[t].stage = "sent" /\ call'[t].conn \in Conns
           /\ \/ /\ task[t].stage = "refresh"
                 /\ call'[t].op = "configure" /\ call'[t].arg = list[t]
              \/ /\ task[t].stage = "send" /\ call'[t].arg = task[t].ns
                 /\ call'[t].op = IF task[t].op = "env_remove" THEN "remove" ELSE "add"
  <1>0. TaskForm(t) /\ t \in Callers
    BY CallersFact DEF Forms
  <1>1. PICK c \in task[t].queue :
          /\ task' = [task EXCEPT ![t].queue = @ \ {c}]
          /\ call' = [call EXCEPT ![t] =
               CASE task[t].op = "cat_edit"   -> Request("configure", c, list[t])
                 [] task[t].op = "env_remove" -> Request("remove", c, task[t].ns)
                 [] OTHER                     -> Request("add", c, task[t].ns)]
    BY DEF SendTask
  <1>2. c \in Conns /\ list[t] \subseteq Namespaces /\ task[t].ns \subseteq Namespaces
    BY <1>1 DEF TypeOK
  <1>3. task[t].stage \in {"send", "refresh"} /\ call[t] = NoCall
    BY DEF SendTask
  <1>4. UNCHANGED <<conn, client, list, watched, watchers, torn, crossed, doubt, catalogs, envs>>
    BY DEF SendTask, Unaffected, registryVars, dbVars
  <1>5. /\ \A s \in Tasks \ {t} : task'[s] = task[s]
        /\ task'[t].op = task[t].op /\ task'[t].ns = task[t].ns
        /\ task'[t].stage = task[t].stage
    BY <1>1 DEF TypeOK
  <1>6. /\ \A x \in Callers \ {t} : call'[x] = call[x]
        /\ call'[t] = CASE task[t].op = "cat_edit" -> Request("configure", c, list[t])
                        [] task[t].op = "env_remove" -> Request("remove", c, task[t].ns)
                        [] OTHER                     -> Request("add", c, task[t].ns)
    BY <1>0, <1>1 DEF TypeOK
  <1>7. CASE task[t].stage = "refresh"
    <2>1. call'[t] = Request("configure", c, list[t])
      BY <1>0, <1>6, <1>7 DEF TaskForm
    <2>2. call'[t].op = "configure" /\ call'[t].arg = list[t] /\ call'[t].stage = "sent"
          /\ call'[t].conn \in Conns
      BY <1>2, <2>1, CallShapes
    <2> QED
      BY <1>3, <1>4, <1>5, <1>6, <1>7, <2>2
  <1>8. CASE task[t].stage = "send"
    <2>1. task[t].op # "cat_edit"
      BY <1>0, <1>8 DEF TaskForm
    <2>2. CASE task[t].op = "env_remove"
      <3>1. call'[t] = Request("remove", c, task[t].ns)
        BY <1>6, <2>1, <2>2
      <3>2. call'[t].op = "remove" /\ call'[t].arg = task[t].ns /\ call'[t].stage = "sent"
            /\ call'[t].conn \in Conns
        BY <1>2, <3>1, CallShapes
      <3> QED
        BY <1>3, <1>4, <1>5, <1>6, <1>8, <2>2, <3>2
    <2>3. CASE task[t].op # "env_remove"
      <3>1. call'[t] = Request("add", c, task[t].ns)
        BY <1>6, <2>1, <2>3
      <3>2. call'[t].op = "add" /\ call'[t].arg = task[t].ns /\ call'[t].stage = "sent"
            /\ call'[t].conn \in Conns
        BY <1>2, <3>1, CallShapes
      <3> QED
        BY <1>3, <1>4, <1>5, <1>6, <1>8, <2>3, <3>2
    <2> QED
      BY <2>2, <2>3
  <1> QED
    BY <1>3, <1>7, <1>8

\* It keeps Forms.
LEMMA FormsSend ==
    ASSUME TypeOK, Forms, NEW t \in Tasks, SendTask(t)
    PROVE  Forms'
  <1>0. TaskForm(t) /\ t \in Callers /\ t \notin Conns
    BY CallersFact DEF Forms
  <1>1. ASSUME NEW x \in Callers PROVE CallForm(x)'
    <2>1. CASE x = t
      BY <1>0, <2>1, SendFacts DEF CallForm, TaskForm, Runs, Running
    <2>2. CASE x # t
      BY <2>2, SendFacts, CallFormFrame DEF Forms
    <2> QED
      BY <2>1, <2>2
  <1>2. ASSUME NEW s \in Tasks PROVE TaskForm(s)'
    <2>1. CASE s = t
      BY <1>0, <2>1, SendFacts DEF TaskForm, Running
    <2>2. CASE s # t
      BY <2>2, SendFacts, TaskFormFrame, CallersFact DEF Forms
    <2> QED
      BY <2>1, <2>2
  <1>3. ASSUME NEW c \in Conns PROVE ConnForm(c)'
    BY <1>0, SendFacts, CallersFact DEF Forms, ConnForm
  <1> QED
    BY <1>1, <1>2, <1>3 DEF Forms

\* The caller takes the answer of its call, or its failure.
LEMMA ReturnFacts ==
    ASSUME TypeOK, Forms, NEW x \in Callers, Answer(x) \/ CallFails(x)
    PROVE  /\ UNCHANGED <<client, watched, watchers, torn, catalogs, envs>>
           /\ call[x].stage \in {"sent", "done", "lost"}
           /\ call'[x] = NoCall /\ \A y \in Callers \ {x} : call'[y] = call[y]
           /\ \A c \in Conns \ {x} : conn'[c] = conn[c]
           /\ x \in Conns => conn'[x] = "serving"
           /\ \A t \in Tasks \ {x} : task'[t] = task[t] /\ list'[t] = list[t]
           /\ x \in Tasks => \/ task'[x] = Idle
                             \/ task'[x] = task[x] /\ list'[x] = list[x] /\ crossed' = crossed
           /\ \A y \in Callers \ {x} : crossed'[y] = crossed[y]
  <1>1. Return(x) /\ call[x].stage \in {"sent", "done", "lost"}
    BY DEF Answer, CallFails
  <1>2. /\ UNCHANGED <<client, watched, watchers, torn, catalogs, envs>>
        /\ call'[x] = NoCall /\ \A y \in Callers \ {x} : call'[y] = call[y]
    BY <1>1 DEF Return, Unaffected, dbVars, TypeOK
  <1>3. CASE x \in Conns
    BY <1>1, <1>2, <1>3, CallersFact DEF Return, Forgets, TypeOK
  <1>4. CASE x \notin Conns
    <2>1. x \in Tasks
      BY <1>4, CallersFact
    <2>2. CASE task[x].queue = {}
      BY <1>1, <1>2, <1>4, <2>1, <2>2 DEF Return, Forgets, TypeOK
    <2>3. CASE task[x].queue # {}
      BY <1>1, <1>2, <1>4, <2>1, <2>3 DEF Return
    <2> QED
      BY <2>2, <2>3
  <1> QED
    BY <1>3, <1>4

\* It keeps Forms.
LEMMA FormsReturn ==
    ASSUME TypeOK, Forms, NEW x \in Callers, Answer(x) \/ CallFails(x)
    PROVE  Forms'
  <1>1. ASSUME NEW y \in Callers PROVE CallForm(y)'
    BY ReturnFacts, CallShapes, CallFormFrame DEF Forms
  <1>2. ASSUME NEW t \in Tasks PROVE TaskForm(t)'
    <2>1. TaskForm(t) /\ t \in Callers
      BY CallersFact DEF Forms
    <2>2. CASE t = x /\ task'[x] = Idle
      BY <2>2, ReturnFacts, CallShapes DEF TaskForm, Idle, Running
    <2>3. CASE ~(t = x /\ task'[x] = Idle)
      BY <2>1, <2>3, ReturnFacts, TaskFormFrame
    <2> QED
      BY <2>2, <2>3
  <1>3. ASSUME NEW c \in Conns PROVE ConnForm(c)'
    BY ReturnFacts, CallShapes, CallersFact DEF Forms, ConnForm
  <1> QED
    BY <1>1, <1>2, <1>3 DEF Forms

\* A handler takes its first step: it and those that run meet on what they share.
LEMMA BeginFacts ==
    ASSUME TypeOK, NEW x \in Callers, NEW r, Begin(x, r)
    PROVE  /\ UNCHANGED <<conn, client, task, list, catalogs, envs>>
           /\ call[x].stage = "sent" /\ call[x].conn = client
           /\ call'[x] = r /\ \A y \in Callers \ {x} : call'[y] = call[y]
           /\ torn \subseteq torn' /\ \A y \in Callers : crossed[y] \subseteq crossed'[y]
           /\ \A y \in Callers \ {x} : \A n \in Namespaces :
                 Handles(y, n) /\ n \in Touches(x)
                    => n \in torn' /\ n \in crossed'[x] /\ n \in crossed'[y]
  <1>1. /\ UNCHANGED <<conn, client, task, list, catalogs, envs>>
        /\ call[x].stage = "sent" /\ call[x].conn = client
        /\ call'[x] = r /\ \A y \in Callers \ {x} : call'[y] = call[y]
        /\ torn' = torn \cup Crossing(x)
    BY DEF Begin, registryVars, dbVars, TypeOK
  <1>2. \A y \in Callers : crossed'[y] = crossed[y] \cup IF y = x THEN Crossing(x) ELSE Meets(x, y)
    BY DEF Begin
  <1>3. \A y \in Callers \ {x} : \A n \in Namespaces :
           Handles(y, n) /\ n \in Touches(x) => n \in Meets(x, y) /\ n \in Crossing(x)
    BY DEF Handles, Runs, Meets, Crossing
  <1> QED
    BY <1>1, <1>2, <1>3

\* A handler takes a further step.
LEMMA ProceedFacts ==
    ASSUME NEW x \in Callers, NEW from, Proceed(x, from)
    PROVE  /\ UNCHANGED <<conn, client, task, list, catalogs, envs, torn, crossed>>
           /\ call[x].stage = from /\ call[x].conn = client
  BY DEF Proceed, registryVars, dbVars

\* The call of x goes on, at stage s, or has ended.
GoesOn(x, s) ==
    /\ call'[x].stage = s /\ call'[x].op = call[x].op
    /\ call'[x].arg = call[x].arg /\ call'[x].conn = call[x].conn
Ends(x) == call'[x].stage = "done" /\ call'[x].op = "none"

\* What each step of a handler does to the call of x.
LEMMA HandlerFields ==
    ASSUME TypeOK, NEW x \in Callers
    PROVE  /\ ConfigureDiff(x) => /\ GoesOn(x, "apply")
                                  /\ call'[x].stop = watched \ call[x].arg
                                  /\ call'[x].start = call[x].arg \ watched
           /\ ConfigureApply(x) =>
                /\ GoesOn(x, "apply")
                /\ \/ \E n \in call[x].stop :
                        /\ watchers' = watchers \ {n}
                        /\ call'[x].stop = call[x].stop \ {n} /\ call'[x].start = call[x].start
                   \/ \E n \in call[x].start :
                        /\ call[x].stop = {} /\ watchers' = watchers \cup {n}
                        /\ call'[x].start = call[x].start \ {n} /\ call'[x].stop = call[x].stop
           /\ ConfigureWrite(x) => Ends(x)
           /\ AddCheck(x) => \/ Ends(x) /\ Settle(x) /\ call[x].arg \subseteq watched
                             \/ GoesOn(x, "starting") /\ UNCHANGED doubt
           /\ AddStart(x) => GoesOn(x, "insert")
           /\ AddInsert(x) => Ends(x)
           /\ RemoveTake(x) => \/ Ends(x) /\ Settle(x) /\ ~(call[x].arg \subseteq watched)
                               \/ GoesOn(x, "stopping") /\ UNCHANGED doubt
           /\ RemoveStop(x) => Ends(x)
           /\ Handle(x) => \A y \in Callers \ {x} : call'[y] = call[y]
  <1>0. call[x] \in CallType /\ call \in [Callers -> CallType]
    BY DEF TypeOK
  <1>1. ASSUME call'[x] = Over(x, "done") PROVE Ends(x)
    BY <1>1, CallShapes DEF Ends
  <1>2. ASSUME NEW s \in Running, call'[x] = [call[x] EXCEPT !.stage = s] PROVE GoesOn(x, s)
    BY <1>0, <1>2 DEF GoesOn, CallType
  <1>3. ASSUME ConfigureDiff(x)
        PROVE  /\ GoesOn(x, "apply") /\ call'[x].stop = watched \ call[x].arg
               /\ call'[x].start = call[x].arg \ watched
    <2>1. call'[x] = [call[x] EXCEPT !.stage = "apply", !.stop = watched \ call[x].arg,
                                     !.start = call[x].arg \ watched]
      BY <1>0, <1>3 DEF ConfigureDiff, Begin
    <2> QED
      BY <1>0, <2>1 DEF GoesOn, CallType
  <1>4. ASSUME ConfigureApply(x)
        PROVE  /\ GoesOn(x, "apply")
               /\ \/ \E n \in call[x].stop :
                        /\ watchers' = watchers \ {n}
                        /\ call'[x].stop = call[x].stop \ {n} /\ call'[x].start = call[x].start
                  \/ \E n \in call[x].start :
                        /\ call[x].stop = {} /\ watchers' = watchers \cup {n}
                        /\ call'[x].start = call[x].start \ {n} /\ call'[x].stop = call[x].stop
    <2>0. call[x].stage = "apply"
      BY <1>4 DEF ConfigureApply, Proceed
    <2>1. ASSUME NEW n \in call[x].stop, watchers' = watchers \ {n},
                 call' = [call EXCEPT ![x].stop = @ \ {n}]
          PROVE  /\ GoesOn(x, "apply")
                 /\ call'[x].stop = call[x].stop \ {n} /\ call'[x].start = call[x].start
      <3>1. call'[x] = [call[x] EXCEPT !.stop = call[x].stop \ {n}]
        BY <1>0, <2>1
      <3> QED
        BY <1>0, <2>0, <3>1 DEF GoesOn, CallType
    <2>2. ASSUME NEW n \in call[x].start, watchers' = watchers \cup {n},
                 call' = [call EXCEPT ![x].start = @ \ {n}]
          PROVE  /\ GoesOn(x, "apply")
                 /\ call'[x].start = call[x].start \ {n} /\ call'[x].stop = call[x].stop
      <3>1. call'[x] = [call[x] EXCEPT !.start = call[x].start \ {n}]
        BY <1>0, <2>2
      <3> QED
        BY <1>0, <2>0, <3>1 DEF GoesOn, CallType
    <2> QED
      BY <1>4, <2>1, <2>2 DEF ConfigureApply
  <1>5. ConfigureWrite(x) \/ AddInsert(x) \/ RemoveStop(x) => Ends(x)
    BY <1>0, <1>1 DEF ConfigureWrite, AddInsert, RemoveStop
  <1>6. AddCheck(x) => \/ Ends(x) /\ Settle(x) /\ call[x].arg \subseteq watched
                       \/ GoesOn(x, "starting") /\ UNCHANGED doubt
    BY <1>0, <1>1, <1>2 DEF AddCheck, Begin, Running
  <1>7. AddStart(x) => GoesOn(x, "insert")
    <2>1. AddStart(x) => call'[x] = [call[x] EXCEPT !.stage = "insert"]
      BY <1>0 DEF AddStart
    <2> QED
      BY <1>2, <2>1 DEF Running
  <1>8. RemoveTake(x) => \/ Ends(x) /\ Settle(x) /\ ~(call[x].arg \subseteq watched)
                         \/ GoesOn(x, "stopping") /\ UNCHANGED doubt
    BY <1>0, <1>1, <1>2 DEF RemoveTake, Begin, Running
  <1>9. Handle(x) => \A y \in Callers \ {x} : call'[y] = call[y]
    BY <1>0 DEF Handle, ConfigureDiff, ConfigureApply, ConfigureWrite, AddCheck, AddStart,
       AddInsert, RemoveTake, RemoveStop, Begin
  <1> QED
    BY <1>3, <1>4, <1>5, <1>6, <1>7, <1>8, <1>9

\* The steps of a handler keep Forms.
LEMMA FormsHandle ==
    ASSUME TypeOK, Forms, NEW x \in Callers, Handle(x)
    PROVE  Forms'
  <1>0. CallForm(x) /\ \A y \in Callers \ {x} : call'[y] = call[y]
    BY HandlerFields DEF Forms
  <1>1. /\ UNCHANGED <<conn, client, task, list>>
        /\ call[x].stage \in {"sent"} \cup Running /\ call[x].conn = client
    BY DEF Handle, ConfigureDiff, ConfigureApply, ConfigureWrite, AddCheck, AddStart,
       AddInsert, RemoveTake, RemoveStop, Begin, Proceed, registryVars, Running
  <1>2. ASSUME Ends(x) PROVE Forms'
    BY <1>0, <1>1, <1>2, FormsHandler DEF Ends
  <1>3. ASSUME NEW s \in Running, GoesOn(x, s), CallForm(x)' PROVE Forms'
    BY <1>0, <1>1, <1>3, FormsHandler DEF GoesOn
  <1>4. CASE ConfigureDiff(x)
    <2>1. /\ GoesOn(x, "apply") /\ call[x].op = "configure"
          /\ call'[x].stop \cap call[x].arg = {} /\ call'[x].start \subseteq call[x].arg
      BY <1>4, HandlerFields DEF ConfigureDiff
    <2>2. CallForm(x)'
      BY <1>0, <1>1, <2>1 DEF CallForm, GoesOn, Runs, Running
    <2> QED
      BY <1>3, <2>1, <2>2 DEF Running
  <1>5. CASE ConfigureApply(x)
    <2>1. /\ GoesOn(x, "apply") /\ call[x].stage = "apply"
          /\ call'[x].stop \subseteq call[x].stop /\ call'[x].start \subseteq call[x].start
      BY <1>5, HandlerFields DEF ConfigureApply, Proceed
    <2>2. CallForm(x)'
      BY <1>0, <1>1, <2>1 DEF CallForm, GoesOn, Runs, Running
    <2> QED
      BY <1>3, <2>1, <2>2 DEF Running
  <1>6. CASE ConfigureWrite(x) \/ AddInsert(x) \/ RemoveStop(x)
    BY <1>2, <1>6, HandlerFields
  <1>7. CASE AddCheck(x)
    <2>1. ASSUME GoesOn(x, "starting") PROVE CallForm(x)'
      BY <1>0, <1>1, <1>7, <2>1 DEF AddCheck, CallForm, GoesOn, Runs, Running
    <2> QED
      BY <1>2, <1>3, <1>7, <2>1, HandlerFields DEF Running
  <1>8. CASE AddStart(x)
    <2>1. GoesOn(x, "insert") /\ call[x].stage = "starting"
      BY <1>8, HandlerFields DEF AddStart, Proceed
    <2>2. CallForm(x)'
      BY <1>0, <1>1, <2>1 DEF CallForm, GoesOn, Runs, Running
    <2> QED
      BY <1>3, <2>1, <2>2 DEF Running
  <1>9. CASE RemoveTake(x)
    <2>1. ASSUME GoesOn(x, "stopping") PROVE CallForm(x)'
      BY <1>0, <1>1, <1>9, <2>1 DEF RemoveTake, CallForm, GoesOn, Runs, Running
    <2> QED
      BY <1>2, <1>3, <1>9, <2>1, HandlerFields DEF Running
  <1> QED
    BY <1>4, <1>5, <1>6, <1>7, <1>8, <1>9 DEF Handle

\* Next, by the kind of the step.
LEMMA StepKinds ==
    ASSUME Next
    PROVE  \/ \E c \in Conns : RegistryStepOf(c) \/ ListForRegistration(c) \/ ManagerClose(c)
           \/ ManagerRestart
           \/ \E t \in Tasks : TaskStepOf(t) \/ SendTask(t)
           \/ \E x \in Callers : Handle(x) \/ Answer(x) \/ CallFails(x)
  BY DEF Next, Register, Continue, RegistryStepOf, TaskStepOf

\* Every action keeps Forms.
LEMMA FormsStep == TypeOK /\ Forms /\ [Next]_vars => Forms'
  <1>1. SUFFICES ASSUME TypeOK, Forms, [Next]_vars PROVE Forms'
    OBVIOUS
  <1>2. CASE UNCHANGED vars
    BY <1>1, <1>2, FormsRegistry DEF vars
  <1>3. ASSUME NEW c \in Conns, RegistryStepOf(c) PROVE Forms'
    BY <1>1, <1>3, RegistryStepFacts, FormsRegistry
  <1>4. ASSUME NEW c \in Conns, ManagerClose(c) PROVE Forms'
    BY <1>1, <1>4, FormsAbort DEF ManagerClose, registryVars
  <1>5. CASE ManagerRestart
    BY <1>1, <1>5, FormsAbort DEF ManagerRestart, registryVars
  <1>6. CASE Next
    BY <1>1, <1>3, <1>4, <1>5, <1>6, StepKinds, FormsRegistration, FormsTaskStep, FormsSend,
       FormsReturn, FormsHandle
  <1> QED
    BY <1>1, <1>2, <1>6

\* The forms of calls and requests in every state.
LEMMA FormsInvariant == Spec => []Forms
  <1>1. Init => Forms
    <2>1. SUFFICES ASSUME Init PROVE Forms
      OBVIOUS
    <2>2. \A x \in Callers : call[x] = NoCall
      BY <2>1 DEF Init
    <2>3. \A x \in Callers : CallForm(x)
      BY <2>2, CallShapes DEF CallForm, Runs, Running
    <2>4. \A t \in Tasks : TaskForm(t)
      BY <2>1, <2>2, CallShapes, CallersFact DEF Init, TaskForm, Idle, Running
    <2>5. \A c \in Conns : ConnForm(c)
      BY <2>2, CallShapes, CallersFact DEF ConnForm
    <2> QED
      BY <2>3, <2>4, <2>5 DEF Forms
  <1> QED
    BY <1>1, FormsStep, TypeCorrect, PTL DEF Spec

----------------------------------------------------------------------------
(* What is watched, and what the watchers do.                               *)

\* Two handlers that run and share a namespace have both recorded it.
Met ==
    \A x, y \in Callers : \A n \in Namespaces :
        x # y /\ Handles(x, n) /\ Handles(y, n) => n \in torn /\ n \in crossed[x]

\* How far the handler of x has brought namespace n.
InStep(x, n) ==
    /\ call[x].stage = "apply"
          => (n \in watchers <=> \/ n \in call[x].arg /\ n \notin call[x].start
                                 \/ n \in call[x].stop)
    /\ call[x].stage = "starting" => (n \in watchers <=> n \in watched)
    /\ call[x].stage = "insert" => n \in watchers
    /\ call[x].stage = "stopping" => n \notin watched

Matches(n) ==
    /\ \A x \in Callers : Handles(x, n) => InStep(x, n)
    /\ (\A x \in Callers : ~Handles(x, n)) => (n \in watchers <=> n \in watched)

\* The inductive form of WatchersMatch.
Matched == \A n \in Namespaces \ torn : Matches(n)

\* Steps that leave alone every handler that runs keep both.
LEMMA MatchedFrame ==
    ASSUME Met, Matched, UNCHANGED <<watched, watchers, torn>>,
           \A x \in Callers : \/ call'[x] = call[x]
                              \/ ~Runs(x) /\ ~Runs(x)',
           \A x \in Callers : Runs(x) => crossed[x] \subseteq crossed'[x]
    PROVE  Met' /\ Matched'
  <1>1. \A x \in Callers : \A n \in Namespaces :
           /\ Handles(x, n)' <=> Handles(x, n)
           /\ Handles(x, n) => call'[x] = call[x]
    BY DEF Handles, Runs, Touches
  <1>2. Met'
    BY <1>1 DEF Met, Handles
  <1>3. ASSUME NEW n \in Namespaces \ torn PROVE Matches(n)'
    BY <1>1, <1>3 DEF Matched, Matches, InStep
  <1> QED
    BY <1>2, <1>3 DEF Matched

\* A closing kube-manager leaves torn what its handlers were about; a restarting
\* one watches nothing and runs nothing.
LEMMA MatchedAbort ==
    ASSUME TypeOK, Forms, Met, Matched, AbortCalls(client),
           \/ /\ UNCHANGED <<watched, watchers>>
              /\ torn' = torn \cup UNION {Touches(x) : x \in Aborted(client)}
           \/ watched' = {} /\ watchers' = {}
    PROVE  Met' /\ Matched'
  <1>1. \A x \in Callers : \A n \in Namespaces : ~Handles(x, n)'
    BY AbortFacts DEF Handles
  <1>2. Met'
    BY <1>1 DEF Met
  <1>3. ASSUME NEW n \in Namespaces, n \notin torn' PROVE n \in watchers' <=> n \in watched'
    <2>1. CASE watched' = {} /\ watchers' = {}
      BY <2>1
    <2>2. CASE /\ UNCHANGED <<watched, watchers>>
               /\ torn' = torn \cup UNION {Touches(x) : x \in Aborted(client)}
      <3>1. n \notin torn /\ \A x \in Callers : ~Handles(x, n)
        BY <1>3, <2>2, AbortFacts DEF Handles
      <3> QED
        BY <2>2, <3>1 DEF Matched, Matches
    <2> QED
      BY <2>1, <2>2
  <1>4. \A n \in Namespaces : n \notin torn' => Matches(n)'
    BY <1>1, <1>3 DEF Matches
  <1> QED
    BY <1>2, <1>4 DEF Matched

\* The first step of a handler and every further one: another namespace is left
\* alone, and its own is not in the hands of another handler.
LEMMA MatchedHandler ==
    ASSUME TypeOK, Met, Matched, NEW x \in Callers,
           \A y \in Callers \ {x} : call'[y] = call[y],
           Ends(x) \/ \E s \in Running : GoesOn(x, s),
           torn \subseteq torn', \A y \in Callers : crossed[y] \subseteq crossed'[y],
           \A n \in Namespaces \ Touches(x) :
              (n \in watched' <=> n \in watched) /\ (n \in watchers' <=> n \in watchers),
           \A y \in Callers \ {x} : \A n \in Namespaces :
              Handles(y, n) /\ n \in Touches(x)
                 => n \in torn' /\ n \in crossed'[x] /\ n \in crossed'[y],
           \A n \in Touches(x) :
              /\ n \notin torn'
              /\ Handles(x, n) => InStep(x, n)
              /\ ~Handles(x, n) => (n \in watchers <=> n \in watched)
              => IF Ends(x) THEN n \in watchers' <=> n \in watched' ELSE InStep(x, n)'
    PROVE  Met' /\ Matched'
  <1>1. /\ ~Ends(x) => Touches(x)' = Touches(x) /\ Runs(x)'
        /\ Ends(x) => ~Runs(x)'
    BY DEF GoesOn, Ends, Touches, Runs, Running
  <1>2. \A y \in Callers \ {x} : \A n \in Namespaces : Handles(y, n)' <=> Handles(y, n)
    BY DEF Handles, Runs, Touches
  <1>3. \A n \in Namespaces : Handles(x, n)' => n \in Touches(x) /\ ~Ends(x)
    BY <1>1 DEF Handles
  <1>4. Met'
    BY <1>2, <1>3 DEF Met
  <1>5. ASSUME NEW n \in Namespaces, n \notin torn' PROVE Matches(n)'
    <2>1. Matches(n)
      BY <1>5 DEF Matched
    <2>2. CASE n \notin Touches(x)
      <3>1. ~Handles(x, n) /\ ~Handles(x, n)'
        BY <1>3, <2>2 DEF Handles
      <3>2. (n \in watched' <=> n \in watched) /\ (n \in watchers' <=> n \in watchers)
        BY <2>2
      <3>3. \A y \in Callers : Handles(y, n)' <=> Handles(y, n)
        BY <1>2, <3>1
      <3>4. ASSUME NEW y \in Callers, Handles(y, n)' PROVE InStep(y, n)'
        <4>1. y # x /\ InStep(y, n) /\ call'[y] = call[y]
          BY <2>1, <3>1, <3>3, <3>4 DEF Matches
        <4> QED
          BY <3>2, <4>1 DEF InStep
      <3> QED
        BY <2>1, <3>2, <3>3, <3>4 DEF Matches
    <2>3. CASE n \in Touches(x)
      <3>1. \A y \in Callers \ {x} : ~Handles(y, n) /\ ~Handles(y, n)'
        BY <1>2, <1>5, <2>3
      <3>2. IF Ends(x) THEN n \in watchers' <=> n \in watched' ELSE InStep(x, n)'
        BY <1>5, <2>1, <2>3, <3>1 DEF Matches
      <3>3. CASE Ends(x)
        BY <1>1, <3>1, <3>2, <3>3 DEF Matches, Handles
      <3>4. CASE ~Ends(x)
        <4>1. Handles(x, n)'
          BY <1>1, <2>3, <3>4 DEF Handles
        <4> QED
          BY <3>1, <3>2, <3>4, <4>1 DEF Matches
      <3> QED
        BY <3>3, <3>4
    <2> QED
      BY <2>2, <2>3
  <1> QED
    BY <1>4, <1>5 DEF Matched

\* The steps of a handler keep both.
LEMMA MatchedHandle ==
    ASSUME TypeOK, Forms, Met, Matched, NEW x \in Callers, Handle(x)
    PROVE  Met' /\ Matched'
  <1>0. /\ CallForm(x) /\ Touches(x) \subseteq Namespaces /\ call[x].arg \subseteq Touches(x)
        /\ \A y \in Callers \ {x} : call'[y] = call[y]
        /\ call[x].arg \subseteq Namespaces
    BY HandlerFields, CallFacts, CallChange DEF Forms, Touches
  <1>done. "done" \notin Running
    BY DEF Running
  <1> DEFINE Kept == \A n \in Namespaces \ Touches(x) :
                        /\ n \in watched' <=> n \in watched
                        /\ n \in watchers' <=> n \in watchers
             Brought == \A n \in Touches(x) :
                           /\ n \notin torn'
                           /\ Handles(x, n) => InStep(x, n)
                           /\ ~Handles(x, n) => (n \in watchers <=> n \in watched)
                           => IF Ends(x) THEN n \in watchers' <=> n \in watched'
                                         ELSE InStep(x, n)'
             Moved == Ends(x) \/ \E s \in Running : GoesOn(x, s)
  <1>1. ASSUME NEW r, Begin(x, r), Kept, Brought, Moved PROVE Met' /\ Matched'
    BY <1>0, <1>1, BeginFacts, MatchedHandler
  <1>2. ASSUME NEW from \in Running, Proceed(x, from), Kept, Brought, Moved
        PROVE  Met' /\ Matched'
    <2>1. /\ torn' = torn /\ crossed' = crossed /\ Runs(x)
      BY <1>2, ProceedFacts DEF Runs
    <2>2. \A y \in Callers \ {x} : \A n \in Namespaces :
             Handles(y, n) /\ n \in Touches(x)
                => n \in torn' /\ n \in crossed'[x] /\ n \in crossed'[y]
      BY <2>1 DEF Met, Handles
    <2> QED
      BY <1>0, <1>2, <2>1, <2>2, MatchedHandler
  <1>3. ASSUME NEW s \in Running, GoesOn(x, s) PROVE Moved /\ ~Ends(x) /\ call'[x].stage = s
    BY <1>3 DEF GoesOn, Ends, Running
  <1>4. ASSUME call[x].stage = "sent" PROVE \A n \in Namespaces : ~Handles(x, n)
    BY <1>4 DEF Handles, Runs, Running
  <1>5. ASSUME call[x].stage \in Running
        PROVE  \A n \in Touches(x) : Handles(x, n)
    BY <1>5 DEF Handles, Runs
  <1>6. CASE ConfigureDiff(x)
    <2>1. /\ GoesOn(x, "apply") /\ call'[x].stop = watched \ call[x].arg
          /\ call'[x].start = call[x].arg \ watched
          /\ call[x].stage = "sent" /\ UNCHANGED <<watched, watchers>>
      BY <1>6, HandlerFields DEF ConfigureDiff, Begin
    <2>2. Moved /\ Kept
      BY <1>3, <2>1 DEF Running
    <2>3. Brought
      <3>1. SUFFICES ASSUME NEW n \in Touches(x), n \in watchers <=> n \in watched
                     PROVE  InStep(x, n)'
        BY <1>0, <1>3, <1>4, <2>1 DEF Running
      <3> QED
        BY <2>1, <3>1 DEF InStep, GoesOn
    <2> QED
      BY <1>1, <1>6, <2>2, <2>3 DEF ConfigureDiff
  <1>7. CASE ConfigureApply(x)
    <2>1. /\ GoesOn(x, "apply") /\ call[x].stage = "apply" /\ UNCHANGED watched
          /\ \/ \E n \in call[x].stop :
                   /\ watchers' = watchers \ {n}
                   /\ call'[x].stop = call[x].stop \ {n} /\ call'[x].start = call[x].start
             \/ \E n \in call[x].start :
                   /\ call[x].stop = {} /\ watchers' = watchers \cup {n}
                   /\ call'[x].start = call[x].start \ {n} /\ call'[x].stop = call[x].stop
      BY <1>7, HandlerFields DEF ConfigureApply, Proceed
    <2>2. /\ call[x].op = "configure" /\ Touches(x) = Namespaces
          /\ call[x].stop \cap call[x].arg = {} /\ call[x].start \subseteq call[x].arg
      BY <1>0, <2>1 DEF CallForm, Touches
    <2>3. Moved /\ Kept
      BY <1>3, <2>1, <2>2 DEF Running
    <2>4. Brought
      <3>1. SUFFICES ASSUME NEW n \in Touches(x), InStep(x, n)
                     PROVE  InStep(x, n)'
        BY <1>0, <1>3, <1>5, <2>1 DEF Running
      <3>2. n \in watchers <=> (n \in call[x].arg /\ n \notin call[x].start) \/ n \in call[x].stop
        BY <2>1, <3>1 DEF InStep
      <3>3. n \in watchers' <=> \/ n \in call'[x].arg /\ n \notin call'[x].start
                                \/ n \in call'[x].stop
        BY <2>1, <2>2, <3>2 DEF GoesOn
      <3> QED
        BY <2>1, <3>3 DEF InStep, GoesOn
    <2> QED
      BY <1>2, <1>7, <2>3, <2>4 DEF ConfigureApply, Running
  <1>8. CASE ConfigureWrite(x)
    <2>1. /\ Ends(x) /\ call[x].stage = "apply" /\ call[x].stop = {} /\ call[x].start = {}
          /\ watched' = call[x].arg /\ UNCHANGED watchers
      BY <1>8, HandlerFields DEF ConfigureWrite, Proceed
    <2>2. Touches(x) = Namespaces
      BY <1>0, <2>1 DEF CallForm, Touches
    <2>3. Brought
      BY <1>5, <2>1 DEF InStep, Running
    <2> QED
      BY <1>2, <1>8, <2>1, <2>2, <2>3 DEF ConfigureWrite, Running
  <1>9. CASE AddCheck(x)
    <2>1. /\ call[x].stage = "sent" /\ UNCHANGED <<watched, watchers>>
          /\ Ends(x) \/ GoesOn(x, "starting")
      BY <1>9, HandlerFields DEF AddCheck, Begin
    <2>2. Moved /\ Kept
      BY <1>3, <2>1 DEF Running
    <2>3. Brought
      BY <1>0, <1>3, <1>4, <2>1 DEF InStep, Running
    <2> QED
      BY <1>1, <1>9, <2>2, <2>3 DEF AddCheck
  <1>10. CASE AddStart(x)
    <2>1. /\ GoesOn(x, "insert") /\ call[x].stage = "starting" /\ UNCHANGED watched
          /\ watchers' = watchers \cup call[x].arg
      BY <1>10, HandlerFields DEF AddStart, Proceed
    <2>2. Touches(x) = call[x].arg
      BY <1>0, <2>1 DEF CallForm, Touches
    <2>3. Moved /\ Kept
      BY <1>3, <2>1, <2>2 DEF Running
    <2>4. Brought
      BY <1>3, <2>1, <2>2 DEF InStep, Running
    <2> QED
      BY <1>2, <1>10, <2>3, <2>4 DEF AddStart, Running
  <1>11. CASE AddInsert(x)
    <2>1. /\ Ends(x) /\ call[x].stage = "insert" /\ UNCHANGED watchers
          /\ watched' = watched \cup call[x].arg
      BY <1>11, HandlerFields DEF AddInsert, Proceed
    <2>2. Touches(x) = call[x].arg
      BY <1>0, <2>1 DEF CallForm, Touches
    <2>3. Kept
      BY <2>1, <2>2
    <2>4. Brought
      BY <1>5, <2>1, <2>2 DEF InStep, Running
    <2> QED
      BY <1>2, <1>11, <2>1, <2>3, <2>4 DEF AddInsert, Running
  <1>12. CASE RemoveTake(x)
    <2>1. /\ call[x].stage = "sent" /\ call[x].op = "remove" /\ UNCHANGED watchers
          /\ watched' = watched \ call[x].arg
          /\ \/ Ends(x) /\ ~(call[x].arg \subseteq watched)
             \/ GoesOn(x, "stopping")
      BY <1>12, HandlerFields DEF RemoveTake, Begin
    <2>2. PICK m \in Namespaces : call[x].arg = {m}
      BY <1>0, <2>1 DEF CallForm
    <2>3. Touches(x) = {m}
      BY <2>1, <2>2 DEF Touches
    <2>4. Moved /\ Kept
      BY <1>3, <2>1, <2>2, <2>3 DEF Running
    <2>5. Brought
      <3>1. CASE Ends(x)
        BY <1>0, <1>4, <2>1, <2>2, <2>3, <3>1 DEF GoesOn, Ends
      <3>2. CASE GoesOn(x, "stopping")
        BY <1>3, <2>1, <2>2, <2>3, <3>2 DEF InStep, Running
      <3> QED
        BY <2>1, <3>1, <3>2
    <2> QED
      BY <1>1, <1>12, <2>4, <2>5 DEF RemoveTake
  <1>13. CASE RemoveStop(x)
    <2>1. /\ Ends(x) /\ call[x].stage = "stopping" /\ UNCHANGED watched
          /\ watchers' = watchers \ call[x].arg
      BY <1>13, HandlerFields DEF RemoveStop, Proceed
    <2>2. Touches(x) = call[x].arg
      BY <1>0, <2>1 DEF CallForm, Touches
    <2>3. Kept
      BY <2>1, <2>2
    <2>4. Brought
      BY <1>5, <2>1, <2>2 DEF InStep, Running
    <2> QED
      BY <1>2, <1>13, <2>1, <2>3, <2>4 DEF RemoveStop, Running
  <1> QED
    BY <1>6, <1>7, <1>8, <1>9, <1>10, <1>11, <1>12, <1>13 DEF Handle

\* Every action keeps both.
LEMMA MatchedStep == TypeOK /\ Forms /\ Met /\ Matched /\ [Next]_vars => Met' /\ Matched'
  <1>1. SUFFICES ASSUME TypeOK, Forms, Met, Matched, [Next]_vars PROVE Met' /\ Matched'
    OBVIOUS
  <1>2. CASE UNCHANGED vars
    BY <1>1, <1>2, MatchedFrame DEF vars
  <1>3. ASSUME NEW c \in Conns, RegistryStepOf(c) PROVE Met' /\ Matched'
    BY <1>1, <1>3, RegistryStepFacts, MatchedFrame
  <1>4. ASSUME NEW c \in Conns, ListForRegistration(c) PROVE Met' /\ Matched'
    <2>1. /\ \A x \in Callers \ {c} : call'[x] = call[x]
          /\ call'[c] = Request("configure", c, Wanted) /\ conn[c] = "entered"
          /\ UNCHANGED <<watched, watchers, torn, crossed>>
      BY <1>1, <1>4, CallersFact DEF ListForRegistration, managerVars, TypeOK
    <2>2. call'[c].stage = "sent" /\ call[c].stage = "none"
      BY <1>1, <2>1, CallFacts, CallShapes DEF Forms, ConnForm
    <2>3. \A x \in Callers : call'[x] = call[x] \/ (~Runs(x) /\ ~Runs(x)')
      BY <2>1, <2>2 DEF Runs, Running
    <2> QED
      BY <1>1, <2>1, <2>3, MatchedFrame
  <1>5. ASSUME NEW c \in Conns, ManagerClose(c) PROVE Met' /\ Matched'
    BY <1>1, <1>5, MatchedAbort DEF ManagerClose, managerVars
  <1>6. CASE ManagerRestart
    BY <1>1, <1>6, MatchedAbort DEF ManagerRestart
  <1>7. ASSUME NEW t \in Tasks, TaskStepOf(t) PROVE Met' /\ Matched'
    <2>1. UNCHANGED <<call, watched, watchers, torn>> /\ call[t] = NoCall
      BY <1>1, <1>7, TaskStepFacts
    <2>2. ~Runs(t) /\ t \in Callers
      BY <2>1, CallShapes, CallersFact DEF Runs, Running
    <2>3. \A x \in Callers : Runs(x) => crossed[x] \subseteq crossed'[x]
      BY <1>1, <1>7, <2>2 DEF TaskStepOf, WriteEnvironment, PickServers, ListForRefresh, Cut,
         StartEnvironment, CreateCatalog, EditCatalog, Changes, Forgets, TypeOK
    <2> QED
      BY <1>1, <2>1, <2>3, MatchedFrame
  <1>8. ASSUME NEW t \in Tasks, SendTask(t) PROVE Met' /\ Matched'
    <2>1. /\ \A x \in Callers \ {t} : call'[x] = call[x]
          /\ call[t] = NoCall /\ call'[t].stage = "sent"
          /\ UNCHANGED <<watched, watchers, torn, crossed>>
      BY <1>1, <1>8, SendFacts
    <2>2. \A x \in Callers : call'[x] = call[x] \/ (~Runs(x) /\ ~Runs(x)')
      BY <2>1, CallShapes DEF Runs, Running
    <2> QED
      BY <1>1, <2>1, <2>2, MatchedFrame
  <1>9. ASSUME NEW x \in Callers, Answer(x) \/ CallFails(x) PROVE Met' /\ Matched'
    <2>1. /\ \A y \in Callers \ {x} : call'[y] = call[y] /\ crossed'[y] = crossed[y]
          /\ call[x].stage \in {"sent", "done", "lost"} /\ call'[x] = NoCall
          /\ UNCHANGED <<watched, watchers, torn>>
      BY <1>1, <1>9, ReturnFacts
    <2>2. ~Runs(x) /\ ~Runs(x)'
      BY <2>1, CallShapes DEF Runs, Running
    <2> QED
      BY <1>1, <2>1, <2>2, MatchedFrame
  <1>10. CASE Next
    BY <1>1, <1>3, <1>4, <1>5, <1>6, <1>7, <1>8, <1>9, <1>10, StepKinds, MatchedHandle
  <1> QED
    BY <1>1, <1>2, <1>10

\* The inductive invariant: how far each handler that runs has brought the
\* namespaces that no other handler is about.
LEMMA MatchedInvariant == Spec => [](Met /\ Matched)
  <1>1. Init => Met /\ Matched
    <2>1. SUFFICES ASSUME Init PROVE Met /\ Matched
      OBVIOUS
    <2>2. \A x \in Callers : \A n \in Namespaces : ~Handles(x, n)
      BY <2>1, CallShapes DEF Init, Handles, Runs, Running
    <2> QED
      BY <2>1, <2>2 DEF Init, Met, Matched, Matches
  <1> QED
    BY <1>1, MatchedStep, FormsInvariant, TypeCorrect, PTL DEF Spec

\* Whatever calls meet, connections break and managers restart: between calls, a
\* namespace on which no two calls met and none was aborted has running watchers
\* exactly if the WatchManager counts it as watched.
THEOREM WatchersInStep == Spec => []WatchersMatch
  <1>1. Matched => WatchersMatch
    BY DEF Matched, Matches, WatchersMatch, NothingRuns, Handles, Runs
  <1> QED
    BY <1>1, MatchedInvariant, PTL

----------------------------------------------------------------------------
(* What is watched, and what is wanted.                                     *)

\* What x knows about namespace n: that it is wanted, or that it is not.
Knows(x, n) ==
    IF x \in Conns THEN n \in call[x].arg
    ELSE IF task[x].stage \in {"lock", "refresh"} THEN n \in list[x]
    ELSE task[x].op # "env_remove"

\* x is yet to tell the kube-manager.
Telling(x) == x \in Tasks \/ call[x].stage \in {"sent"} \cup Running

InformedOf(x) ==
    Telling(x) => \A n \in Carries(x) \ crossed[x] : Knows(x, n) <=> n \in Wanted

\* What a caller knows is true, or has been crossed by a change.
Informed == \A x \in Callers : InformedOf(x)

\* A namespace taken from the set stays out of it, unless another call met.
Taken ==
    \A x \in Callers : call[x].stage = "stopping"
        => \A n \in call[x].arg \ crossed[x] : n \notin watched

\* The request in slot t is yet to see to n.
Pending(t, n) ==
    /\ n \in task[t].ns /\ task[t].stage \notin {"idle", "write"}
    /\ call[t].stage # "done"

\* The inductive form of WatchedIsWanted.
Arriving ==
    \A n \in Namespaces \ doubt :
        (n \in watched <=> n \in Wanted) \/ \E t \in Tasks : Pending(t, n)

\* InformedOf a caller about whom nothing changes but what crossed it.
LEMMA InformedFrame ==
    ASSUME NEW x \in Callers, InformedOf(x), crossed[x] \subseteq crossed'[x],
           x \in Conns => (conn'[x] = "waiting" <=> conn[x] = "waiting"),
           x \in Conns => (Telling(x)' => Telling(x) /\ call'[x].arg = call[x].arg),
           x \in Tasks => list'[x] = list[x] /\ task'[x].stage = task[x].stage
                          /\ task'[x].op = task[x].op /\ task'[x].ns = task[x].ns,
           \A n \in Carries(x) \ crossed'[x] : n \in Wanted' <=> n \in Wanted
    PROVE  InformedOf(x)'
  <1>1. CASE x \in Conns
    <2>1. Carries(x)' = Carries(x)
      BY <1>1 DEF Carries
    <2>2. Telling(x)' => \A n : Knows(x, n)' <=> Knows(x, n)
      BY <1>1 DEF Knows
    <2> QED
      BY <1>1, <2>1, <2>2 DEF InformedOf
  <1>2. CASE x \notin Conns
    <2>1. x \in Tasks
      BY <1>2, CallersFact
    <2>2. Carries(x)' = Carries(x) /\ \A n : Knows(x, n)' <=> Knows(x, n)
      BY <1>2, <2>1 DEF Carries, Knows
    <2> QED
      BY <2>1, <2>2 DEF InformedOf, Telling
  <1> QED
    BY <1>1, <1>2

\* What a call that has begun, or is about to, tells the kube-manager.
LEMMA Told ==
    ASSUME TypeOK, Forms, Informed, NEW x \in Callers,
           call[x].stage \in {"sent"} \cup Running, NEW n \in Touches(x) \ crossed[x]
    PROVE  /\ call[x].op = "configure" => (n \in call[x].arg <=> n \in Wanted)
           /\ call[x].op = "add" => n \in Wanted
           /\ call[x].op = "remove" => n \notin Wanted
  <1>0. CallForm(x) /\ InformedOf(x) /\ n \in Namespaces
    BY CallFacts DEF Forms, Informed
  <1>1. CASE x \in Conns
    <2>1. conn[x] = "waiting" /\ call[x].op = "configure"
      BY <1>0, <1>1 DEF Forms, ConnForm, CallForm, Running
    <2> QED
      BY <1>0, <1>1, <2>1 DEF InformedOf, Telling, Carries, Knows
  <1>2. CASE x \notin Conns
    <2>1. x \in Tasks /\ TaskForm(x)
      BY <1>2, CallersFact DEF Forms
    <2>2. task[x].stage \in {"send", "refresh"}
      BY <2>1, CallShapes DEF TaskForm, Running
    <2>3. CASE call[x].op = "configure"
      BY <1>0, <1>2, <2>1, <2>3 DEF InformedOf, Telling, Carries, Knows, TaskForm
    <2>4. CASE call[x].op # "configure"
      <3>1. /\ task[x].stage = "send" /\ n \in task[x].ns
            /\ call[x].op = "remove" <=> task[x].op = "env_remove"
        BY <2>1, <2>2, <2>4 DEF TaskForm, Touches
      <3> QED
        BY <1>0, <1>2, <2>1, <2>4, <3>1 DEF InformedOf, Telling, Carries, Knows
    <2> QED
      BY <2>3, <2>4
  <1> QED
    BY <1>1, <1>2

\* Steps that change neither what is watched nor what is wanted, nor what any
\* call or request is about, keep all three.
LEMMA WantedFrame ==
    ASSUME Informed, Taken, Arriving,
           UNCHANGED <<watched, catalogs, envs, task, list, crossed>>,
           doubt \subseteq doubt',
           \A c \in Conns : conn'[c] = "waiting" <=> conn[c] = "waiting",
           \A x \in Callers : \/ call'[x] = call[x]
                              \/ Runs(x) /\ call'[x].stage = "lost"
    PROVE  Informed' /\ Taken' /\ Arriving'
  <1>1. ASSUME NEW x \in Callers PROVE InformedOf(x)'
    <2>1. Telling(x)' /\ x \in Conns => Telling(x) /\ call'[x].arg = call[x].arg
      BY CallersFact DEF Telling, Running
    <2> QED
      BY <2>1, InformedFrame DEF Informed, Wanted
  <1>2. Taken'
    BY DEF Taken
  <1>3. \A t \in Tasks : \A n \in Namespaces : Pending(t, n) => Pending(t, n)'
    BY CallersFact DEF Pending
  <1>4. Arriving'
    BY <1>3 DEF Arriving, Wanted
  <1> QED
    BY <1>1, <1>2, <1>4 DEF Informed

\* The kube-manager closes or restarts: what the database wants is in doubt where
\* the kube-manager has forgotten it.
LEMMA WantedAbort ==
    ASSUME TypeOK, Forms, Informed, Taken, Arriving, ManagerRestart \/ ManagerClose(client)
    PROVE  Informed' /\ Taken' /\ Arriving'
  <1>1. /\ AbortCalls(client) /\ UNCHANGED <<catalogs, envs, conn, task, list, crossed>>
    BY DEF ManagerRestart, ManagerClose, dbVars, registryVars
  <1>2. \A x \in Callers : call'[x] = call[x] \/ (Runs(x) /\ call'[x].stage = "lost")
    BY <1>1, AbortFacts
  <1>3. CASE ManagerClose(client)
    BY <1>1, <1>2, <1>3, WantedFrame DEF ManagerClose, managerVars
  <1>4. CASE ManagerRestart
    <2>1. watched' = {} /\ doubt' = doubt \cup Wanted
      BY <1>4 DEF ManagerRestart
    <2>2. ASSUME NEW x \in Callers PROVE InformedOf(x)'
      <3>1. Telling(x)' /\ x \in Conns => Telling(x) /\ call'[x].arg = call[x].arg
        BY <1>2, CallersFact DEF Telling, Running
      <3> QED
        BY <1>1, <3>1, InformedFrame DEF Informed, Wanted
    <2>3. Taken'
      BY <2>1 DEF Taken
    <2>4. Arriving'
      BY <1>1, <2>1 DEF Arriving, Wanted
    <2> QED
      BY <2>2, <2>3, <2>4 DEF Informed
  <1> QED
    BY <1>3, <1>4

\* A registration reads what is wanted.
LEMMA WantedRegistration ==
    ASSUME TypeOK, Forms, Informed, Taken, Arriving, NEW c \in Conns, ListForRegistration(c)
    PROVE  Informed' /\ Taken' /\ Arriving'
  <1>1. /\ \A x \in Callers \ {c} : call'[x] = call[x]
        /\ call'[c] = Request("configure", c, Wanted)
        /\ conn'[c] = "waiting" /\ \A d \in Conns \ {c} : conn'[d] = conn[d]
        /\ UNCHANGED <<task, list, crossed, doubt, catalogs, envs, watched>>
        /\ c \notin Tasks
    BY CallersFact DEF ListForRegistration, dbVars, managerVars, TypeOK
  <1>2. call'[c].arg = Wanted /\ call'[c].stage = "sent" /\ Wanted' = Wanted
    BY <1>1, CallFacts, CallShapes DEF Wanted
  <1>3. ASSUME NEW x \in Callers PROVE InformedOf(x)'
    <2>1. CASE x = c
      BY <1>2, <2>1 DEF InformedOf, Knows
    <2>2. CASE x # c
      <3>1. Telling(x)' => Telling(x)
        BY <1>1, <2>2 DEF Telling
      <3> QED
        BY <1>1, <1>2, <2>2, <3>1, InformedFrame DEF Informed
    <2> QED
      BY <2>1, <2>2
  <1>4. Taken'
    BY <1>1, <1>2 DEF Taken
  <1>5. \A t \in Tasks : \A n \in Namespaces : Pending(t, n) => Pending(t, n)'
    BY <1>1, CallersFact DEF Pending
  <1>6. Arriving'
    BY <1>1, <1>2, <1>5 DEF Arriving
  <1> QED
    BY <1>3, <1>4, <1>6 DEF Informed

\* A step of a request between its calls: whoever knows of a namespace it changes
\* is crossed, and the request itself sees to it from now on.
LEMMA WantedTask ==
    ASSUME TypeOK, Forms, Informed, Taken, Arriving, NEW t \in Tasks, TaskStepOf(t),
           \A x \in Callers \ {t} : crossed[x] \subseteq crossed'[x],
           \A x \in Callers \ {t} : \A n \in Carries(x) \ crossed'[x] :
              n \in Wanted' <=> n \in Wanted,
           \A n \in Carries(t)' \ crossed'[t] : Knows(t, n)' <=> n \in Wanted',
           doubt \subseteq doubt',
           \A n \in Namespaces : (n \in Wanted' <=> n \in Wanted) \/ Pending(t, n)',
           \A n \in Namespaces : Pending(t, n) => Pending(t, n)' \/ n \in doubt'
    PROVE  Informed' /\ Taken' /\ Arriving'
  <1>1. /\ UNCHANGED <<conn, call, watched>> /\ call[t] = NoCall
        /\ \A s \in Tasks \ {t} : task'[s] = task[s] /\ list'[s] = list[s]
    BY TaskStepFacts
  <1>2. ASSUME NEW x \in Callers PROVE InformedOf(x)'
    <2>1. CASE x = t
      BY <2>1 DEF InformedOf
    <2>2. CASE x # t
      BY <1>1, <2>2, InformedFrame DEF Informed, Telling
    <2> QED
      BY <2>1, <2>2
  <1>3. Taken'
    BY <1>1, CallShapes DEF Taken
  <1>4. \A s \in Tasks \ {t} : \A n \in Namespaces : Pending(s, n) => Pending(s, n)'
    BY <1>1 DEF Pending
  <1>5. Arriving'
    BY <1>1, <1>4 DEF Arriving
  <1> QED
    BY <1>2, <1>3, <1>5 DEF Informed

\* The steps of a request between its calls keep all three.
LEMMA WantedTaskStep ==
    ASSUME TypeInv, Forms, Informed, Taken, Arriving, NEW t \in Tasks, TaskStepOf(t)
    PROVE  Informed' /\ Taken' /\ Arriving'
  <1> USE DEF dbVars
  <1>0. /\ TypeOK /\ TaskForm(t) /\ t \in Callers /\ t \notin Conns /\ InformedOf(t)
        /\ call'[t] = NoCall
    BY TaskStepFacts, CallersFact DEF TypeInv, Forms, Informed
  <1>nocall. NoCall.stage # "done"
    BY CallShapes
  <1> DEFINE Others == /\ \A x \in Callers \ {t} : crossed[x] \subseteq crossed'[x]
                       /\ \A x \in Callers \ {t} : \A n \in Carries(x) \ crossed'[x] :
                             n \in Wanted' <=> n \in Wanted
             Self == \A n \in Carries(t)' \ crossed'[t] : Knows(t, n)' <=> n \in Wanted'
             Sees == /\ doubt \subseteq doubt'
                     /\ \A n \in Namespaces : (n \in Wanted' <=> n \in Wanted) \/ Pending(t, n)'
                     /\ \A n \in Namespaces : Pending(t, n) => Pending(t, n)' \/ n \in doubt'
  <1>1. SUFFICES Others /\ Self /\ Sees
    BY <1>0, WantedTask
  <1>2. ASSUME NEW N \in SUBSET Namespaces, Changes(N),
               \A n \in Namespaces \ N : n \in Wanted' <=> n \in Wanted
        PROVE  Others
    <2>1. \A x \in Callers : Carries(x) \subseteq Namespaces
      BY <1>0, CallersFact DEF Carries, TypeOK
    <2>2. \A x \in Callers : crossed'[x] = crossed[x] \cup (N \cap Carries(x))
      BY <1>2 DEF Changes
    <2> QED
      BY <1>2, <2>1, <2>2
  <1>3. ASSUME UNCHANGED <<catalogs, envs>>, Forgets(t) \/ UNCHANGED crossed PROVE Others
    BY <1>0, <1>3 DEF Forgets, Wanted, TypeOK
  <1>4. ASSUME task'[t].stage \in {"idle", "write", "list"} PROVE Self
    BY <1>0, <1>4 DEF Carries
  <1>5. ASSUME UNCHANGED <<catalogs, envs>>, task' = [task EXCEPT ![t] = Idle],
               doubt' = doubt \cup task[t].ns, Forgets(t)
        PROVE  Others /\ Self /\ Sees
    <2>1. task'[t].stage = "idle"
      BY <1>0, <1>5 DEF TypeOK, Idle
    <2>2. Sees
      BY <1>5 DEF Pending, Wanted
    <2> QED
      BY <1>3, <1>4, <1>5, <2>1, <2>2
  <1>6. ASSUME UNCHANGED <<catalogs, envs, crossed, doubt>>, task'[t].ns = task[t].ns,
               task'[t].stage \notin {"idle", "write"}
        PROVE  Others /\ Sees
    <2>1. \A n \in Namespaces : Pending(t, n) => Pending(t, n)'
      BY <1>0, <1>6, <1>nocall DEF Pending
    <2> QED
      BY <1>3, <1>6, <2>1 DEF Wanted
  <1>7. CASE WriteEnvironment(t)
    <2>1. /\ task[t].stage = "write" /\ task[t].ns \subseteq EnvNamespaces
          /\ task[t].op \in {"env_add", "env_remove"}
          /\ task'[t].stage = "send" /\ task'[t].ns = task[t].ns /\ task'[t].op = task[t].op
          /\ envs' = IF task[t].op = "env_add" THEN envs \cup task[t].ns
                                               ELSE envs \ task[t].ns
          /\ UNCHANGED <<catalogs, doubt>>
      BY <1>0, <1>7 DEF WriteEnvironment, TypeInv, TypeOK, TaskForm
    <2>2. \A n \in Namespaces \ task[t].ns : n \in Wanted' <=> n \in Wanted
      BY <2>1 DEF Wanted
    <2>3. Others
      BY <1>0, <1>2, <1>7, <2>2 DEF WriteEnvironment, TypeOK
    <2>4. \A n \in task[t].ns : n \notin catalogs
      BY <1>0, <2>1, NamespacesDisjoint DEF TypeOK
    <2>5. Self
      BY <1>0, <2>1, <2>4 DEF Carries, Knows, Wanted
    <2>6. \A n \in task[t].ns : Pending(t, n)'
      BY <1>0, <1>nocall, <2>1 DEF Pending
    <2>7. \A n \in Namespaces : ~Pending(t, n)
      BY <2>1 DEF Pending
    <2> QED
      BY <2>1, <2>2, <2>3, <2>5, <2>6, <2>7
  <1>8. CASE PickServers(t)
    <2>1. CASE servers = {}
      BY <1>5, <1>8, <2>1 DEF PickServers
    <2>2. CASE servers # {}
      <3>1. /\ task[t].stage = "pick" /\ task'[t].stage = "send"
            /\ task'[t].ns = task[t].ns /\ task'[t].op = task[t].op
            /\ UNCHANGED <<catalogs, envs, crossed, doubt>>
        BY <1>0, <1>8, <2>2 DEF PickServers, TypeOK
      <3>2. Self
        BY <1>0, <3>1 DEF InformedOf, Telling, Carries, Knows, Wanted
      <3> QED
        BY <1>6, <3>1, <3>2
    <2> QED
      BY <2>1, <2>2
  <1>9. CASE ListForRefresh(t)
    <2>1. UNCHANGED <<catalogs, envs>>
      BY <1>9 DEF ListForRefresh
    <2>2. CASE task[t].stage = "list"
      <3>1. /\ task'[t].stage = "lock" /\ task'[t].ns = task[t].ns /\ list'[t] = Wanted
            /\ UNCHANGED <<crossed, doubt>>
        BY <1>0, <1>9, <2>2 DEF ListForRefresh, TypeOK
      <3>2. Self
        BY <1>0, <2>1, <3>1 DEF Knows, Wanted
      <3> QED
        BY <1>6, <2>1, <3>1, <3>2
    <2>3. CASE task[t].stage = "lock" /\ servers = {}
      BY <1>5, <1>9, <2>1, <2>3 DEF ListForRefresh
    <2>4. CASE task[t].stage = "lock" /\ servers # {}
      <3>1. /\ task'[t].stage = "refresh" /\ task'[t].ns = task[t].ns
            /\ UNCHANGED <<list, crossed, doubt>>
        BY <1>0, <1>9, <2>4 DEF ListForRefresh, TypeOK
      <3>2. Self
        BY <1>0, <2>1, <2>4, <3>1 DEF InformedOf, Telling, Carries, Knows, Wanted
      <3> QED
        BY <1>6, <2>1, <3>1, <3>2
    <2> QED
      BY <1>9, <2>2, <2>3, <2>4 DEF ListForRefresh
  <1>10. CASE Cut(t)
    BY <1>5, <1>10 DEF Cut
  <1>11. ASSUME NEW n \in EnvNamespaces, NEW op \in {"env_add", "env_remove"},
                StartEnvironment(t, n, op)
         PROVE  Others /\ Self /\ Sees
    <2>1. /\ task[t].stage = "idle" /\ task'[t].stage = "write"
          /\ UNCHANGED <<catalogs, envs, crossed, doubt>>
      BY <1>0, <1>11 DEF StartEnvironment, Free, Idle, TypeOK
    <2>2. Sees
      BY <2>1 DEF Pending, Wanted
    <2> QED
      BY <1>3, <1>4, <2>1, <2>2
  <1>12. ASSUME NEW n \in CatalogNamespaces, CreateCatalog(t, n) \/ EditCatalog(t, n)
         PROVE  Others /\ Self /\ Sees
    <2>1. /\ task[t].stage = "idle" /\ Changes({n}) /\ UNCHANGED <<envs, doubt>>
          /\ task'[t].ns = {n}
          /\ \/ /\ task'[t].stage = "pick" /\ task'[t].op = "cat_add"
                /\ catalogs' = catalogs \cup {n}
             \/ /\ task'[t].stage = "list"
                /\ catalogs' = IF n \in catalogs THEN catalogs \ {n} ELSE catalogs \cup {n}
      BY <1>0, <1>12 DEF CreateCatalog, EditCatalog, Free, Idle, TypeOK
    <2>2. \A m \in Namespaces \ {n} : m \in Wanted' <=> m \in Wanted
      BY <2>1 DEF Wanted
    <2>3. Others
      BY <1>2, <2>1, <2>2 DEF Namespaces
    <2>4. Self
      BY <1>0, <2>1 DEF Carries, Knows, Wanted
    <2>5. Sees
      BY <1>0, <1>nocall, <2>1, <2>2 DEF Pending
    <2> QED
      BY <2>3, <2>4, <2>5
  <1> QED
    BY <1>7, <1>8, <1>9, <1>10, <1>11, <1>12 DEF TaskStepOf

\* Sending a call keeps all three.
LEMMA WantedSend ==
    ASSUME TypeOK, Forms, Informed, Taken, Arriving, NEW t \in Tasks, SendTask(t)
    PROVE  Informed' /\ Taken' /\ Arriving'
  <1>0. t \in Callers /\ t \notin Conns
    BY CallersFact
  <1>1. ASSUME NEW x \in Callers PROVE InformedOf(x)'
    <2>1. x \in Conns => call'[x] = call[x] /\ x # t
      BY <1>0, SendFacts
    <2>2. x \in Conns => (Telling(x)' => Telling(x) /\ call'[x].arg = call[x].arg)
      BY <2>1, CallersFact DEF Telling
    <2>3. x \in Tasks => /\ list'[x] = list[x] /\ task'[x].stage = task[x].stage
                         /\ task'[x].op = task[x].op /\ task'[x].ns = task[x].ns
      BY SendFacts
    <2>4. Wanted' = Wanted /\ crossed' = crossed /\ conn' = conn
      BY SendFacts DEF Wanted
    <2> QED
      BY <2>2, <2>3, <2>4, InformedFrame DEF Informed
  <1>2. Taken'
    BY SendFacts DEF Taken
  <1>3. \A s \in Tasks : \A n \in Namespaces : Pending(s, n) => Pending(s, n)'
    <2>1. \A s \in Tasks : /\ task'[s].ns = task[s].ns /\ task'[s].stage = task[s].stage
                           /\ call'[s] = call[s] \/ call'[s].stage = "sent"
      BY SendFacts, CallersFact
    <2> QED
      BY <2>1 DEF Pending
  <1>4. Arriving'
    BY <1>3, SendFacts DEF Arriving, Wanted
  <1> QED
    BY <1>1, <1>2, <1>4 DEF Informed

\* Taking an answer or a failure keeps all three: a call that may not have arrived
\* leaves its namespace in doubt.
LEMMA WantedReturn ==
    ASSUME TypeOK, Forms, Informed, Taken, Arriving, NEW x \in Callers,
           Answer(x) \/ CallFails(x)
    PROVE  Informed' /\ Taken' /\ Arriving'
  <1>0. Wanted' = Wanted /\ watched' = watched /\ "none" \notin {"sent"} \cup Running
    BY ReturnFacts DEF Wanted, Running
  <1>1. ASSUME NEW y \in Callers PROVE InformedOf(y)'
    <2>1. CASE y = x /\ x \in Conns
      BY <2>1, ReturnFacts DEF InformedOf, Carries
    <2>2. CASE y = x /\ x \notin Conns
      <3>1. x \in Tasks
        BY <2>2, CallersFact
      <3>2. CASE task'[x] = Idle
        BY <2>2, <3>1, <3>2 DEF InformedOf, Carries, Idle
      <3>3. CASE task'[x] = task[x] /\ list'[x] = list[x] /\ crossed' = crossed
        BY <1>0, <2>2, <3>1, <3>3, InformedFrame DEF Informed
      <3> QED
        BY <3>1, <3>2, <3>3, ReturnFacts
    <2>3. CASE y # x
      <3>1. /\ crossed'[y] = crossed[y] /\ call'[y] = call[y]
            /\ y \in Conns => conn'[y] = conn[y]
            /\ y \in Tasks => task'[y] = task[y] /\ list'[y] = list[y]
        BY <2>3, ReturnFacts
      <3>2. Telling(y)' => Telling(y)
        BY <3>1 DEF Telling
      <3> QED
        BY <1>0, <3>1, <3>2, InformedFrame DEF Informed
    <2> QED
      BY <2>1, <2>2, <2>3
  <1>2. Taken'
    BY <1>0, ReturnFacts, CallShapes DEF Taken
  <1>3. \A s \in Tasks \ {x} : \A n \in Namespaces : Pending(s, n) => Pending(s, n)'
    BY ReturnFacts, CallersFact DEF Pending
  <1>4. /\ doubt \subseteq doubt'
        /\ x \in Tasks => \A n \in Namespaces : Pending(x, n) => n \in doubt'
    BY DEF Answer, CallFails, Pending
  <1>5. Arriving'
    BY <1>0, <1>3, <1>4 DEF Arriving
  <1> QED
    BY <1>1, <1>2, <1>5 DEF Informed

\* The steps of a handler keep all three, given that what it changes of a
\* namespace is what it was told.
LEMMA WantedHandler ==
    ASSUME TypeOK, Forms, Met, Informed, Taken, Arriving, NEW x \in Callers,
           UNCHANGED <<conn, task, list, catalogs, envs>>,
           call[x].stage \in {"sent"} \cup Running,
           \A y \in Callers \ {x} : call'[y] = call[y],
           \A y \in Callers : crossed[y] \subseteq crossed'[y],
           \/ /\ Ends(x) /\ Settle(x)
              /\ \A n \in Touches(x) \ crossed'[x] : n \in watched' <=> n \in Wanted
           \/ \E s \in Running : GoesOn(x, s) /\ UNCHANGED doubt,
           \A n \in Namespaces \ Touches(x) : n \in watched' <=> n \in watched,
           \/ watched' \subseteq watched
           \/ Runs(x),
           \/ Ends(x)
           \/ watched' = watched
           \/ call[x].op = "remove",
           call'[x].stage = "stopping" => watched' \cap call'[x].arg = {}
    PROVE  Informed' /\ Taken' /\ Arriving'
  <1>0. CallForm(x) /\ Touches(x) \subseteq Namespaces /\ Wanted' = Wanted
    BY CallFacts DEF Forms, Wanted
  <1>1. \/ Ends(x) /\ call'[x].stage = "done"
        \/ ~Ends(x) /\ call'[x].stage \in Running /\ call'[x].arg = call[x].arg
    BY DEF Ends, GoesOn, Running
  <1>2. ASSUME NEW y \in Callers PROVE InformedOf(y)'
    <2>1. y \in Conns => (Telling(y)' => Telling(y) /\ call'[y].arg = call[y].arg)
      BY <1>1, CallersFact DEF Telling, Running
    <2> QED
      BY <1>0, <2>1, InformedFrame DEF Informed
  <1>3. Taken'
    <2>1. SUFFICES ASSUME NEW y \in Callers, call'[y].stage = "stopping",
                          NEW n \in call'[y].arg, n \notin crossed'[y], n \in watched'
                   PROVE  FALSE
      BY DEF Taken
    <2>2. y # x
      BY <2>1
    <2>3. call[y].stage = "stopping" /\ n \in call[y].arg /\ n \notin crossed[y]
      BY <2>1, <2>2
    <2>4. n \notin watched /\ n \in Namespaces /\ Handles(y, n)
      <3>1. call[y].op = "remove" /\ call[y].arg \subseteq Namespaces
        BY <2>3, CallChange DEF Forms, CallForm
      <3> QED
        BY <2>3, <3>1 DEF Taken, Handles, Runs, Touches, Running
    <2>5. Handles(x, n)
      BY <2>1, <2>4 DEF Handles
    <2> QED
      BY <2>2, <2>3, <2>4, <2>5 DEF Met
  <1>4. \A t \in Tasks \ {x} : \A n \in Namespaces : Pending(t, n) => Pending(t, n)'
    BY CallersFact DEF Pending
  <1>5. Arriving'
    <2>1. SUFFICES ASSUME NEW n \in Namespaces, n \notin doubt', ~(n \in watched' <=> n \in Wanted)
                   PROVE  \E t \in Tasks : Pending(t, n)'
      BY <1>0 DEF Arriving
    <2>2. CASE Ends(x)
      <3>1. /\ doubt' = (doubt \ Touches(x)) \cup (Touches(x) \cap crossed'[x])
            /\ \A m \in Touches(x) \ crossed'[x] : m \in watched' <=> m \in Wanted
        BY <1>1, <2>2 DEF Settle, GoesOn, Running
      <3>2. n \notin Touches(x) /\ n \notin doubt
        BY <2>1, <3>1
      <3>3. PICK t \in Tasks : Pending(t, n)
        BY <2>1, <3>2 DEF Arriving
      <3>4. t # x
        <4>1. SUFFICES ASSUME t = x PROVE FALSE
          OBVIOUS
        <4>2. TaskForm(x) /\ n \in task[x].ns
          BY <3>3, <4>1 DEF Forms, Pending
        <4>3. n \in Touches(x)
          BY <4>2 DEF TaskForm, Touches
        <4> QED
          BY <3>2, <4>3
      <3> QED
        BY <1>4, <3>3, <3>4
    <2>3. CASE ~Ends(x)
      <3>1. n \notin doubt /\ call'[x].stage \in Running
        BY <1>1, <2>1, <2>3
      <3>2. x \in Tasks => (Pending(x, n) => Pending(x, n)')
        BY <3>1 DEF Pending, Running
      <3>3. CASE n \in watched' <=> n \in watched
        BY <1>4, <2>1, <3>1, <3>2, <3>3 DEF Arriving
      <3>4. CASE ~(n \in watched' <=> n \in watched)
        <4>1. call[x].op = "remove" /\ n \in Touches(x)
          BY <2>1, <2>3, <3>4
        <4>2. x \in Tasks /\ TaskForm(x)
          <5>1. x \in Conns => call[x].op \in {"none", "configure"}
            BY DEF Forms, ConnForm, Running
          <5> QED
            BY <4>1, <5>1, CallersFact DEF Forms
        <4>3. n \in task[x].ns /\ task[x].stage \in {"send", "refresh"}
          BY <4>1, <4>2, CallShapes DEF TaskForm, Touches, Running
        <4>4. Pending(x, n)'
          BY <3>1, <4>3 DEF Pending, Running
        <4> QED
          BY <4>2, <4>4
      <3> QED
        BY <3>3, <3>4
    <2> QED
      BY <2>2, <2>3
  <1> QED
    BY <1>2, <1>3, <1>5 DEF Informed

\* The steps of a handler keep all three.
LEMMA WantedHandle ==
    ASSUME TypeOK, Forms, Met, Informed, Taken, Arriving, NEW x \in Callers, Handle(x)
    PROVE  Informed' /\ Taken' /\ Arriving'
  <1>0. /\ CallForm(x) /\ Touches(x) \subseteq Namespaces /\ call[x].arg \subseteq Touches(x)
        /\ \A y \in Callers \ {x} : call'[y] = call[y]
    BY HandlerFields, CallFacts, CallChange DEF Forms, Touches
  <1>1. ASSUME NEW r, Begin(x, r)
        PROVE  /\ UNCHANGED <<conn, task, list, catalogs, envs>> /\ call[x].stage = "sent"
               /\ \A y \in Callers : crossed[y] \subseteq crossed'[y]
    BY <1>1, BeginFacts
  <1>2. ASSUME NEW from \in Running, Proceed(x, from)
        PROVE  /\ UNCHANGED <<conn, task, list, catalogs, envs, crossed>> /\ Runs(x)
               /\ call[x].stage = from
    BY <1>2, ProceedFacts DEF Runs
  <1> DEFINE Told1 == \A n \in Touches(x) \ crossed'[x] : n \in watched' <=> n \in Wanted
  <1>3. ASSUME NEW s \in Running, GoesOn(x, s)
        PROVE  /\ \E q \in Running : GoesOn(x, q)
               /\ call'[x].stage = s /\ call'[x].arg = call[x].arg
    BY <1>3 DEF GoesOn
  <1>4. CASE ConfigureDiff(x)
    <2>1. /\ GoesOn(x, "apply") /\ UNCHANGED <<watched, doubt>>
          /\ UNCHANGED <<conn, task, list, catalogs, envs>> /\ call[x].stage = "sent"
          /\ \A y \in Callers : crossed[y] \subseteq crossed'[y]
      BY <1>1, <1>4, HandlerFields DEF ConfigureDiff
    <2>2. call'[x].stage # "stopping" /\ \E q \in Running : GoesOn(x, q)
      BY <1>3, <2>1 DEF Running
    <2> QED
      BY <1>0, <2>1, <2>2, WantedHandler
  <1>5. CASE ConfigureApply(x)
    <2>1. /\ GoesOn(x, "apply") /\ UNCHANGED <<watched, doubt>>
          /\ UNCHANGED <<conn, task, list, catalogs, envs, crossed>> /\ Runs(x)
      BY <1>2, <1>5, HandlerFields DEF ConfigureApply, Running
    <2>2. call'[x].stage # "stopping" /\ \E q \in Running : GoesOn(x, q)
      BY <1>3, <2>1 DEF Running
    <2> QED
      BY <1>0, <2>1, <2>2, WantedHandler DEF Runs
  <1>6. CASE ConfigureWrite(x)
    <2>1. /\ Ends(x) /\ Settle(x) /\ watched' = call[x].arg /\ call[x].stage = "apply"
          /\ UNCHANGED <<conn, task, list, catalogs, envs, crossed>> /\ Runs(x)
      BY <1>2, <1>6, HandlerFields DEF ConfigureWrite, Running
    <2>2. call[x].op = "configure" /\ Touches(x) = Namespaces
      BY <1>0, <2>1 DEF CallForm, Touches
    <2>3. Told1
      BY <2>1, <2>2, Told DEF Runs
    <2>4. call'[x].stage # "stopping"
      BY <2>1 DEF Ends
    <2> QED
      BY <1>0, <2>1, <2>2, <2>3, <2>4, WantedHandler DEF Runs
  <1>7. CASE AddCheck(x)
    <2>1. /\ UNCHANGED <<conn, task, list, catalogs, envs, watched>> /\ call[x].stage = "sent"
          /\ \A y \in Callers : crossed[y] \subseteq crossed'[y]
          /\ call[x].op = "add"
          /\ \/ Ends(x) /\ Settle(x) /\ call[x].arg \subseteq watched
             \/ GoesOn(x, "starting") /\ UNCHANGED doubt
      BY <1>1, <1>7, HandlerFields DEF AddCheck
    <2>2. Touches(x) = call[x].arg
      BY <2>1 DEF Touches
    <2>3. CASE Ends(x) /\ Settle(x) /\ call[x].arg \subseteq watched
      <3>1. \A n \in Touches(x) \ crossed[x] : n \in Wanted
        BY <2>1, Told
      <3>2. Told1
        BY <2>1, <2>2, <2>3, <3>1
      <3>3. call'[x].stage # "stopping"
        BY <2>3 DEF Ends
      <3> QED
        BY <1>0, <2>1, <2>3, <3>2, <3>3, WantedHandler
    <2>4. CASE GoesOn(x, "starting") /\ UNCHANGED doubt
      <3>1. call'[x].stage # "stopping" /\ \E q \in Running : GoesOn(x, q)
        BY <1>3, <2>4 DEF Running
      <3> QED
        BY <1>0, <2>1, <2>4, <3>1, WantedHandler
    <2> QED
      BY <2>1, <2>3, <2>4
  <1>8. CASE AddStart(x)
    <2>1. /\ GoesOn(x, "insert") /\ UNCHANGED <<watched, doubt>>
          /\ UNCHANGED <<conn, task, list, catalogs, envs, crossed>> /\ Runs(x)
      BY <1>2, <1>8, HandlerFields DEF AddStart, Running
    <2>2. call'[x].stage # "stopping" /\ \E q \in Running : GoesOn(x, q)
      BY <1>3, <2>1 DEF Running
    <2> QED
      BY <1>0, <2>1, <2>2, WantedHandler DEF Runs
  <1>9. CASE AddInsert(x)
    <2>1. /\ Ends(x) /\ Settle(x) /\ watched' = watched \cup call[x].arg
          /\ call[x].stage = "insert"
          /\ UNCHANGED <<conn, task, list, catalogs, envs, crossed>> /\ Runs(x)
      BY <1>2, <1>9, HandlerFields DEF AddInsert, Running
    <2>2. call[x].op = "add" /\ Touches(x) = call[x].arg
      BY <1>0, <2>1 DEF CallForm, Touches
    <2>3. \A n \in Touches(x) \ crossed[x] : n \in Wanted
      BY <2>1, <2>2, Told DEF Runs
    <2>4. Told1
      BY <2>1, <2>2, <2>3
    <2>5. call'[x].stage # "stopping"
      BY <2>1 DEF Ends
    <2> QED
      BY <1>0, <2>1, <2>2, <2>4, <2>5, WantedHandler DEF Runs
  <1>10. CASE RemoveTake(x)
    <2>1. /\ UNCHANGED <<conn, task, list, catalogs, envs>> /\ call[x].stage = "sent"
          /\ \A y \in Callers : crossed[y] \subseteq crossed'[y]
          /\ call[x].op = "remove" /\ watched' = watched \ call[x].arg
          /\ \/ Ends(x) /\ Settle(x)
             \/ GoesOn(x, "stopping") /\ UNCHANGED doubt
      BY <1>1, <1>10, HandlerFields DEF RemoveTake
    <2>2. Touches(x) = call[x].arg
      BY <2>1 DEF Touches
    <2>3. CASE Ends(x) /\ Settle(x)
      <3>1. \A n \in Touches(x) \ crossed[x] : n \notin Wanted
        BY <2>1, Told
      <3>2. Told1
        BY <2>1, <2>2, <3>1
      <3>3. call'[x].stage # "stopping"
        BY <2>3 DEF Ends
      <3> QED
        BY <1>0, <2>1, <2>2, <2>3, <3>2, <3>3, WantedHandler
    <2>4. CASE GoesOn(x, "stopping") /\ UNCHANGED doubt
      <3>1. watched' \cap call'[x].arg = {} /\ \E q \in Running : GoesOn(x, q)
        BY <1>3, <2>1, <2>4 DEF Running
      <3> QED
        BY <1>0, <2>1, <2>2, <2>4, <3>1, WantedHandler
    <2> QED
      BY <2>1, <2>3, <2>4
  <1>11. CASE RemoveStop(x)
    <2>1. /\ Ends(x) /\ Settle(x) /\ watched' = watched /\ call[x].stage = "stopping"
          /\ UNCHANGED <<conn, task, list, catalogs, envs, crossed>> /\ Runs(x)
      BY <1>2, <1>11, HandlerFields DEF RemoveStop, Running
    <2>2. call[x].op = "remove" /\ Touches(x) = call[x].arg
      BY <1>0, <2>1 DEF CallForm, Touches
    <2>3. \A n \in Touches(x) \ crossed[x] : n \notin Wanted
      BY <2>1, <2>2, Told DEF Runs
    <2>4. Told1
      BY <2>1, <2>2, <2>3 DEF Taken
    <2>5. call'[x].stage # "stopping"
      BY <2>1 DEF Ends
    <2> QED
      BY <1>0, <2>1, <2>4, <2>5, WantedHandler DEF Runs
  <1> QED
    BY <1>4, <1>5, <1>6, <1>7, <1>8, <1>9, <1>10, <1>11 DEF Handle

\* The inductive invariant: what every caller knows is true or crossed, and what
\* is not yet as wanted has a request that is yet to see to it.
LEMMA WantedInvariant == Spec => [](Informed /\ Taken /\ Arriving)
  <1> DEFINE Inv == Informed /\ Taken /\ Arriving
  <1>1. Init => Inv
    <2>1. SUFFICES ASSUME Init PROVE Inv
      OBVIOUS
    <2>2. \A x \in Callers : Carries(x) = {} /\ call[x].stage = "none"
      BY <2>1, CallersFact, CallShapes DEF Init, Carries, Idle
    <2> QED
      BY <2>1, <2>2 DEF Init, Informed, InformedOf, Taken, Arriving, Wanted
  <1>2. TypeInv /\ Forms /\ Met /\ Inv /\ [Next]_vars => Inv'
    <2>1. SUFFICES ASSUME TypeInv, TypeOK, Forms, Met, Informed, Taken, Arriving, [Next]_vars
                   PROVE  Inv'
      BY DEF TypeInv
    <2>2. CASE UNCHANGED vars
      BY <2>1, <2>2, WantedFrame DEF vars
    <2>3. ASSUME NEW c \in Conns, RegistryStepOf(c) PROVE Inv'
      BY <2>1, <2>3, RegistryStepFacts, WantedFrame
    <2>4. ASSUME NEW c \in Conns, ManagerClose(c) PROVE Inv'
      <3>1. ManagerClose(client)
        BY <2>4 DEF ManagerClose
      <3> QED
        BY <2>1, <3>1, WantedAbort
    <2>5. CASE ManagerRestart
      BY <2>1, <2>5, WantedAbort
    <2>6. ASSUME NEW c \in Conns, ListForRegistration(c) PROVE Inv'
      BY <2>1, <2>6, WantedRegistration
    <2>7. ASSUME NEW t \in Tasks, TaskStepOf(t) \/ SendTask(t) PROVE Inv'
      BY <2>1, <2>7, WantedTaskStep, WantedSend
    <2>8. ASSUME NEW x \in Callers, Handle(x) \/ Answer(x) \/ CallFails(x) PROVE Inv'
      BY <2>1, <2>8, WantedHandle, WantedReturn
    <2>9. CASE Next
      BY <2>3, <2>4, <2>5, <2>6, <2>7, <2>8, <2>9, StepKinds
    <2> QED
      BY <2>1, <2>2, <2>9
  <1>3. Init => TypeInv
    BY BoundsAssumption, CallersFact
       DEF Init, TypeInv, TypeOK, Idle, NoCall, CallType, Running
  <1> QED
    BY <1>1, <1>2, <1>3, TypeStep, FormsInvariant, MatchedInvariant, PTL DEF Spec

\* When nothing is in flight, the kube-manager watches exactly the namespaces the
\* database wants, except where the last change may not have arrived: however
\* registrations, refreshes and single calls interleave, an answered call that
\* met no other and was crossed by no change has brought its namespaces up to date.
THEOREM WatchedWanted == Spec => []WatchedIsWanted
  <1>1. Arriving => WatchedIsWanted
    BY DEF Arriving, WatchedIsWanted, Quiet, Pending, Idle
  <1> QED
    BY <1>1, WantedInvariant, PTL

=============================================================================
