------------------------ MODULE DevboxSessionsProofs ------------------------
(***************************************************************************)
(* Theorems about DevboxSessions, for every number of devices,             *)
(* environments, connections, changes and faults.                          *)
(***************************************************************************)
EXTENDS DevboxSessions, TLAPS

----------------------------------------------------------------------------
(* Type correctness.                                                        *)

\* A change of the active environment that is under way names an environment, and
\* a connection that was made comes from a device.
TypeInv ==
    /\ TypeOK
    /\ \A r \in Requests : request[r].op = "write" => request[r].env \in Envs
    /\ \A c \in Conns : conn[c] # "new" => device[c] \in Devices

\* Spawning keeps the types of the tasks and of what they act on.
LEMMA SpawnType ==
    ASSUME TypeOK, NEW P \in SUBSET Envs, NEW C \in SUBSET Envs, Spawn(P, C)
    PROVE  jobs' \subseteq Jobs /\ routes' \subseteq Envs /\ crossing' \subseteq Envs
  BY DEF Spawn, TypeOK, Jobs

\* The environment of the row, where there is one, is an environment.
LEMMA ActiveType ==
    ASSUME TypeOK
    PROVE  /\ Some(ActiveEnv) \subseteq Envs
           /\ Some(row.env) \subseteq Envs
           /\ ActiveEnv \in Envs \cup {NoEnv}
  BY DEF Some, ActiveEnv, TypeOK

\* A fault is counted within its bound.
LEMMA FaultType == ASSUME TypeOK, Fault PROVE faults' \in 0 .. MaxFaults
  BY BoundsAssumption DEF Fault, TypeOK

\* Every action keeps the types.
LEMMA TypeStep == TypeInv /\ [Next]_vars => TypeInv'
<1> SUFFICES ASSUME TypeInv, [Next]_vars PROVE TypeInv'
  OBVIOUS
<1>0. TypeOK
  BY DEF TypeInv
<1>1. ASSUME NEW c \in Conns, NEW d \in Devices, Connect(c, d) PROVE TypeInv'
  BY <1>1 DEF Connect, TypeInv, TypeOK, sessionVars, cliVars, routeVars
<1>2. ASSUME NEW c \in Conns, Whoami(c) PROVE TypeInv'
  <2>1. CASE Active
    <3>1. jobs' \subseteq Jobs /\ routes' \subseteq Envs /\ crossing' \subseteq Envs
      BY <1>2, <1>0, <2>1, ActiveType, SpawnType DEF Whoami
    <3> QED
      BY <1>2, <2>1, <3>1 DEF Whoami, TypeInv, TypeOK
  <2>2. CASE ~Active
    BY <1>2, <2>2 DEF Whoami, Hangup, TypeInv, TypeOK, routeVars
  <2> QED
    BY <2>1, <2>2
<1>3. ASSUME NEW d \in Devices, LoseConnection(d) PROVE TypeInv'
  <2>f. faults' \in 0 .. MaxFaults
    BY <1>3, <1>0, FaultType DEF LoseConnection
  <2> QED
    BY <1>3, <2>f DEF LoseConnection, Hangup, TypeInv, TypeOK, sessionVars, cliVars,
         routeVars
<1>4. ASSUME NEW d \in Devices, Quit(d) PROVE TypeInv'
  BY <1>4 DEF Quit, Hangup, TypeInv, TypeOK, sessionVars, cliVars, routeVars
<1>5. ASSUME NEW c \in Conns, Displaced(c) PROVE TypeInv'
  BY <1>5 DEF Displaced, Hangup, TypeInv, TypeOK, sessionVars, cliVars, routeVars
<1>6. ASSUME NEW c \in Conns, Displace(c) PROVE TypeInv'
  BY <1>6 DEF Displace, Handles, TypeInv, TypeOK, sessionVars, cliVars, routeVars
<1>7. ASSUME NEW c \in Conns, Store(c) PROVE TypeInv'
  BY <1>7 DEF Store, TypeInv, TypeOK, sessionVars, cliVars, routeVars
<1>8. ASSUME NEW c \in Conns, Register(c) PROVE TypeInv'
  BY <1>8 DEF Register, TypeInv, TypeOK, sessionVars, cliVars, routeVars
<1>9. ASSUME NEW c \in Conns, UpgradeFails(c) PROVE TypeInv'
  BY <1>9 DEF UpgradeFails, TypeInv, TypeOK, sessionVars, cliVars, routeVars
<1>10. ASSUME NEW c \in Conns, Unlist(c) PROVE TypeInv'
  BY <1>10 DEF Unlist, Handles, TypeInv, TypeOK, sessionVars, cliVars, routeVars
<1>11. ASSUME NEW c \in Conns, ReadRow(c) PROVE TypeInv'
  <2>s. jobs' \subseteq Jobs /\ routes' \subseteq Envs /\ crossing' \subseteq Envs
    BY <1>11, <1>0, ActiveType, SpawnType DEF ReadRow
  <2> QED
    BY <1>11, <2>s, <1>0, ActiveType DEF ReadRow, TypeInv, TypeOK, sessionVars,
         cliVars, routeVars
<1>12. ASSUME NEW c \in Conns, Revoke(c) PROVE TypeInv'
  BY <1>12, <1>0, ActiveType DEF Revoke, TypeInv, TypeOK, sessionVars, cliVars,
       routeVars
<1>13. ASSUME DashboardRevoke PROVE TypeInv'
  <2>f. faults' \in 0 .. MaxFaults
    BY <1>13, <1>0, FaultType DEF DashboardRevoke
  <2> QED
    BY <1>13, <2>f, <1>0, ActiveType DEF DashboardRevoke, TypeInv, TypeOK, sessionVars,
         cliVars, routeVars
<1>14. ASSUME NEW r \in Requests, NEW e \in Envs, NEW via \in {"dashboard", "rpc"}, StartSwitch(r, e, via) PROVE TypeInv'
  BY <1>14, <1>0, ActiveType DEF StartSwitch, TypeInv, TypeOK, sessionVars, cliVars,
       routeVars
<1>15. ASSUME NEW r \in Requests, FinishSwitch(r) PROVE TypeInv'
  <2>e. request[r].env \in Envs /\ request[r].prev \in Envs \cup {NoEnv}
    BY <1>15 DEF FinishSwitch, TypeInv, TypeOK
  <2>o. Overtaken(r) \subseteq Envs
    BY <1>0, <2>e, ActiveType DEF Overtaken
  <2>p. Some(request[r].prev) \subseteq Envs
    BY <2>e DEF Some
  <2>r. row' \in [by: Conns \cup {None}, revoked: BOOLEAN, env: Envs \cup {NoEnv}]
    BY <1>15, <1>0, <2>e DEF FinishSwitch, UpdateEnv, TypeOK
  <2>s. jobs' \subseteq Jobs /\ routes' \subseteq Envs /\ crossing' \subseteq Envs
    BY <1>15, <1>0, <2>e, <2>p, SpawnType DEF FinishSwitch
  <2> QED
    BY <1>15, <2>e, <2>o, <2>p, <2>r, <2>s DEF FinishSwitch, Free, TypeInv, TypeOK,
         cliVars, routeVars
<1>16. ASSUME NEW r \in Requests, SwitchFails(r) PROVE TypeInv'
  <2>f. faults' \in 0 .. MaxFaults
    BY <1>16, <1>0, FaultType DEF SwitchFails
  <2>e. request[r].env \in Envs /\ request[r].prev \in Envs \cup {NoEnv}
    BY <1>16 DEF SwitchFails, TypeInv, TypeOK
  <2>o. Overtaken(r) \subseteq Envs
    BY <1>0, <2>e, ActiveType DEF Overtaken
  <2>p. Some(request[r].prev) \subseteq Envs
    BY <2>e DEF Some
  <2>r. row' \in [by: Conns \cup {None}, revoked: BOOLEAN, env: Envs \cup {NoEnv}]
    BY <1>16, <1>0, <2>e DEF SwitchFails, UpdateEnv, TypeOK
  <2> QED
    BY <1>16, <2>f, <2>e, <2>o, <2>p, <2>r DEF SwitchFails, Free, TypeInv, TypeOK,
         cliVars, routeVars
<1>17. ASSUME NEW j \in Jobs, RunJob(j) PROVE TypeInv'
  <2>j. j[2] \in Envs
    BY DEF Jobs
  <2> QED
    BY <1>17, <2>j DEF RunJob, Uncross, TypeInv, TypeOK, sessionVars, cliVars, routeVars
<1>18. ASSUME NEW j \in Jobs, JobFails(j) PROVE TypeInv'
  <2>f. faults' \in 0 .. MaxFaults
    BY <1>18, <1>0, FaultType DEF JobFails
  <2>j. j[2] \in Envs
    BY DEF Jobs
  <2> QED
    BY <1>18, <2>f, <2>j DEF JobFails, Uncross, TypeInv, TypeOK, sessionVars, cliVars,
         routeVars
<1>19. CASE UNCHANGED vars
  BY <1>19 DEF vars, TypeInv, TypeOK
<1> QED
  BY <1>1, <1>2, <1>3, <1>4, <1>5, <1>6, <1>7, <1>8, <1>9, <1>10, <1>11, <1>12, <1>13,
       <1>14, <1>15, <1>16, <1>17, <1>18, <1>19 DEF Next, Serve

\* TypeOK holds in every state: an environment that is active, to be pushed or
\* to be cleared is one of the user's, and never the absence of one.
THEOREM TypeCorrect == Spec => []TypeOK
<1>1. Init => TypeInv
  BY NoEnvAssumption, NoDeviceAssumption, BoundsAssumption
     DEF Init, TypeInv, TypeOK, Free, Jobs, Conns, Requests, None
<1>2. TypeInv => TypeOK
  BY DEF TypeInv
<1> QED
  BY <1>1, <1>2, TypeStep, PTL DEF Spec

----------------------------------------------------------------------------
(* One session.                                                             *)

\* c has looked for other connections, and its end at the CLI is open.
Looked(c) == conn[c] \in {"alone", "stored", "registered", "greeted"} /\ line[device[c]] = c

\* Of two connections that looked for others the later one found the earlier and
\* told it to leave, unless the earlier was not registered yet.  This holds also
\* while tasks run and the connections are on their way.
FoundOrTogether ==
    \A b, c \in Conns : b # c /\ Looked(b) /\ Looked(c) =>
      b \in told \/ c \in told \/ {b, c} \in together

SessionInv == TypeInv /\ FoundOrTogether

\* An action after which the same connections, or fewer, have looked and are open,
\* and nobody else is no longer told, keeps FoundOrTogether.
LEMMA FewerLooked ==
    ASSUME FoundOrTogether,
           \A c \in Conns : Looked(c)' => Looked(c) /\ (c \in told => c \in told'),
           together' = together
    PROVE  FoundOrTogether'
  BY DEF FoundOrTogether

\* Every action keeps FoundOrTogether.
LEMMA SessionStep == SessionInv /\ [Next]_vars => SessionInv'
<1> SUFFICES ASSUME SessionInv, [Next]_vars PROVE FoundOrTogether'
  BY TypeStep DEF SessionInv
<1>0. TypeInv /\ FoundOrTogether
  BY DEF SessionInv
<1>1. ASSUME NEW c \in Conns, NEW d \in Devices, Connect(c, d) PROVE FoundOrTogether'
  <2>1. ~Looked(c)'
    BY <1>1, <1>0 DEF Connect, Looked, TypeInv, TypeOK
  <2>2. \A b \in Conns \ {c} : Looked(b)' => Looked(b)
    BY <1>1, <1>0 DEF Connect, Looked, TypeInv, TypeOK
  <2> QED
    BY <1>1, <1>0, <2>1, <2>2, FewerLooked DEF Connect
<1>2. ASSUME NEW c \in Conns, Displace(c) PROVE FoundOrTogether'
  <2>1. \A b \in Conns \ {c} : Looked(b)' => Looked(b)
    BY <1>2, <1>0 DEF Displace, Looked, TypeInv, TypeOK, cliVars
  <2>2. \A b \in Conns \ {c} : Looked(b) => b \in told' \/ {b, c} \in together'
    BY <1>2, <1>0 DEF Displace, Looked, Handles, TypeInv, TypeOK
  <2>3. told \subseteq told' /\ together \subseteq together'
    BY <1>2 DEF Displace
  <2>4. ASSUME NEW a \in Conns, NEW b \in Conns, a # b, Looked(a)', Looked(b)'
        PROVE  a \in told' \/ b \in told' \/ {a, b} \in together'
    <3>1. CASE a = c
      <4>1. b \in told' \/ {b, c} \in together'
        BY <2>1, <2>2, <2>4, <3>1
      <4>2. {b, c} = {a, b}
        BY <3>1
      <4> QED
        BY <4>1, <4>2
    <3>2. CASE b = c
      BY <2>1, <2>2, <2>4, <3>2
    <3>3. CASE a # c /\ b # c
      <4>1. a \in told \/ b \in told \/ {a, b} \in together
        BY <1>0, <2>1, <2>4, <3>3 DEF FoundOrTogether
      <4> QED
        BY <2>3, <4>1
    <3> QED
      BY <3>1, <3>2, <3>3
  <2> QED
    BY <2>4 DEF FoundOrTogether
<1>3. ASSUME NEW c \in Conns, Whoami(c) PROVE FoundOrTogether'
  <2>1. CASE Active
    <3>1. \A b \in Conns : Looked(b)' => Looked(b)
      BY <1>3, <1>0, <2>1 DEF Whoami, Looked, TypeInv, TypeOK
    <3> QED
      BY <1>3, <1>0, <3>1, FewerLooked DEF Whoami
  <2>2. CASE ~Active
    <3>1. \A b \in Conns : Looked(b)' => Looked(b)
      BY <1>3, <1>0, <2>2 DEF Whoami, Hangup, Looked, TypeInv, TypeOK, Conns, None
    <3> QED
      BY <1>3, <1>0, <3>1, FewerLooked DEF Whoami
  <2> QED
    BY <2>1, <2>2
<1>4. ASSUME NEW d \in Devices, LoseConnection(d) PROVE FoundOrTogether'
  <2>1. \A b \in Conns : Looked(b)' => Looked(b) /\ (b \in told => b \in told')
    BY <1>4, <1>0 DEF LoseConnection, Looked, TypeInv, TypeOK, Hangup, Conns, None,
         sessionVars
  <2> QED
    BY <1>4, <1>0, <2>1, FewerLooked DEF LoseConnection
<1>5. ASSUME NEW d \in Devices, Quit(d) PROVE FoundOrTogether'
  <2>1. \A b \in Conns : Looked(b)' => Looked(b) /\ (b \in told => b \in told')
    BY <1>5, <1>0 DEF Quit, Looked, TypeInv, TypeOK, Hangup, Conns, None, sessionVars
  <2> QED
    BY <1>5, <1>0, <2>1, FewerLooked DEF Quit
<1>6. ASSUME NEW c \in Conns, Displaced(c) PROVE FoundOrTogether'
  <2>1. \A b \in Conns : Looked(b)' => Looked(b) /\ (b \in told => b \in told')
    BY <1>6, <1>0 DEF Displaced, Looked, TypeInv, TypeOK, Hangup, Conns, None
  <2> QED
    BY <1>6, <1>0, <2>1, FewerLooked DEF Displaced
<1>7. ASSUME NEW c \in Conns, Store(c) PROVE FoundOrTogether'
  <2>1. \A b \in Conns : Looked(b)' => Looked(b) /\ (b \in told => b \in told')
    BY <1>7, <1>0 DEF Store, Looked, TypeInv, TypeOK, cliVars
  <2> QED
    BY <1>7, <1>0, <2>1, FewerLooked DEF Store
<1>8. ASSUME NEW c \in Conns, Register(c) PROVE FoundOrTogether'
  <2>1. \A b \in Conns : Looked(b)' => Looked(b) /\ (b \in told => b \in told')
    BY <1>8, <1>0 DEF Register, Looked, TypeInv, TypeOK, cliVars
  <2> QED
    BY <1>8, <1>0, <2>1, FewerLooked DEF Register
<1>9. ASSUME NEW c \in Conns, UpgradeFails(c) PROVE FoundOrTogether'
  <2>1. \A b \in Conns : Looked(b)' => Looked(b) /\ (b \in told => b \in told')
    BY <1>9, <1>0 DEF UpgradeFails, Looked, TypeInv, TypeOK, cliVars
  <2> QED
    BY <1>9, <1>0, <2>1, FewerLooked DEF UpgradeFails
<1>10. ASSUME NEW c \in Conns, Unlist(c) PROVE FoundOrTogether'
  <2>1. \A b \in Conns : Looked(b)' => Looked(b) /\ (b \in told => b \in told')
    BY <1>10, <1>0 DEF Unlist, Looked, TypeInv, TypeOK, cliVars
  <2> QED
    BY <1>10, <1>0, <2>1, FewerLooked DEF Unlist
<1>11. ASSUME NEW c \in Conns, ReadRow(c) PROVE FoundOrTogether'
  <2>1. \A b \in Conns : Looked(b)' => Looked(b) /\ (b \in told => b \in told')
    BY <1>11, <1>0 DEF ReadRow, Looked, TypeInv, TypeOK, cliVars
  <2> QED
    BY <1>11, <1>0, <2>1, FewerLooked DEF ReadRow
<1>12. ASSUME NEW c \in Conns, Revoke(c) PROVE FoundOrTogether'
  <2>1. \A b \in Conns : Looked(b)' => Looked(b) /\ (b \in told => b \in told')
    BY <1>12, <1>0 DEF Revoke, Looked, TypeInv, TypeOK, cliVars
  <2> QED
    BY <1>12, <1>0, <2>1, FewerLooked DEF Revoke
<1>13. ASSUME DashboardRevoke PROVE FoundOrTogether'
  <2>1. \A b \in Conns : Looked(b)' => Looked(b) /\ (b \in told => b \in told')
    BY <1>13, <1>0 DEF DashboardRevoke, Looked, TypeInv, TypeOK, cliVars
  <2> QED
    BY <1>13, <1>0, <2>1, FewerLooked DEF DashboardRevoke
<1>14. ASSUME NEW r \in Requests, NEW e \in Envs, NEW via \in {"dashboard", "rpc"}, StartSwitch(r, e, via) PROVE FoundOrTogether'
  <2>1. \A b \in Conns : Looked(b)' => Looked(b) /\ (b \in told => b \in told')
    BY <1>14, <1>0 DEF StartSwitch, Looked, TypeInv, TypeOK, sessionVars, cliVars
  <2> QED
    BY <1>14, <1>0, <2>1, FewerLooked DEF StartSwitch
<1>15. ASSUME NEW r \in Requests, FinishSwitch(r) PROVE FoundOrTogether'
  <2>1. \A b \in Conns : Looked(b)' => Looked(b) /\ (b \in told => b \in told')
    BY <1>15, <1>0 DEF FinishSwitch, Looked, TypeInv, TypeOK, cliVars
  <2> QED
    BY <1>15, <1>0, <2>1, FewerLooked DEF FinishSwitch
<1>16. ASSUME NEW r \in Requests, SwitchFails(r) PROVE FoundOrTogether'
  <2>1. \A b \in Conns : Looked(b)' => Looked(b) /\ (b \in told => b \in told')
    BY <1>16, <1>0 DEF SwitchFails, Looked, TypeInv, TypeOK, cliVars
  <2> QED
    BY <1>16, <1>0, <2>1, FewerLooked DEF SwitchFails
<1>17. ASSUME NEW j \in Jobs, RunJob(j) PROVE FoundOrTogether'
  <2>1. \A b \in Conns : Looked(b)' => Looked(b) /\ (b \in told => b \in told')
    BY <1>17, <1>0 DEF RunJob, Looked, TypeInv, TypeOK, sessionVars, cliVars
  <2> QED
    BY <1>17, <1>0, <2>1, FewerLooked DEF RunJob
<1>18. ASSUME NEW j \in Jobs, JobFails(j) PROVE FoundOrTogether'
  <2>1. \A b \in Conns : Looked(b)' => Looked(b) /\ (b \in told => b \in told')
    BY <1>18, <1>0 DEF JobFails, Looked, TypeInv, TypeOK, sessionVars, cliVars
  <2> QED
    BY <1>18, <1>0, <2>1, FewerLooked DEF JobFails
<1>19. CASE UNCHANGED vars
  BY <1>19, <1>0 DEF vars, FoundOrTogether, Looked
<1> QED
  BY <1>1, <1>2, <1>3, <1>4, <1>5, <1>6, <1>7, <1>8, <1>9, <1>10, <1>11, <1>12, <1>13,
       <1>14, <1>15, <1>16, <1>17, <1>18, <1>19 DEF Next, Serve

\* At most one of a user's connections stays up: of any two that are, one has
\* been told to leave, or the two looked for others at the same time.
THEOREM AtMostOneSession == Spec => []OneSession
<1>1. Init => SessionInv
  <2>1. Init => TypeInv
    BY NoEnvAssumption, NoDeviceAssumption, BoundsAssumption
       DEF Init, TypeInv, TypeOK, Free, Jobs, Conns, Requests, None
  <2>2. Init => FoundOrTogether
    BY DEF Init, FoundOrTogether, Looked
  <2> QED
    BY <2>1, <2>2 DEF SessionInv
<1>2. SessionInv => OneSession
  BY DEF SessionInv, FoundOrTogether, OneSession, Open, Looked, Handles
<1> QED
  BY <1>1, <1>2, SessionStep, PTL DEF Spec

----------------------------------------------------------------------------
(* Routes follow the session.                                               *)

\* Somebody will read the row and clear its routes; somebody was greeted; somebody
\* has read the row and will revoke it.
Minded == \E c \in Conns : conn[c] \in {"registered", "greeted", "unlisted"}
Greeted == \E c \in Conns : conn[c] = "greeted"
Leaving == \E c \in Conns : conn[c] = "read"

\* The tasks pending on e, and whether e is routed once they have run.
Pending(e) == \E j \in jobs : j[2] = e
Ends(e) == IF <<"push", e>> \in jobs THEN TRUE
           ELSE IF <<"clear", e>> \in jobs THEN FALSE ELSE e \in routes

\* A push and a clear of one environment that are pending at once have met, and
\* what has met is pending still.
JobsMeet ==
    \A e \in Envs :
        /\ <<"push", e>> \in jobs /\ <<"clear", e>> \in jobs => e \in crossing
        /\ e \in crossing => Pending(e)

\* Only the active environment is on its way to be routed, and somebody is there
\* who will read the row and clear its routes.
RoutedIsActive ==
    \A e \in Envs \ (stray \cup crossing) : Ends(e) => ActiveEnv = e /\ Minded

\* The active environment of a connection that was greeted is on its way to be
\* routed, unless another connection has cleared it and is about to revoke the row.
ActiveIsRouted ==
    \A e \in Envs \ (stray \cup crossing) :
        ActiveEnv = e /\ Greeted => Ends(e) \/ Leaving

\* Nobody who was greeted is left when the row is revoked, or its environment is
\* stray: the next connection makes it active again.
RevokedIsStray ==
    ~Active /\ Greeted => Some(row.env) \subseteq stray

Followed == JobsMeet /\ RoutedIsActive /\ ActiveIsRouted /\ RevokedIsStray

\* Spawning decides how the environments it names end, unless their tasks meet
\* others, and leaves the rest alone.
LEMMA SpawnEnds ==
    ASSUME TypeOK, JobsMeet, NEW P \in SUBSET Envs, NEW C \in SUBSET Envs,
           P \cap C = {}, Spawn(P, C)
    PROVE  /\ JobsMeet' /\ crossing \subseteq crossing'
           /\ \A e \in Envs \ crossing' :
                 /\ e \in P => Ends(e)'
                 /\ e \in C => ~Ends(e)'
                 /\ e \notin P \cup C => (Ends(e)' <=> Ends(e))
<1> DEFINE new == ({"push"} \X P) \cup ({"clear"} \X C)
<1>1. jobs' = jobs \cup new /\ routes' = routes
  BY DEF Spawn
<1>2. crossing' = crossing \cup {e \in Envs : \E j \in jobs, k \in new : j[2] = e /\ k[2] = e}
  BY DEF Spawn
<1>3. \A e \in Envs : /\ <<"push", e>> \in new <=> e \in P
                      /\ <<"clear", e>> \in new <=> e \in C
  OBVIOUS
<1>4. ASSUME NEW e \in Envs, e \in P \cup C, Pending(e) PROVE e \in crossing'
  <2>1. \E k \in new : k[2] = e
    <3>1. CASE e \in P
      <4>1. <<"push", e>> \in new /\ <<"push", e>>[2] = e
        BY <3>1
      <4> QED
        BY <4>1
    <3>2. CASE e \in C
      <4>1. <<"clear", e>> \in new /\ <<"clear", e>>[2] = e
        BY <3>2
      <4> QED
        BY <4>1
    <3> QED
      BY <1>4, <3>1, <3>2
  <2> QED
    BY <1>2, <1>4, <2>1 DEF Pending
<1> HIDE DEF new
<1>5. \A e \in Envs : <<"push", e>> \in jobs \/ <<"clear", e>> \in jobs => Pending(e)
  <2> SUFFICES ASSUME NEW e \in Envs, <<"push", e>> \in jobs \/ <<"clear", e>> \in jobs
               PROVE  Pending(e)
    OBVIOUS
  <2>1. <<"push", e>>[2] = e /\ <<"clear", e>>[2] = e
    OBVIOUS
  <2> QED
    BY <2>1 DEF Pending
<1>6. JobsMeet'
  <2> SUFFICES ASSUME NEW e \in Envs
               PROVE  /\ <<"push", e>> \in jobs' /\ <<"clear", e>> \in jobs' => e \in crossing'
                      /\ e \in crossing' => Pending(e)'
    BY DEF JobsMeet
  <2>1. <<"push", e>> \in jobs' /\ <<"clear", e>> \in jobs' => e \in crossing'
    BY <1>1, <1>2, <1>3, <1>4, <1>5 DEF JobsMeet
  <2>2. e \in crossing' => Pending(e)'
    BY <1>1, <1>2 DEF JobsMeet, Pending
  <2> QED
    BY <2>1, <2>2
<1>7. ASSUME NEW e \in Envs \ crossing'
      PROVE  /\ e \in P => Ends(e)'
             /\ e \in C => ~Ends(e)'
             /\ e \notin P \cup C => (Ends(e)' <=> Ends(e))
  BY <1>1, <1>3, <1>4, <1>5 DEF Ends
<1> QED
  BY <1>2, <1>6, <1>7

\* The end of a task leaves how an environment ends as it was, unless the
\* environment is stray from then on.
LEMMA JobEnds ==
    ASSUME TypeOK, JobsMeet, NEW j \in Jobs, RunJob(j) \/ JobFails(j)
    PROVE  /\ JobsMeet' /\ stray \subseteq stray'
           /\ \A e \in Envs \ (stray' \cup crossing') :
                 e \notin crossing /\ (Ends(e)' <=> Ends(e))
<1>1. /\ j \in jobs /\ jobs' = jobs \ {j} /\ crossing' = Uncross(j)
      /\ stray \subseteq stray'
  BY DEF RunJob, JobFails
<1>2. PICK e \in Envs : j = <<"push", e>> \/ j = <<"clear", e>>
  BY DEF Jobs
<1>3. j[2] = e
  BY <1>2
<1>4. /\ \A x \in Envs \ {e} : x \in crossing' <=> x \in crossing
      /\ e \in crossing' => e \in crossing /\ \E k \in jobs \ {j} : k[2] = e
      /\ e \in crossing /\ (\E k \in jobs \ {j} : k[2] = e) => e \in crossing'
  BY <1>1, <1>3 DEF Uncross
<1>5. JobsMeet'
  <2> SUFFICES ASSUME NEW x \in Envs
               PROVE  /\ <<"push", x>> \in jobs' /\ <<"clear", x>> \in jobs' => x \in crossing'
                      /\ x \in crossing' => Pending(x)'
    BY DEF JobsMeet
  <2>1. CASE x = e
    BY <1>1, <1>2, <1>4, <2>1 DEF Pending
  <2>2. CASE x # e
    <3>1. Pending(x) => Pending(x)'
      BY <1>1, <1>3, <2>2 DEF Pending
    <3> QED
      BY <1>1, <1>4, <2>2, <3>1 DEF JobsMeet
  <2> QED
    BY <2>1, <2>2
<1>6. ASSUME NEW x \in Envs \ (stray' \cup crossing')
      PROVE  x \notin crossing /\ (Ends(x)' <=> Ends(x))
  <2>1. CASE x = e
    <3>1. RunJob(j) /\ e \notin crossing
      BY <1>3, <1>6, <2>1 DEF RunJob, JobFails
    <3>2. ~(<<"push", e>> \in jobs /\ <<"clear", e>> \in jobs)
      BY <3>1 DEF JobsMeet
    <3>3. CASE j = <<"push", e>>
      <4>1. j[1] = "push"
        BY <3>3
      <4>2. e \in routes'
        BY <1>3, <3>1, <4>1 DEF RunJob
      <4>3. <<"push", e>> \notin jobs' /\ <<"clear", e>> \notin jobs' /\ <<"push", e>> \in jobs
        BY <1>1, <3>2, <3>3
      <4>4. Ends(e)
        BY <4>3 DEF Ends
      <4>5. Ends(e)'
        BY <4>2, <4>3 DEF Ends
      <4> QED
        BY <2>1, <3>1, <4>4, <4>5
    <3>4. CASE j = <<"clear", e>>
      <4>1. j[1] # "push"
        BY <3>4
      <4>2. e \notin routes'
        BY <1>3, <3>1, <4>1 DEF RunJob
      <4>3. <<"push", e>> \notin jobs' /\ <<"clear", e>> \notin jobs' /\ <<"push", e>> \notin jobs
        BY <1>1, <3>2, <3>4
      <4>4. <<"clear", e>> \in jobs
        BY <1>1, <3>4
      <4>5. ~Ends(e)
        BY <4>3, <4>4 DEF Ends
      <4>6. ~Ends(e)'
        BY <4>2, <4>3 DEF Ends
      <4> QED
        BY <2>1, <3>1, <4>5, <4>6
    <3> QED
      BY <1>2, <3>3, <3>4
  <2>2. CASE x # e
    <3>1. x \in routes' <=> x \in routes
      BY <1>3, <2>2 DEF RunJob, JobFails
    <3>2. /\ <<"push", x>> \in jobs' <=> <<"push", x>> \in jobs
          /\ <<"clear", x>> \in jobs' <=> <<"clear", x>> \in jobs
      BY <1>1, <1>2, <2>2
    <3>3. x \notin crossing
      BY <1>4, <1>6, <2>2
    <3> QED
      BY <3>1, <3>2, <3>3 DEF Ends
  <2> QED
    BY <2>1, <2>2
<1> QED
  BY <1>1, <1>5, <1>6

\* A step that touches neither the row nor the routes keeps the invariant, if
\* whoever minds the routes or is leaving still does, and nobody is greeted.
LEMMA FollowedKept ==
    ASSUME Followed, UNCHANGED <<row, jobs, routes, crossing, stray>>,
           Minded => Minded', Greeted' => Greeted, Leaving => Leaving'
    PROVE  Followed'
  BY DEF Followed, JobsMeet, Pending, RoutedIsActive, ActiveIsRouted, RevokedIsStray, Ends,
     ActiveEnv, Active, Some

\* Every action keeps the invariant.
LEMMA FollowedStep == TypeInv /\ Followed /\ [Next]_vars => Followed'
<1> SUFFICES ASSUME TypeInv, Followed, [Next]_vars PROVE Followed'
  OBVIOUS
<1>0. /\ TypeOK /\ JobsMeet /\ RoutedIsActive /\ ActiveIsRouted /\ RevokedIsStray
  BY DEF TypeInv, Followed
<1>1. ASSUME NEW c \in Conns, NEW d \in Devices, Connect(c, d) PROVE Followed'
  <2>1. UNCHANGED <<row, jobs, routes, crossing, stray>>
    BY <1>1 DEF Connect, routeVars
  <2>2. (Minded => Minded') /\ (Greeted' => Greeted) /\ (Leaving => Leaving')
    BY <1>1, <1>0 DEF Connect, TypeOK, Minded, Greeted, Leaving
  <2> QED
    BY <2>1, <2>2, FollowedKept
<1>2. ASSUME NEW d \in Devices, LoseConnection(d) PROVE Followed'
  <2>1. UNCHANGED <<row, jobs, routes, crossing, stray>>
    BY <1>2 DEF LoseConnection, sessionVars, routeVars
  <2>2. (Minded => Minded') /\ (Greeted' => Greeted) /\ (Leaving => Leaving')
    BY <1>2, <1>0 DEF LoseConnection, sessionVars, TypeOK, Minded, Greeted, Leaving
  <2> QED
    BY <2>1, <2>2, FollowedKept
<1>3. ASSUME NEW d \in Devices, Quit(d) PROVE Followed'
  <2>1. UNCHANGED <<row, jobs, routes, crossing, stray>>
    BY <1>3 DEF Quit, sessionVars, routeVars
  <2>2. (Minded => Minded') /\ (Greeted' => Greeted) /\ (Leaving => Leaving')
    BY <1>3, <1>0 DEF Quit, sessionVars, TypeOK, Minded, Greeted, Leaving
  <2> QED
    BY <2>1, <2>2, FollowedKept
<1>4. ASSUME NEW c \in Conns, Displaced(c) PROVE Followed'
  <2>1. UNCHANGED <<row, jobs, routes, crossing, stray>>
    BY <1>4 DEF Displaced, routeVars
  <2>2. (Minded => Minded') /\ (Greeted' => Greeted) /\ (Leaving => Leaving')
    BY <1>4, <1>0 DEF Displaced, TypeOK, Minded, Greeted, Leaving
  <2> QED
    BY <2>1, <2>2, FollowedKept
<1>5. ASSUME NEW c \in Conns, Displace(c) PROVE Followed'
  <2>1. UNCHANGED <<row, jobs, routes, crossing, stray>>
    BY <1>5 DEF Displace, routeVars
  <2>2. (Minded => Minded') /\ (Greeted' => Greeted) /\ (Leaving => Leaving')
    BY <1>5, <1>0 DEF Displace, TypeOK, Minded, Greeted, Leaving
  <2> QED
    BY <2>1, <2>2, FollowedKept
<1>6. ASSUME NEW c \in Conns, Register(c) PROVE Followed'
  <2>1. UNCHANGED <<row, jobs, routes, crossing, stray>>
    BY <1>6 DEF Register, routeVars
  <2>2. (Minded => Minded') /\ (Greeted' => Greeted) /\ (Leaving => Leaving')
    BY <1>6, <1>0 DEF Register, TypeOK, Minded, Greeted, Leaving
  <2> QED
    BY <2>1, <2>2, FollowedKept
<1>7. ASSUME NEW c \in Conns, UpgradeFails(c) PROVE Followed'
  <2>1. UNCHANGED <<row, jobs, routes, crossing, stray>>
    BY <1>7 DEF UpgradeFails, routeVars
  <2>2. (Minded => Minded') /\ (Greeted' => Greeted) /\ (Leaving => Leaving')
    BY <1>7, <1>0 DEF UpgradeFails, TypeOK, Minded, Greeted, Leaving
  <2> QED
    BY <2>1, <2>2, FollowedKept
<1>8. ASSUME NEW c \in Conns, Unlist(c) PROVE Followed'
  <2>1. UNCHANGED <<row, jobs, routes, crossing, stray>>
    BY <1>8 DEF Unlist, Handles, routeVars
  <2>2. (Minded => Minded') /\ (Greeted' => Greeted) /\ (Leaving => Leaving')
    BY <1>8, <1>0 DEF Unlist, Handles, TypeOK, Minded, Greeted, Leaving
  <2> QED
    BY <2>1, <2>2, FollowedKept
<1>9. ASSUME NEW r \in Requests, NEW e \in Envs, NEW via \in {"dashboard", "rpc"},
             StartSwitch(r, e, via) PROVE Followed'
  <2>1. UNCHANGED <<row, jobs, routes, crossing, stray>>
    BY <1>9 DEF StartSwitch, sessionVars, routeVars
  <2>2. (Minded => Minded') /\ (Greeted' => Greeted) /\ (Leaving => Leaving')
    BY <1>9, <1>0 DEF StartSwitch, sessionVars, TypeOK, Minded, Greeted, Leaving
  <2> QED
    BY <2>1, <2>2, FollowedKept
<1>10. ASSUME NEW c \in Conns, Whoami(c) PROVE Followed'
  <2>1. CASE ~Active
    <3>1. UNCHANGED <<row, jobs, routes, crossing, stray, conn>>
      BY <1>10, <2>1 DEF Whoami, routeVars
    <3> QED
      BY <3>1, FollowedKept DEF Minded, Greeted, Leaving
  <2>2. CASE Active
    <3>1. Spawn(Some(row.env), {}) /\ UNCHANGED <<row, stray>>
      BY <1>10, <2>2 DEF Whoami
    <3>2. /\ JobsMeet' /\ crossing \subseteq crossing'
          /\ \A e \in Envs \ crossing' :
                /\ e \in Some(row.env) => Ends(e)'
                /\ e \notin Some(row.env) => (Ends(e)' <=> Ends(e))
      BY <1>0, <3>1, ActiveType, SpawnEnds
    <3>3. Active' /\ ActiveEnv' = row.env /\ ActiveEnv = row.env
      BY <2>2, <3>1 DEF Active, ActiveEnv
    <3>4. Minded'
      BY <1>10, <1>0, <2>2 DEF Whoami, Minded, TypeOK
    <3>5. RoutedIsActive'
      BY <1>0, <3>1, <3>2, <3>3, <3>4 DEF RoutedIsActive, Some
    <3>6. ActiveIsRouted'
      BY <1>0, <3>1, <3>2, <3>3, NoEnvAssumption DEF ActiveIsRouted, Some
    <3> QED
      BY <3>2, <3>3, <3>5, <3>6 DEF Followed, RevokedIsStray
  <2> QED
    BY <2>1, <2>2
<1>11. ASSUME NEW c \in Conns, Store(c) PROVE Followed'
  <2>1. UNCHANGED <<jobs, routes, crossing, stray>> /\ Active' /\ ActiveEnv' = row.env
    BY <1>11, <1>0 DEF Store, routeVars, Active, ActiveEnv, TypeOK
  <2>2. (Minded => Minded') /\ (Greeted' => Greeted) /\ (Leaving => Leaving')
    BY <1>11, <1>0 DEF Store, TypeOK, Minded, Greeted, Leaving
  <2>3. JobsMeet' /\ \A e \in Envs : Ends(e)' <=> Ends(e)
    BY <1>0, <2>1 DEF JobsMeet, Pending, Ends
  <2>4. RoutedIsActive'
    <3>1. \A e \in Envs : ActiveEnv = e => row.env = e
      BY NoEnvAssumption DEF ActiveEnv
    <3> QED
      BY <1>0, <2>1, <2>2, <2>3, <3>1 DEF RoutedIsActive
  <2>5. ActiveIsRouted'
    <3>1. ASSUME NEW e \in Envs \ (stray \cup crossing), row.env = e, Greeted
          PROVE  Ends(e) \/ Leaving
      <4>1. Active
        BY <1>0, <3>1, NoEnvAssumption DEF RevokedIsStray, Some
      <4> QED
        BY <1>0, <3>1, <4>1 DEF ActiveIsRouted, ActiveEnv
    <3> QED
      BY <2>1, <2>2, <2>3, <3>1 DEF ActiveIsRouted
  <2> QED
    BY <2>1, <2>3, <2>4, <2>5 DEF Followed, RevokedIsStray
<1>12. ASSUME NEW c \in Conns, ReadRow(c) PROVE Followed'
  <2>1. Spawn({}, Some(ActiveEnv)) /\ UNCHANGED row /\ stray' = stray \ {ActiveEnv}
    BY <1>12 DEF ReadRow
  <2>2. /\ JobsMeet' /\ crossing \subseteq crossing'
        /\ \A e \in Envs \ crossing' :
              /\ e \in Some(ActiveEnv) => ~Ends(e)'
              /\ e \notin Some(ActiveEnv) => (Ends(e)' <=> Ends(e))
    <3>1. Some(ActiveEnv) \subseteq Envs
      BY <1>0, ActiveType
    <3>2. /\ JobsMeet' /\ crossing \subseteq crossing'
          /\ \A e \in Envs \ crossing' :
                /\ e \in Some(ActiveEnv) => ~Ends(e)'
                /\ e \notin {} \cup Some(ActiveEnv) => (Ends(e)' <=> Ends(e))
      BY <1>0, <2>1, <3>1, SpawnEnds
    <3> QED
      BY <3>2
  <2>3. Leaving' /\ (Greeted' => Greeted)
    BY <1>12, <1>0 DEF ReadRow, TypeOK, Leaving, Greeted
  <2>4. \A e \in Envs \ (stray' \cup crossing') : ~Ends(e)'
    <3> SUFFICES ASSUME NEW e \in Envs \ (stray' \cup crossing') PROVE ~Ends(e)'
      OBVIOUS
    <3>1. CASE e = ActiveEnv
      BY <2>2, <3>1, NoEnvAssumption DEF Some
    <3>2. CASE e # ActiveEnv
      <4>1. ~Ends(e)
        BY <1>0, <2>1, <2>2, <3>2 DEF RoutedIsActive
      <4> QED
        BY <2>2, <3>2, <4>1 DEF Some
    <3> QED
      BY <3>1, <3>2
  <2>5. RevokedIsStray'
    <3>1. ~Active => stray' = stray
      BY <1>0, <2>1, NoEnvAssumption DEF ActiveEnv, TypeOK
    <3> QED
      BY <1>0, <2>1, <2>3, <3>1 DEF RevokedIsStray, Active
  <2> QED
    BY <2>2, <2>3, <2>4, <2>5 DEF Followed, RoutedIsActive, ActiveIsRouted
<1>13. ASSUME NEW c \in Conns, Revoke(c) PROVE Followed'
  <2>1. UNCHANGED <<jobs, routes, crossing>> /\ ~Active' /\ ActiveEnv' = NoEnv
        /\ row'.env = row.env
    BY <1>13, <1>0 DEF Revoke, routeVars, Active, ActiveEnv, TypeOK
  <2>2. /\ conn[c] = "read"
        /\ stray' = stray \cup (Some(ActiveEnv) \ IF Others(c) = {} THEN {found[c]} ELSE {})
    BY <1>13 DEF Revoke
  <2>3. Others(c) = {} => ~Minded /\ ~Greeted
    BY <2>2 DEF Others, Minded, Greeted
  <2>4. JobsMeet' /\ \A e \in Envs : Ends(e)' <=> Ends(e)
    BY <1>0, <2>1 DEF JobsMeet, Pending, Ends
  <2>5. Greeted' => Greeted
    BY <1>13, <1>0 DEF Revoke, TypeOK, Greeted
  <2>6. ASSUME NEW e \in Envs \ (stray' \cup crossing') PROVE ~Ends(e)'
    <3>1. CASE e = ActiveEnv
      <4>1. Others(c) = {}
        BY <2>2, <2>6, <3>1, NoEnvAssumption DEF Some
      <4> QED
        BY <1>0, <2>1, <2>2, <2>3, <2>4, <2>6, <4>1 DEF RoutedIsActive
    <3>2. CASE e # ActiveEnv
      BY <1>0, <2>1, <2>2, <2>4, <2>6, <3>2 DEF RoutedIsActive
    <3> QED
      BY <3>1, <3>2
  <2>7. RevokedIsStray'
    <3> SUFFICES ASSUME Greeted PROVE Some(row.env) \subseteq stray'
      BY <2>1, <2>5 DEF RevokedIsStray
    <3>1. Others(c) # {}
      BY <2>3
    <3>2. CASE Active
      BY <2>2, <3>1, <3>2 DEF ActiveEnv
    <3>3. CASE ~Active
      BY <1>0, <2>2, <3>3 DEF RevokedIsStray
    <3> QED
      BY <3>2, <3>3
  <2>8. RoutedIsActive'
    BY <2>6 DEF RoutedIsActive
  <2>9. ActiveIsRouted'
    BY <2>1, NoEnvAssumption DEF ActiveIsRouted
  <2> QED
    BY <2>4, <2>7, <2>8, <2>9 DEF Followed
<1>14. ASSUME DashboardRevoke PROVE Followed'
  <2>1. UNCHANGED <<jobs, routes, crossing, conn>> /\ ~Active' /\ ActiveEnv' = NoEnv
        /\ row'.env = row.env /\ stray' = stray \cup Some(row.env) /\ ActiveEnv = row.env
    BY <1>14, <1>0 DEF DashboardRevoke, routeVars, Active, ActiveEnv, TypeOK
  <2>2. JobsMeet' /\ \A e \in Envs : Ends(e)' <=> Ends(e)
    BY <1>0, <2>1 DEF JobsMeet, Pending, Ends
  <2>3. RoutedIsActive'
    BY <1>0, <2>1, <2>2, NoEnvAssumption DEF RoutedIsActive, Some
  <2>4. ActiveIsRouted'
    BY <2>1, NoEnvAssumption DEF ActiveIsRouted
  <2>5. RevokedIsStray'
    BY <2>1 DEF RevokedIsStray
  <2> QED
    BY <2>2, <2>3, <2>4, <2>5 DEF Followed
<1>15. ASSUME NEW r \in Requests, FinishSwitch(r) PROVE Followed'
  <2> DEFINE new == request[r].env
             prev == request[r].prev
  <2>1. new \in Envs /\ prev \in Envs \cup {NoEnv}
    BY <1>15 DEF FinishSwitch, TypeInv, TypeOK
  <2>2. /\ Spawn({new}, Some(prev) \ {new})
        /\ stray' = (stray \ ({prev} \ Dormant)) \cup Overtaken(r)
        /\ UNCHANGED conn
    BY <1>15 DEF FinishSwitch
  <2>3. /\ Active => Active' /\ ActiveEnv' = new
        /\ ~Active => row' = row
    BY <1>15, <1>0, <2>1 DEF FinishSwitch, UpdateEnv, Active, ActiveEnv, TypeOK
  <2>4. /\ Some(ActiveEnv) \subseteq stray' \cup {prev, new}
        /\ ~Active \/ Handles = {} => new \in stray'
    BY <2>2 DEF Overtaken
  <2> HIDE DEF new, prev
  <2>5. /\ JobsMeet' /\ crossing \subseteq crossing'
        /\ \A e \in Envs \ crossing' :
              /\ e = new => Ends(e)'
              /\ e = prev /\ e # new => ~Ends(e)'
              /\ e # new /\ e # prev => (Ends(e)' <=> Ends(e))
    <3>1. {new} \subseteq Envs /\ Some(prev) \ {new} \subseteq Envs
          /\ {new} \cap (Some(prev) \ {new}) = {}
      BY <2>1 DEF Some
    <3>2. /\ JobsMeet' /\ crossing \subseteq crossing'
          /\ \A e \in Envs \ crossing' :
                /\ e \in {new} => Ends(e)'
                /\ e \in Some(prev) \ {new} => ~Ends(e)'
                /\ e \notin {new} \cup (Some(prev) \ {new}) => (Ends(e)' <=> Ends(e))
      BY <1>0, <2>2, <3>1, SpawnEnds
    <3> QED
      BY <3>2, NoEnvAssumption DEF Some
  <2>6. ASSUME NEW e \in Envs \ (stray' \cup crossing'), e # new PROVE ~Ends(e)'
    <3>1. CASE e = prev
      BY <2>5, <2>6, <3>1
    <3>2. CASE e # prev
      <4>1. e # ActiveEnv
        BY <2>4, <2>6, <3>2, NoEnvAssumption DEF Some
      <4>2. e \notin stray
        BY <2>2, <2>6, <3>2
      <4> QED
        BY <1>0, <2>5, <2>6, <3>2, <4>1, <4>2 DEF RoutedIsActive
    <3> QED
      BY <3>1, <3>2
  <2>7. new \notin stray' => Active /\ Minded'
    <3>1. Handles # {} => Minded
      BY DEF Handles, Minded
    <3> QED
      BY <2>2, <2>4, <3>1 DEF Minded
  <2>8. RoutedIsActive'
    BY <2>1, <2>3, <2>6, <2>7 DEF RoutedIsActive
  <2>9. ActiveIsRouted'
    <3>1. CASE Active
      BY <2>1, <2>3, <2>5, <3>1 DEF ActiveIsRouted
    <3>2. CASE ~Active
      BY <2>3, <3>2, NoEnvAssumption DEF ActiveIsRouted, ActiveEnv, Active
    <3> QED
      BY <3>1, <3>2
  <2>10. RevokedIsStray'
    <3>1. CASE Active
      BY <2>3, <3>1 DEF RevokedIsStray
    <3>2. CASE ~Active
      <4>1. row.env \in stray => row.env \in stray'
        BY <2>2, <3>2 DEF Dormant
      <4> QED
        BY <1>0, <2>2, <2>3, <3>2, <4>1 DEF RevokedIsStray, Some, Active, Greeted
    <3> QED
      BY <3>1, <3>2
  <2> QED
    BY <2>5, <2>8, <2>9, <2>10 DEF Followed
<1>16. ASSUME NEW r \in Requests, SwitchFails(r) PROVE Followed'
  <2>1. request[r].env \in Envs
    BY <1>16 DEF SwitchFails, TypeInv, TypeOK
  <2>2. /\ stray' = stray \cup Overtaken(r) \cup Some(request[r].prev) \cup {request[r].env}
        /\ UNCHANGED <<conn, jobs, routes, crossing>>
    BY <1>16 DEF SwitchFails, routeVars
  <2>3. /\ Active => Active' /\ ActiveEnv' = request[r].env
        /\ ~Active => row' = row
    BY <1>16, <1>0, <2>1 DEF SwitchFails, UpdateEnv, Active, ActiveEnv, TypeOK
  <2>4. Some(ActiveEnv) \subseteq stray'
    BY <2>2 DEF Overtaken, Some
  <2>5. JobsMeet' /\ \A e \in Envs : Ends(e)' <=> Ends(e)
    BY <1>0, <2>2 DEF JobsMeet, Pending, Ends
  <2>6. RoutedIsActive'
    BY <1>0, <2>2, <2>4, <2>5, NoEnvAssumption DEF RoutedIsActive, Some
  <2>7. ActiveIsRouted'
    <3>1. CASE Active
      BY <2>2, <2>3, <3>1 DEF ActiveIsRouted
    <3>2. CASE ~Active
      BY <2>3, <3>2, NoEnvAssumption DEF ActiveIsRouted, ActiveEnv, Active
    <3> QED
      BY <3>1, <3>2
  <2>8. RevokedIsStray'
    BY <1>0, <2>2, <2>3 DEF RevokedIsStray, Active, Greeted
  <2> QED
    BY <2>5, <2>6, <2>7, <2>8 DEF Followed
<1>17. ASSUME NEW j \in Jobs, RunJob(j) \/ JobFails(j) PROVE Followed'
  <2>1. UNCHANGED <<row, conn>>
    BY <1>17 DEF RunJob, JobFails, sessionVars
  <2>2. /\ JobsMeet' /\ stray \subseteq stray'
        /\ \A e \in Envs \ (stray' \cup crossing') :
              e \notin crossing /\ (Ends(e)' <=> Ends(e))
    BY <1>0, <1>17, JobEnds
  <2>3. /\ ActiveEnv' = ActiveEnv /\ (Active' <=> Active) /\ (Minded' <=> Minded)
        /\ (Greeted' <=> Greeted) /\ (Leaving' <=> Leaving)
    BY <2>1 DEF ActiveEnv, Active, Minded, Greeted, Leaving
  <2>4. RoutedIsActive'
    BY <1>0, <2>2, <2>3 DEF RoutedIsActive
  <2>5. ActiveIsRouted'
    BY <1>0, <2>2, <2>3 DEF ActiveIsRouted
  <2>6. RevokedIsStray'
    BY <1>0, <2>1, <2>2, <2>3 DEF RevokedIsStray
  <2> QED
    BY <2>2, <2>4, <2>5, <2>6 DEF Followed
<1>18. CASE UNCHANGED vars
  BY <1>18, FollowedKept DEF vars, Minded, Greeted, Leaving
<1> QED
  BY <1>1, <1>2, <1>3, <1>4, <1>5, <1>6, <1>7, <1>8, <1>9, <1>10, <1>11, <1>12, <1>13,
       <1>14, <1>15, <1>16, <1>17, <1>18 DEF Next, Serve

\* Once everything spawned has run, the cluster routes the user's traffic for
\* exactly the environment of the session a connection keeps alive, outside the
\* environments that a failure or an overtaken change made stray.
THEOREM RoutesFollow == Spec => []RoutesFollowSession
<1>1. Init => TypeInv /\ Followed
  <2>1. Init => TypeInv
    BY NoEnvAssumption, NoDeviceAssumption, BoundsAssumption
       DEF Init, TypeInv, TypeOK, Free, Jobs, Conns, Requests, None
  <2>2. Init => Followed
    BY DEF Init, Followed, JobsMeet, RoutedIsActive, ActiveIsRouted, RevokedIsStray, Ends,
       Pending, Greeted
  <2> QED
    BY <2>1, <2>2
<1>2. TypeInv /\ Followed => RoutesFollowSession
  <2> SUFFICES ASSUME TypeInv, Followed, Settled
               PROVE  routes \ stray = (IF Handles = {} THEN {} ELSE Some(ActiveEnv)) \ stray
    BY DEF RoutesFollowSession
  <2>0. TypeOK /\ jobs = {} /\ \A c \in Conns : conn[c] \in {"new", "greeted", "gone"}
    BY DEF TypeInv, Settled
  <2>1. crossing = {}
    BY <2>0 DEF Followed, JobsMeet, Pending, TypeOK
  <2>2. (Minded <=> Greeted) /\ (Handles # {} <=> Greeted) /\ ~Leaving
    BY <2>0 DEF Minded, Greeted, Leaving, Handles
  <2>3. \A e \in Envs : Ends(e) <=> e \in routes
    BY <2>0 DEF Ends
  <2>4. ASSUME NEW e \in Envs \ stray
        PROVE  e \in routes <=> Handles # {} /\ ActiveEnv = e
    BY <2>1, <2>2, <2>3 DEF Followed, RoutedIsActive, ActiveIsRouted
  <2>5. routes \subseteq Envs /\ Some(ActiveEnv) \subseteq Envs
    BY <2>0, ActiveType DEF TypeOK
  <2>6. \A e \in Envs : e \in Some(ActiveEnv) <=> e = ActiveEnv
    BY NoEnvAssumption DEF Some
  <2>7. CASE Handles = {}
    BY <2>4, <2>5, <2>7
  <2>8. CASE Handles # {}
    BY <2>4, <2>5, <2>6, <2>8
  <2> QED
    BY <2>7, <2>8
<1> QED
  BY <1>1, <1>2, TypeStep, FollowedStep, PTL DEF Spec

=============================================================================
