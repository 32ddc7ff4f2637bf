------------------------- MODULE GenerationRegistry -------------------------
(***************************************************************************)
(* What the API promises of its registries of connections: the servers of  *)
(* a cluster (KubeClusterServer::register and unregister), the tunnels of  *)
(* a cluster (TunnelRegistry), the tunnels of a devbox user                *)
(* (DevboxTunnelRegistry) and the sidecars of a workload                   *)
(* (SidecarProxyManager) are all kept this way.                            *)
(*                                                                         *)
(* A connection draws a number from a counter, is entered under it and is  *)
(* taken out again, once each and in this order.  A connection that was    *)
(* taken out never returns, the entries are never those of another         *)
(* connection, and a reader picks the entry with the highest number.       *)
(***************************************************************************)
EXTENDS Naturals

CONSTANT Members   \* the connections that may ever be made

VARIABLES
    number,        \* number[m]: the generation m drew, 0 before
    entered,       \* the connections in the registry
    left,          \* those that were taken out
    counter        \* the next generation

registryVars == <<number, entered, left, counter>>

\* The connection a reader picks among S: the newest one.
IsNewest(m, S) == m \in S /\ \A o \in S : number[o] <= number[m]

Init ==
    /\ number = [m \in Members |-> 0]
    /\ entered = {}
    /\ left = {}
    /\ counter = 1

Draw(m) ==
    /\ number[m] = 0
    /\ number' = [number EXCEPT ![m] = counter]
    /\ counter' = counter + 1
    /\ UNCHANGED <<entered, left>>

Enter(m) ==
    /\ number[m] # 0
    /\ m \notin entered \cup left
    /\ entered' = entered \cup {m}
    /\ UNCHANGED <<number, left, counter>>

Leave(m) ==
    /\ m \in entered
    /\ entered' = entered \ {m}
    /\ left' = left \cup {m}
    /\ UNCHANGED <<number, counter>>

Next == \E m \in Members : Draw(m) \/ Enter(m) \/ Leave(m)

Spec == Init /\ [][Next]_registryVars
=============================================================================
