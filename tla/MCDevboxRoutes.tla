--------------------------- MODULE MCDevboxRoutes ---------------------------
(* Small instances of DevboxRoutes for TLC.                                 *)
EXTENDS DevboxRoutes, TLC

\* The branches are interchangeable.
Symmetric == Permutations(Branches)

\* A user that works elsewhere from the start has the one branch with a row, and has
\* not intercepted it yet; that of another branch gets there by ListSession.
InitSmall ==
    /\ Init
    /\ \A b \in Branches : session[b] = "elsewhere" => branched = {b} /\ ~intercept[b]

SpecSmall == InitSmall /\ [][Next]_vars
=============================================================================
