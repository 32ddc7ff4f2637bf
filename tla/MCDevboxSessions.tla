-------------------------- MODULE MCDevboxSessions --------------------------
(* Small instances of DevboxSessions for TLC.                               *)
EXTENDS DevboxSessions, TLC

\* The devices are interchangeable, and so are the environments.
Symmetric == Permutations(Devices) \cup Permutations(Envs)
=============================================================================
