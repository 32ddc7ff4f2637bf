----------------------- MODULE MCEnvironmentLifecycle -----------------------
(* Small instances of EnvironmentLifecycle for TLC.                         *)
EXTENDS EnvironmentLifecycle, TLC

\* Environments and task slots are interchangeable.
Symmetry == Permutations(Envs) \cup Permutations(Tasks)

\* The properties checked under it speak of environments outside contended, which
\* never shrinks: once it is everything only types and Shape could be seen to fail.
SomeUncontended == contended # Envs

=============================================================================
