--------------------------- MODULE MCCatalogSync ---------------------------
(* Small instances of CatalogSync for TLC.                                  *)
EXTENDS CatalogSync, TLC

\* Slots are interchangeable; workloads are where all of them are listed.
Slots == Permutations(Handlers) \cup Permutations(Syncs)

SlotsAndWorkloads == Permutations(Handlers) \cup Permutations(Workloads)

=============================================================================
