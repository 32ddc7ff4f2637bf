------------------------- MODULE MCClusterWatches -------------------------
(* Small instances of ClusterWatches for TLC.                               *)
EXTENDS ClusterWatches, TLC

=============================================================================
