-------------------------- MODULE MC_SnapshotDelta --------------------------
(* Two entities, one with a baseline; rings that hold two full snapshots.    *)
EXTENDS SnapshotDelta

MCViews == {1 :> 1, (1 :> 2) @@ (2 :> 1)}
MCBaseline == (1 :> 1) @@ (2 :> 0)
=============================================================================
