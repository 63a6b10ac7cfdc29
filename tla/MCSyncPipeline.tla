--------------------------- MODULE MCSyncPipeline ---------------------------
(* Small instances of SyncPipeline for TLC. *)
EXTENDS SyncPipeline, TLC

CONSTANTS t, i, r1, r2, here, there

OneHome == (r1 :> here)
TwoAtHome == (r1 :> here) @@ (r2 :> here)
OneEach == (r1 :> here) @@ (r2 :> there)
=============================================================================
