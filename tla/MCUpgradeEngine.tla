--------------------------- MODULE MCUpgradeEngine ---------------------------
(* Two operations, the second of which may take over from the first.         *)
EXTENDS UpgradeEngine
=============================================================================
