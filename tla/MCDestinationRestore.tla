------------------------ MODULE MCDestinationRestore ------------------------
(* Restoration with the bounds of its two configurations.                *)
EXTENDS DestinationRestore
=============================================================================
