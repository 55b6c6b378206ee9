--------------------------- MODULE MCGcCollection ---------------------------
(* Small instances of GcCollection for TLC. *)
EXTENDS GcCollection

=============================================================================
