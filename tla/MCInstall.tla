----------------------------- MODULE MCInstall -----------------------------
(* Model-checking instance of Install: two services, one database beside the *)
(* linked state, and runs that follow runs that failed or were killed.       *)
EXTENDS Install

=============================================================================
