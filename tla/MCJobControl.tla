---------------------------- MODULE MCJobControl ----------------------------
(* Model-checking instance of JobControl. *)
EXTENDS JobControl, TLC

CONSTANTS short, long   \* clusters: "sched-long-*" ids start with "sched-short-"

OneCluster  == {short}
TwoClusters == {short, long}
NoShadows   == {}
NameShadows == {<<short, long>>}
Symmetry    == Permutations(Jobs)

=============================================================================
